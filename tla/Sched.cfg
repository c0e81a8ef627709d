CONSTANTS
  t1 = t1
  t2 = t2
  t3 = t3
  idle = idle
  Task = {t1, t2, t3}
  Idle = idle
  First = t1
  TimeSlice = 2
  TickMs = 3
  Word = 16
  Ms <- AllMs
SPECIFICATION SchedSpec
INVARIANTS SchedTypeOK OnePlace CurrIsHead SleepersCount
PROPERTIES NoOvertaking ReadyRuns SleeperWakes
