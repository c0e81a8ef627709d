CONSTANTS
  t1 = t1
  t2 = t2
  t3 = t3
  m1 = m1
  s1 = s1
  idle = idle
  none = none
  Task = {t1, t2, t3}
  Idle = idle
  First = t1
  TimeSlice = 1
  TickMs = 1
  Word = 4
  Ms = {1}
  Mutex = {m1}
  Sem = {s1}
  SemInit <- OnePermit
  NoTask = none
  MaxDepth = 2
  MaxCount = 1
SPECIFICATION IpcSpec
INVARIANTS IpcTypeOK EveryTaskInOnePlace LockConsistent NoPermitWhileWaiting
PROPERTIES KeepsPromise WaiterIsServed
