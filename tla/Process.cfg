CONSTANTS
  TaskNr = 3
  GdtSize = 3
  Table = table
  Task <- FirstAndSlots
  Idle = 100
  First = 0
  TimeSlice = 1
  TickMs = 1
  Word = 4
  Ms = {1}
  Mutex = {table}
  Sem = {}
  SemInit <- NoPermits
  NoTask <- NullTask
  MaxDepth = 1
  MaxCount = 0
SPECIFICATION Spec
INVARIANTS ProcTypeOK EveryProcessInOnePlace ParentsAlive OwnTss
PROPERTIES FreedWhenDead ParentIsTold
CONSTRAINT ForksApart
