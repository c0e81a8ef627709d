CONSTANTS
  TaskNr = 3
  FdCount = 3
  FileCount = 2
  DevCount = 2
  TtyNr = 2
  Segments <- TwoSegments
  MaxCalls = 5
SPECIFICATION Spec
INVARIANTS FilesTypeOK RefsRight DescriptorsReach LoadsRight
