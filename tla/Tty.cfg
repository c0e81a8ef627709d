CONSTANTS
  r1 = r1
  w1 = w1
  nobody = nobody
  Reader = {r1}
  Writer = {w1}
  IBufSize = 2
  OBufSize = 3
  Typed = {"x", "lf", "del"}
  MaxKeys = 3
  Texts <- WithLineBreak
  Sizes = {1, 2}
  Nobody = nobody
SPECIFICATION Spec
INVARIANTS TtyTypeOK NoOverrun Shown NothingStranded LineFits
PROPERTIES RingsAreQueues WriteReturns
