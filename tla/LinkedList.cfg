CONSTANTS
  n1 = n1
  n2 = n2
  n3 = n3
  n4 = n4
  l1 = l1
  l2 = l2
  null = null
  Node = {n1, n2, n3, n4}
  List = {l1, l2}
  Null = null
SPECIFICATION Spec
INVARIANTS WellLinked
PROPERTIES ImplementsLists
