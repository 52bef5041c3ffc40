CONSTANTS
  Tables = {1, 2, 3, 4}
  ParentOf <- MCParentOf
  Shapes = {a, b}
  a = a
  b = b
  NumTrees = 3
SPECIFICATION Spec
INVARIANTS
  TypeOK
  KeepsNames
  KeepsTrees
