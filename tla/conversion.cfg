SPECIFICATION Spec
CONSTANTS
  Precision = 3
  IntBits = 5
  LastDate = 3
  Fine = 4
  Depths = {2, 3}
  Budgets = {40, 1000}
  n1 = n1
  n2 = n2
  Nodes = {n1, n2}
  Leaf = Leaf
  Hashes = {h1, h2}
  SetNodes = {n2}
  Shapes <- ReadShapes
  MaxDepths = {1, 2, 3}
INVARIANTS
  LimitsBindExactly
  
  SeenIsThePath
  VerdictIsExact
CHECK_DEADLOCK FALSE
