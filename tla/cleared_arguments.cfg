CONSTANTS
  n1 = n1
  n2 = n2
  n3 = n3
  Nodes = {n1, n2, n3}
  Type = "ADAPTIVE"
  FirstNodes <- FirstTwo
  NodeLists <- OneTwoThree
  Workloads <- AllWorkloads
  Synchronized = TRUE
  Arguments = {1, 2, 3}
  Clip = FALSE
  Polite = FALSE
  MinNodes = 1
  MaxNodes = 3
SPECIFICATION Spec
INVARIANTS
  ModelsValid
CHECK_DEADLOCK FALSE
