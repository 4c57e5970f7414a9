CONSTANTS
  n1 = n1
  n2 = n2
  n3 = n3
  Nodes = {n1, n2, n3}
  Type = "ADAPTIVE"
  FirstNodes <- FirstTwo
  NodeLists <- OneTwoThree
  Workloads <- AllWorkloads
  Synchronized = TRUE
  Arguments = {0, 2, 4}
  Clip = TRUE
  Polite = TRUE
  MinNodes = 1
  MaxNodes = 3
SPECIFICATION FairSpec
INVARIANTS
  TypeOK
  SamePlace
  OneTimePhases
PROPERTIES
  NoDanglingPhase
  JobReports
  ImplementsThread
CHECK_DEADLOCK FALSE
