CONSTANTS
  a = a
  b = b
  n1 = n1
  n2 = n2
  NoJob = NoJob
  Jobs = {a, b}
  Nodes = {n1, n2}
  Type <- AllMalleable
  MinNodes <- OneNode
  MaxNodes <- TwoNodes
  AllowOversubscription = FALSE
  Walltime <- NoWalltime
  ScheduleOnSubmit = TRUE
  ScheduleOnFinalize = TRUE
  ScheduleOnSchedulingPoint = TRUE
  ScheduleOnReconfiguration = FALSE
  MinInterval = FALSE
  Allocations <- NodeLists
  MayKill = {}
  Careful = TRUE
  Iterations <- TwoIterations
  Periodic = FALSE
SPECIFICATION Spec
INVARIANTS
  ContinuesAsAssigned
CHECK_DEADLOCK FALSE
