CONSTANTS
  a = a
  b = b
  n1 = n1
  n2 = n2
  NoJob = NoJob
  Jobs = {a, b}
  Nodes = {n1, n2}
  Type <- AllMalleable
  MinNodes <- OneNode
  MaxNodes <- UpToTwo
  AllowOversubscription = TRUE
  Walltime <- NoWalltime
  ScheduleOnSubmit = FALSE
  ScheduleOnFinalize = FALSE
  ScheduleOnSchedulingPoint = FALSE
  ScheduleOnReconfiguration = TRUE
  MinInterval = TRUE
  Allocations <- NodeLists
  MayKill = {}
  Careful = FALSE
  Iterations <- TwoAndOne
  Periodic = TRUE
SPECIFICATION Spec
INVARIANTS
  OneContinuation
  Occupied
CHECK_DEADLOCK FALSE
