CONSTANTS
  a = a
  b = b
  n1 = n1
  n2 = n2
  NoJob = NoJob
  Jobs = {a, b}
  Nodes = {n1, n2}
  Type <- AdaptiveAndMalleable
  MinNodes <- OneNode
  MaxNodes <- TwoNodes
  AllowOversubscription = FALSE
  Walltime <- WalltimeOfA
  ScheduleOnSubmit = TRUE
  ScheduleOnFinalize = TRUE
  ScheduleOnSchedulingPoint = TRUE
  ScheduleOnReconfiguration = FALSE
  MinInterval = FALSE
  Allocations <- NodeLists
  MayKill = {a, b}
  Careful = TRUE
  Iterations <- TwoIterations
  Periodic = FALSE
SPECIFICATION Spec
INVARIANTS
  TypeOK
  StatesCurrent
  OneContinuation
  Reservations
  NodeStateHonest
  NoAbort
  Accounting
  WalltimeOfActive
  ProgressCurrent
  DecisionsForwarded
PROPERTIES
  FinalIsFinal
CHECK_DEADLOCK FALSE
