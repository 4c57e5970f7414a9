\* One job with any application model, up to two nodes and two GPUs per node of which one
\* exists, whose run-time arguments the algorithm replaces.
SPECIFICATION Spec
CONSTANTS
  MaxNodes = 2
  MaxGpus = 2
  NodeGpus = 1
  a1 = a1
  a2 = a2
  Arguments = {a1, a2}
  Naming = {a1}
  Workloads <- Models
CHECK_DEADLOCK FALSE
INVARIANTS
  ShapesFit
  LateFailures
  OneConfiguration
