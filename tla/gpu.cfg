\* Two jobs after each other or at the same time on a node with two GPUs; one job executes
\* two tasks on a GPU, the other one.
CONSTANTS
  Apps = 2
  Tasks <- TwoAndOne
  NumGpus = 2
  Used = 1
  Parts = {"both", "kernels"}
  Shared = TRUE
SPECIFICATION FairViewSpec
INVARIANTS
  OwnTransfer
  NothingLeft
  GpusKnownAtRest
PROPERTIES
  TasksEnd
CHECK_DEADLOCK FALSE
