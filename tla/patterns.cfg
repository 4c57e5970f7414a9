CONSTANTS
  MaxCount = 5
  MaxGpus = 3
  Size = 5987520
SPECIFICATION Spec
INVARIANTS
  VectorsSpread
  MatricesSpread
  GpuTrafficConserved
  IoMirrored
CHECK_DEADLOCK FALSE
