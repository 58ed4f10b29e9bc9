SPECIFICATION WorkerSpec
CONSTANTS
  Cap = 2
  Mod = 4
  MaxBatch = 2
  MaxPush = 5
  MaxResets = 1
INVARIANTS WheelInv RingInv
PROPERTIES SweepIsPunctual ImplementsBoundedFifo
CHECK_DEADLOCK FALSE
