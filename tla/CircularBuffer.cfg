CONSTANTS
  Capacity = 2
  MaxBatch = 2
  MaxSends = 6
  MaxDrops = 2
  Calls = {"blocking", "timed"}
  Spurious = TRUE
  Sampling = FALSE
SPECIFICATION Spec
INVARIANTS
  WindowIntact
  NoSlotRace
  ReadsInOrder
  NoLostWakeup
  WatermarkSound
PROPERTY ImplementsFifo
