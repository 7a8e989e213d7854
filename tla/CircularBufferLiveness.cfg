CONSTANTS
  Capacity = 2
  MaxBatch = 2
  MaxSends = 4
  MaxDrops = 1
  Calls = {"blocking"}
  Spurious = FALSE
  Sampling = TRUE
SPECIFICATION FairSpec
PROPERTIES
  WaitersProceed
  CallsReturnOnceClosed
INVARIANT SampleNotWrapped
