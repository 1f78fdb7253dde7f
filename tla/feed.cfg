\* Events, batches, lost answers, with two crashes, or a crash and a failed write.
SPECIFICATION Spec
CONSTANTS
  Cap = 2
  Headroom = 1
  FailClosed = FALSE
  Leavings = {"nothing", "whole", "torn"}
  MaxEvents = 4
  MaxInFlight = 0
  MaxOthers = 4
  MaxCrashes = 2
  MaxFaults = 1
  MaxTroubles = 2
INVARIANTS ExportSound GapsAreReported NothingLost ChainVerifies
PROPERTY KeepsOrder
CHECK_DEADLOCK FALSE
