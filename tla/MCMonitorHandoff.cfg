CONSTANTS
  NumOutputs = 2
  BusBlocks = 1
  MaxCalls = 2
  MaxFaults = 1
SPECIFICATION Spec
INVARIANTS
  NoStaleReplay
  PausedHoldsNoDevice
  FailedHoldsNoDevice
  ForwardingIsRecoverable
  OneGenerationReady
  HeardWasWanted
\* The budgets of calls and faults end, and a stopped engine may stay idle.
CHECK_DEADLOCK FALSE
