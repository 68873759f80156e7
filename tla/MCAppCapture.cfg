CONSTANTS
  Pids = {1, 2}
  Slots = {1, 2}
SPECIFICATION FairSpec
INVARIANTS
  ActivationOutlivesUsers
PROPERTY
  StopReturns
