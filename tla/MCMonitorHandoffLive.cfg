CONSTANTS
  NumOutputs = 1
  BusBlocks = 1
  MaxCalls = 3
  MaxFaults = 0
SPECIFICATION FairSpec
PROPERTIES
  RequestsHandled
  CallsReturn
\* The budgets of calls and faults end, and a stopped engine may stay idle.
CHECK_DEADLOCK FALSE
