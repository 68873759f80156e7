SPECIFICATION FairSpec
CONSTANTS
  MaxShift = 2
  MaxWait = 3
  MaxEvents = 2
  MaxEdits = 1
  MaxFaults = 1
PROPERTIES DefaultIsYielded PluggedInIsHeard
