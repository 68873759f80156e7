SPECIFICATION FairSpec
CONSTANTS
  NumSources = 1
  Endpoints <- MCEndpoints
  Names <- MCNames
  FullName <- MCFullName
  PartName <- MCPartName
  NoEndpoint = NoEndpoint
  NoName = NoName
  Refs <- TwoRefs
  MaxShift = 1
  MaxWait = 2
  MaxPlugs = 2
  MaxEdits = 1
  MaxClicks = 1
  MaxFaults = 1
  card = card
  wave = wave
  elgato = elgato
  exact = exact
INVARIANTS StreamFollowsSelection SavedIdSelected
PROPERTIES RetriesGoOn PluggedInIsCaptured
