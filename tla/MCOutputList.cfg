CONSTANTS
  a1 = a1
  a2 = a2
  b1 = b1
  NameA = NameA
  NameB = NameB
  PartOfA = PartOfA
  NoId = NoId
  NoName = NoName
  Endpoints = {a1, a2, b1}
  Name <- MCName
  PartOf <- MCPartOf
  Presets <- MCPresets
  Twins = FALSE
  MaxOutputs = 2
SPECIFICATION Spec
INVARIANTS
  OutputsDistinct
  IdOfOwnDevice
