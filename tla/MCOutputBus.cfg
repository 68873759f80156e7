CONSTANTS
  Capacity = 10
  Target = 2
  History = 1
  Block = 2
  Fade = 2
  Periods = {1, 3, 8}
  MaxEpoch = 2
  RatioLo = 995
  RatioHi = 1005
  RatioUnit = 1000
SPECIFICATION FairSpec
INVARIANTS
  BrokenTimelineDropped
  DropsInSilence
PROPERTIES
  PrimingSuffices
  PrimingEnds
  BacklogTrimmed
