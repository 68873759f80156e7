CONSTANTS
  Capacity = 8
  Target = 2
  History = 1
  Block = 2
  Fade = 1
  Packets = {3}
  MaxEpoch = 2
  RatioLo = 995
  RatioHi = 1005
  RatioUnit = 1000
SPECIFICATION FairSpec
INVARIANTS
  BrokenTimelineDropped
PROPERTIES
  FadedInUnlessCut
  BypassOnlyIdle
  TailPlayed
  PrimingEnds
  DeadIsSilent
