CONSTANTS
  Capacity = 4
  CursorSize = 8
  MaxFrames = 10
SPECIFICATION RingSpec
INVARIANT NoRace
PROPERTY IsFifo
