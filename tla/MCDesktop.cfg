CONSTANTS
  s = s
  t = t
  o = o
  k1 = k1
  k2 = k2
  NoKey = NoKey
  NoOne = NoOne
  MaxChanges = 2
  Who = {s, t, o}
  Chords = {k1, k2}
  Limit <- MCLimit
  Setups <- MCSetups
SYMMETRY MCSymmetry
SPECIFICATION Spec
INVARIANTS
  NeverAnotherDevice
  UserIsObeyed
  TrayHoldsNoMeters
  ShortcutsAreSaved
