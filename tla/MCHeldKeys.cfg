SPECIFICATION Spec
CONSTANTS
  Keys = {x, y}
  Mods = {ctrl, shift}
  MaxLosses = 2
SYMMETRY Symmetry
INVARIANTS
  RecordMatchesKeys
  NothingDownAtRest
  VanishedPhoneHoldsNothing
CHECK_DEADLOCK FALSE
