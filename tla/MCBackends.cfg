SPECIFICATION BackendsSpec
CONSTANTS
  Systems <- MCSystems
  Usages <- MCUsages
  KeyMods <- MCKeyMods
  UsedButtons <- MCButtons
  MaxHeld = 2
  RestTexts <- MCRestTexts
  HeldTexts <- MCHeldTexts
  MAX_UNICODE_UNITS_PER_EVENT = 3
  RETRY_AFTER = 2
  MaxFaults = 1
INVARIANTS NothingStaysDown TextArrives
PROPERTY AllowedIsUsed
CHECK_DEADLOCK FALSE
