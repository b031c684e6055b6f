SPECIFICATION Spec
CONSTANTS
    Givens <- MCGivens
    Nothing = Nothing
    MaxChanges = 2
INVARIANT
    OnePrompt
    EntryIsWhole
PROPERTY
    KeptCurrent
CHECK_DEADLOCK FALSE
