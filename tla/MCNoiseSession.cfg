SPECIFICATION SessionSpec
CONSTANTS
  Word = 3
  MaxNonce = 10
INVARIANTS
  WordsAreMemory
PROPERTIES
  ImplementsGuard
