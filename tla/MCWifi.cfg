SPECIFICATION WifiFairSpec
CONSTANTS
  PCs = {a, b}
  NoPC = NoPC
  MaxRequests = 2
  MaxLinks = 3
INVARIANTS
  LiveLinkIsWanted
  NoSecondConversation
  OneRetryLoop
PROPERTIES
  AttemptsEnd
CHECK_DEADLOCK FALSE
