SPECIFICATION FairSpec
CONSTANTS
  Addrs = {a1, a2}
  Phones = {p1, p2}
  Inputs = {k1}
  MaxSessions = 1
  Quiet = 1
  Idle = 2
  Forgetting = TRUE
  SavesFail = TRUE
  MaxPackets = 5
INVARIANTS
  NothingStuck
  SessionsOfPairedPhones
  DownAtStopCameTooLate
PROPERTIES
  SilenceLetsGo
CHECK_DEADLOCK FALSE
