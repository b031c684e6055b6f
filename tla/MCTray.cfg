SPECIFICATION FairSpec
CONSTANTS
    a = a
    b = b
    earlier = earlier
    Copies = {a, b}
    Worlds <- MCWorlds
    Askers = {q}
    Nobody = Nobody
    MaxKills = 1
INVARIANTS DoneMeansGone OneIdentity
PROPERTIES AddressOfTheLivingStays QuitEnds
CHECK_DEADLOCK FALSE
