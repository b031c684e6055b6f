SPECIFICATION DiscoverySpec
CONSTANTS
    Setups <- MCSetups
    NoMulticast <- MCNoMulticast
    MAX_PAYLOAD = 65535
    MAX_NAME = 255
    Absent = Absent
    MaxChanges = 3
INVARIANT
    HeardOnce
PROPERTY
    KeepsTrying
