CONSTANTS
    Threads = {t1, t2}
    Versions <- MCVersions
    Tags <- MCTags
    Size = 1
    Limit = 1
    Installs <- MCInstalls
    MaxFaults = 2
    MaxCrashes = 1
SPECIFICATION FairSpec
INVARIANTS OneWorker AProgramRemains OnlyPublishedInstalled 
PROPERTIES OnlyForward RestartsIntoNew
CHECK_DEADLOCK FALSE
