CONSTANTS
    l1 = l1
    l2 = l2
    r1 = r1
    r2 = r2
    r3 = r3
    realm1 = realm1
    LocalBranch <- MCLocalBranch
    RemoteBranch <- NoBranch
    RemoteMethod <- NoMethod
    Realm <- MCRealm
    MaxRetransmissions = 2
SPECIFICATION Spec
CHECK_DEADLOCK FALSE
PROPERTIES
    EveryTransactionEnds
