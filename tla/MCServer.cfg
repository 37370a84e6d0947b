CONSTANTS
    l1 = l1
    l2 = l2
    r1 = r1
    r2 = r2
    r3 = r3
    realm1 = realm1
    LocalBranch <- NoBranch
    RemoteBranch <- MCRemoteBranch
    RemoteMethod <- MCRemoteMethod
    Realm <- MCRealm
    MaxRetransmissions = 2
SPECIFICATION Spec
INVARIANTS
    CleanupNeverStale
PROPERTIES
    TerminatedEventuallyRemoved
    LifecycleRefined
