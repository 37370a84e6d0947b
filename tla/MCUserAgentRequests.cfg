CONSTANTS
    c1 = c1  c2 = c2  t1 = t1  t2 = t2
    b1 = b1  b2 = b2  b3 = b3  b4 = b4
    pc = pc  pt = pt  r1 = r1  n1 = n1  n2 = n2
    CallIds <- MCCallIds
    Tags <- MCTags
    Branches <- MCBranches
    PeerInvites <- MCPeerInvites
    PeerCSeqs <- MCPeerCSeqs
    Realms <- MCRealms
    Nonces <- MCNonces
    MaxCSeq = 3
SPECIFICATION Spec
\* The UA stops once its uuid pools are used up and every request answered.
CHECK_DEADLOCK FALSE
INVARIANTS
    ReissueOfChallenged
    NonceCountsFresh
    CSeqIncreasesPerCall
