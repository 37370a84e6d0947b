------------------------- MODULE MCUserAgentRequests -------------------------
(* Model values for UserAgentRequests: two Call-IDs, two tags and four     *)
(* branches for this UA, one INVITE identity of the peer sent with CSeq 1  *)
(* or 2 (a re-INVITE), one realm and two nonces.                           *)
EXTENDS UserAgentRequests

CONSTANTS c1, c2, t1, t2, b1, b2, b3, b4, pc, pt, r1, n1, n2

MCCallIds == {c1, c2}
MCTags == {t1, t2}
MCBranches == {b1, b2, b3, b4}
MCPeerInvites == {[call_id |-> pc, from_tag |-> pt]}
MCPeerCSeqs == {1, 2}
MCRealms == {r1}
MCNonces == {n1, n2}

=============================================================================
