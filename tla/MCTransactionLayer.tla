------------------------- MODULE MCTransactionLayer -------------------------
(* Small instance of TransactionLayer for TLC: two branches of our own, the *)
(* peer's INVITE, 2xx-ACK and BYE branches, one realm.                      *)
EXTENDS TransactionLayer, TLC

CONSTANTS l1, l2, r1, r2, r3, realm1

MCLocalBranch  == {l1, l2}
MCRemoteBranch == {r1, r2, r3}
\* The client-side and server-side questions are checked in separate runs:
\* the two sides share no transaction, only the table and the scheduler.
NoBranch == {}
NoMethod == [b \in NoBranch |-> "INVITE"]
\* r1 carries an INVITE (and the ACK of a non-2xx answer), r2 the ACK of a
\* 2xx answer, sent on a branch of its own as RFC 3261 requires, r3 a BYE.
MCRemoteMethod == (r1 :> "INVITE") @@ (r2 :> "ACK") @@ (r3 :> "BYE")
MCRealm == {realm1}
\* The Timer B question is asked of INVITE client transactions only.
MCInviteOnly == {"INVITE"}

=============================================================================
