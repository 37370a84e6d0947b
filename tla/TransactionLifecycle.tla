------------------------ MODULE TransactionLifecycle ------------------------
(***************************************************************************)
(* What tinysip's transaction layer (src/tinysip/fsm.py) promises the UA   *)
(* about the transaction stored under one Via branch, with the states,    *)
(* timers and messages of TransactionLayer abstracted away.  A branch is  *)
(* unused until a transaction is created on it, live while that           *)
(* transaction runs, terminated once _transition_to(TERMINATED) ran, and  *)
(* gone once cleanup_transaction deleted it from the table.               *)
(*                                                                         *)
(*  - our own branches are used once: a request of ours, and each         *)
(*    re-issue after a 401/407, gets a branch never used before;          *)
(*  - a peer branch may carry a new transaction only after the previous  *)
(*    one is gone (a request matching a stored transaction is absorbed);  *)
(*  - the UA hears of a final response at most once per branch of ours,  *)
(*    and only while the transaction is live;                             *)
(*  - a transaction is removed only once terminated, and a terminated     *)
(*    one is eventually removed.                                          *)
(***************************************************************************)
CONSTANTS LocalBranch, RemoteBranch

VARIABLES
    life,       \* life[b]: "unused", "live", "terminated" or "gone"
    delivered   \* our branches whose final response reached the UA

lvars == <<life, delivered>>

LBranch == LocalBranch \cup RemoteBranch

LInit ==
    /\ life = [b \in LBranch |-> "unused"]
    /\ delivered = {}

\* A transaction is created on b: create_client_transaction on a new
\* branch of ours, or create_server_transaction for a peer request that
\* matches no stored transaction.
Start(b) ==
    /\ \/ life[b] = "unused"
       \/ b \in RemoteBranch /\ life[b] = "gone"
    /\ life' = [life EXCEPT ![b] = "live"]
    /\ UNCHANGED delivered

CanDeliver(b, p) ==
    /\ b \in LocalBranch
    /\ life[b] = "live"
    /\ b \notin delivered
    /\ p \in {"live", "terminated"}
    /\ delivered' = delivered \cup {b}

\* on_final_response for a client transaction of ours; the transaction
\* moves on (ACCEPTED, COMPLETED) or ends (TERMINATED) in the same step.
Deliver(b, p) ==
    /\ CanDeliver(b, p)
    /\ life' = [life EXCEPT ![b] = p]

\* A delivered 401/407 re-issues the request on a fresh branch nb.
DeliverAndReissue(b, p, nb) ==
    /\ CanDeliver(b, p)
    /\ nb \in LocalBranch
    /\ life[nb] = "unused"
    /\ life' = [life EXCEPT ![b] = p, ![nb] = "live"]

\* _transition_to(TERMINATED), by a response or a timer.
Terminate(b) ==
    /\ life[b] = "live"
    /\ life' = [life EXCEPT ![b] = "terminated"]
    /\ UNCHANGED delivered

\* The _cleanup() task reaches cleanup_transaction.
Remove(b) ==
    /\ life[b] = "terminated"
    /\ life' = [life EXCEPT ![b] = "gone"]
    /\ UNCHANGED delivered

LNext ==
    \E b \in LBranch :
        \/ Start(b)
        \/ \E p \in {"live", "terminated"} :
              \/ Deliver(b, p)
              \/ \E nb \in LBranch : DeliverAndReissue(b, p, nb)
        \/ Terminate(b)
        \/ Remove(b)

LSafety == LInit /\ [][LNext]_lvars

\* The asyncio loop runs every created _cleanup() task.
LSpec == LSafety /\ \A b \in LBranch : WF_lvars(Remove(b))
=============================================================================
