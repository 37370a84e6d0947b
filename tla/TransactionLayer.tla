-------------------------- MODULE TransactionLayer --------------------------
(***************************************************************************)
(* The SIP transaction layer of tinysip (src/tinysip/fsm.py) as one user  *)
(* agent sees it: the TransactionManager's table keyed by Via branch, the  *)
(* four transaction kinds (INVITE/non-INVITE, client/server) with their    *)
(* asyncio timers, the cleanup task scheduled on every transition to       *)
(* TERMINATED, and the SIPUserAgent callbacks that act on transactions     *)
(* (automatic answers to inbound requests, Digest re-issue on 401/407).    *)
(*                                                                         *)
(* The peer is an arbitrary environment: it may send any response on any  *)
(* of our branches, any number of times and in any order (UDP loses,       *)
(* duplicates and reorders), and requests on its own branches.  Time is    *)
(* abstracted: an armed timer may fire at any later step.  Each action is  *)
(* one run of an asyncio task up to its next real suspension point, which  *)
(* is how the single-threaded event loop interleaves them.                 *)
(***************************************************************************)
EXTENDS Naturals, FiniteSets

CONSTANTS
    LocalBranch,        \* branches our UA generates (z9hG4bK + uuid)
    RemoteBranch,       \* branches of the requests the peer sends us
    RemoteMethod,       \* the method the peer uses on each of its branches
    Realm,              \* realms a 401/407 challenge may name
    MaxRetransmissions  \* SIPTransaction._max_retransmissions (7 in the code)

Branch == LocalBranch \cup RemoteBranch

ASSUME BranchAssumption == LocalBranch \cap RemoteBranch = {}
ASSUME RemoteMethodAssumption ==
    RemoteMethod \in [RemoteBranch -> {"INVITE", "ACK", "BYE"}]
ASSUME MaxRetransmissionsAssumption == MaxRetransmissions \in Nat

VARIABLES
    table,            \* DOMAIN of TransactionManager._transactions
    tx,               \* tx[b]: the transaction object stored under branch b
    cleanupTasks,     \* cleanupTasks[b]: _cleanup() tasks created, not yet run
    answering,        \* INVITE handlers of the UA asleep in asyncio.sleep(1)
    creds,            \* realms of SIPDigestAuthentication.credentials
    dialogs,          \* dialogs DialogManager created from inbound INVITEs
    finals,           \* finals[b]: on_final_response calls for branch b
    timeoutReported   \* branches whose Timer B or F fired (on_timeout)

vars == <<table, tx, cleanupTasks, answering, creds, dialogs, finals,
          timeoutReported>>

(***************************************************************************)
(* Data of the code, abstracted.  A status code is kept as a number from  *)
(* one representative per class the code tells apart: 1xx, 2xx, a 401     *)
(* challenge (407 is handled identically) and any other >= 300; 100 is    *)
(* the UA's own 100 Trying.  A message is its branch, method or status.   *)
(***************************************************************************)
Kinds     == {"ICT", "NICT", "IST", "NIST"}
TxStates  == {"INITIAL", "TRYING", "PROCEEDING", "COMPLETED", "ACCEPTED",
              "CONFIRMED", "TERMINATED"}
Timers    == {"A", "B", "D", "E", "F", "G", "H", "I", "J", "K", "L"}
Statuses  == {180, 200, 401, 486}
Responses == {0, 100, 200}          \* what a server transaction stores
Methods   == {"INVITE", "OTHER", "ACK", "BYE"}
\* The requests the UA starts client transactions for: INVITE (send_invite)
\* and any other method (send_options, send_register, send_bye).
ClientMethods == {"INVITE", "OTHER"}

IsProvisional(s) == s \in 100..199
IsSuccess(s)     == s \in 200..299
IsFinal(s)       == s >= 200

TxRec == [kind : Kinds \cup {"NONE"}, state : TxStates, timers : SUBSET Timers,
          rtx : 0..MaxRetransmissions, resp : Responses,
          method : Methods \cup {"NONE"}]

\* An unused branch: no transaction object was ever created for it.
NoTx == [kind |-> "NONE", state |-> "INITIAL", timers |-> {}, rtx |-> 0,
         resp |-> 0, method |-> "NONE"]

Fresh(b) == tx[b].kind = "NONE"

(***************************************************************************)
(* Timer classification of SIPTransaction._on_timer_fired.                *)
(***************************************************************************)
\* Mutant: Timer H handled as the spec says (absorb, Terminated).
TerminatingTimersWithH == {"B", "F", "D", "I", "J", "K", "H"}
TerminatingTimers == {"B", "F", "D", "I", "J", "K"}
RetransmitTimers  == {"A", "E", "G"}

(***************************************************************************)
(* A client transaction object after InviteClientTransaction.start or     *)
(* NonInviteClientTransaction.start: TRYING, request sent, two timers.    *)
(***************************************************************************)
NewClientTx(m) ==
    [kind |-> IF m = "INVITE" THEN "ICT" ELSE "NICT", state |-> "TRYING",
     timers |-> IF m = "INVITE" THEN {"A", "B"} ELSE {"E", "F"}, rtx |-> 0,
     resp |-> 0, method |-> m]

\* Mutant: a provisional response in TRYING does not cancel Timer A.
ICTOnResponseKeepA(t, s) ==
    CASE t.state = "TRYING" /\ IsProvisional(s) -> [t EXCEPT !.state = "PROCEEDING"]
      [] t.state = "TRYING" /\ IsSuccess(s) ->
             [t EXCEPT !.state = "ACCEPTED", !.timers = (@ \ {"A", "B"}) \cup {"L"}]
      [] t.state = "TRYING" /\ s >= 300 ->
             [t EXCEPT !.state = "COMPLETED", !.timers = (@ \ {"A", "B"}) \cup {"D"}]
      [] t.state = "PROCEEDING" /\ IsSuccess(s) ->
             [t EXCEPT !.state = "ACCEPTED", !.timers = @ \cup {"L"}]
      [] t.state = "PROCEEDING" /\ s >= 300 ->
             [t EXCEPT !.state = "COMPLETED", !.timers = @ \cup {"D"}]
      [] OTHER -> t

(***************************************************************************)
(* InviteClientTransaction.process_message on a response with status s.   *)
(***************************************************************************)
ICTOnResponse(t, s) ==
    CASE t.state = "TRYING" /\ IsProvisional(s) ->
             [t EXCEPT !.state = "PROCEEDING", !.timers = @ \ {"A"}]
      [] t.state = "TRYING" /\ IsSuccess(s) ->
             [t EXCEPT !.state = "ACCEPTED", !.timers = (@ \ {"A", "B"}) \cup {"L"}]
      [] t.state = "TRYING" /\ s >= 300 ->
             [t EXCEPT !.state = "COMPLETED", !.timers = (@ \ {"A", "B"}) \cup {"D"}]
      [] t.state = "PROCEEDING" /\ IsSuccess(s) ->
             [t EXCEPT !.state = "ACCEPTED", !.timers = @ \cup {"L"}]
      [] t.state = "PROCEEDING" /\ s >= 300 ->
             [t EXCEPT !.state = "COMPLETED", !.timers = @ \cup {"D"}]
      [] OTHER -> t

\* Mutant: a final response in PROCEEDING is reported but not acted on.
NICTOnResponseStuck(t, s) ==
    CASE t.state = "TRYING" /\ IsProvisional(s) ->
             [t EXCEPT !.state = "PROCEEDING", !.timers = @ \ {"E"}]
      [] t.state = "TRYING" /\ IsFinal(s) ->
             [t EXCEPT !.state = "TERMINATED", !.timers = @ \ {"E", "F"}]
      [] OTHER -> t

(***************************************************************************)
(* NonInviteClientTransaction.process_message: a final response goes      *)
(* straight to TERMINATED (no COMPLETED state, no Timer K).                *)
(***************************************************************************)
NICTOnResponse(t, s) ==
    CASE t.state = "TRYING" /\ IsProvisional(s) ->
             [t EXCEPT !.state = "PROCEEDING", !.timers = @ \ {"E"}]
      [] t.state = "TRYING" /\ IsFinal(s) ->
             [t EXCEPT !.state = "TERMINATED", !.timers = @ \ {"E", "F"}]
      [] t.state = "PROCEEDING" /\ IsFinal(s) ->
             [t EXCEPT !.state = "TERMINATED"]
      [] OTHER -> t

\* Both client kinds call on_final_response exactly when a final response
\* arrives in TRYING or PROCEEDING.
DeliversFinal(t, s) == t.state \in {"TRYING", "PROCEEDING"} /\ IsFinal(s)

OnResponse(t, s) ==
    IF t.kind = "ICT" THEN ICTOnResponse(t, s) ELSE NICTOnResponse(t, s)

\* _transition_to(TERMINATED) creates one _cleanup() task.
EnteredTerminated(t, u) == t.state # "TERMINATED" /\ u.state = "TERMINATED"

-----------------------------------------------------------------------------
(***************************************************************************)
(* SIPUserAgent.send_options / send_register / send_invite: a request on  *)
(* a fresh branch, handed to TransactionManager.create_client_transaction *)
(* which stores the transaction and runs its start().                     *)
(***************************************************************************)
SendRequest(b, m) ==
    /\ Fresh(b)
    /\ table' = table \cup {b}
    /\ tx' = [tx EXCEPT ![b] = NewClientTx(m)]
    /\ UNCHANGED <<cleanupTasks, answering, creds, dialogs, finals,
                   timeoutReported>>

(***************************************************************************)
(* TransactionManager.process_response for a non-challenge status s on a  *)
(* branch of one of our client transactions, with the on_final_response  *)
(* callback (its dialog lookup by tx_id never finds a dialog: dialog ids  *)
(* are Call-ID-tag, never a branch).  Unmatched responses are dropped.    *)
(***************************************************************************)
ReceiveResponse(b, s) ==
    /\ b \in table
    /\ tx[b].kind \in {"ICT", "NICT"}
    /\ LET t == tx[b]
           u == OnResponse(t, s)
       IN /\ tx' = [tx EXCEPT ![b] = u]
          /\ cleanupTasks' = [cleanupTasks EXCEPT ![b] =
                                @ + (IF EnteredTerminated(t, u) THEN 1 ELSE 0)]
          /\ finals' = [finals EXCEPT ![b] =
                                @ + (IF DeliversFinal(t, s) THEN 1 ELSE 0)]
    /\ UNCHANGED <<table, answering, creds, dialogs, timeoutReported>>

\* Mutant: the authenticated copy keeps the Via branch of the challenged
\* request and replaces its transaction.
ReceiveChallengeSameBranch(b, r) ==
    /\ b \in table
    /\ tx[b].kind \in {"ICT", "NICT"}
    /\ LET t == tx[b]
           u == OnResponse(t, 401)
           reissue == DeliversFinal(t, 401) /\ r \in creds
       IN /\ cleanupTasks' = [cleanupTasks EXCEPT ![b] =
                                @ + (IF EnteredTerminated(t, u) THEN 1 ELSE 0)]
          /\ finals' = [finals EXCEPT ![b] =
                                @ + (IF DeliversFinal(t, 401) THEN 1 ELSE 0)]
          /\ tx' = [tx EXCEPT ![b] = IF reissue THEN NewClientTx(t.method) ELSE u]
          /\ table' = table
    /\ UNCHANGED <<answering, creds, dialogs, timeoutReported>>

(***************************************************************************)
(* A 401/407 challenge naming realm r: process_message, then              *)
(* on_final_response -> _handle_authentication_challenge.  The            *)
(* transaction is still in the table (its cleanup has not run), so when   *)
(* credentials for r exist the authenticated copy is started as a new     *)
(* client transaction on a fresh branch nb; otherwise it is logged only.  *)
(* BranchBound: the model has finitely many branches, so a re-issue       *)
(* happens only while a fresh one is left.                                *)
(***************************************************************************)
ReceiveChallenge(b, r) ==
    /\ b \in table
    /\ tx[b].kind \in {"ICT", "NICT"}
    /\ LET t == tx[b]
           u == OnResponse(t, 401)
           reissue == DeliversFinal(t, 401) /\ r \in creds
       IN /\ cleanupTasks' = [cleanupTasks EXCEPT ![b] =
                                @ + (IF EnteredTerminated(t, u) THEN 1 ELSE 0)]
          /\ finals' = [finals EXCEPT ![b] =
                                @ + (IF DeliversFinal(t, 401) THEN 1 ELSE 0)]
          /\ IF reissue
               THEN \E nb \in LocalBranch :
                      /\ Fresh(nb)
                      /\ table' = table \cup {nb}
                      /\ tx' = [tx EXCEPT ![b] = u,
                                          ![nb] = NewClientTx(t.method)]
               ELSE /\ tx' = [tx EXCEPT ![b] = u]
                    /\ table' = table
    /\ UNCHANGED <<answering, creds, dialogs, timeoutReported>>

(***************************************************************************)
(* SIPUserAgent.add_credentials.                                          *)
(***************************************************************************)
AddCredentials(r) ==
    /\ r \notin creds
    /\ creds' = creds \cup {r}
    /\ UNCHANGED <<table, tx, cleanupTasks, answering, dialogs, finals,
                   timeoutReported>>
-----------------------------------------------------------------------------
(***************************************************************************)
(* Server side.  A new server transaction is created by                   *)
(* TransactionManager.create_server_transaction and its start() runs the  *)
(* UA's on_request_received before returning.                             *)
(*                                                                         *)
(* INVITE: InviteServerTransaction.start sets PROCEEDING; the UA creates  *)
(* the dialog and calls tx_manager.send_response(100, "Trying"), which is *)
(* send_final_response: 100 is not 2xx, so the transaction goes to        *)
(* COMPLETED with Timers H and G and stores the 100.  The handler then    *)
(* sleeps before sending 200 OK (AnswerInvite).                           *)
(*                                                                         *)
(* Any other method, ACK included: NonInviteServerTransaction.start sets  *)
(* TRYING and the UA answers 200 OK through send_final_response:          *)
(* COMPLETED, response stored, Timer J.                                   *)
(***************************************************************************)
NewServerTx(m) ==
    IF m = "INVITE"
      THEN [kind |-> "IST", state |-> "COMPLETED", timers |-> {"H", "G"},
            rtx |-> 0, resp |-> 100, method |-> m]
      ELSE [kind |-> "NIST", state |-> "COMPLETED", timers |-> {"J"},
            rtx |-> 0, resp |-> 200, method |-> m]

\* A request the peer may send on branch b: its own method, or an ACK on
\* the branch of its INVITE (ACK for a non-2xx final response).
CanSend(b, m) ==
    \/ m = RemoteMethod[b]
    \/ m = "ACK" /\ RemoteMethod[b] = "INVITE"

\* Mutant: the lookup of create_server_transaction is skipped, so a
\* retransmission replaces the stored transaction.
ReceiveRequestUnmatched(b, m) ==
    /\ CanSend(b, m)
    /\ table' = table \cup {b}
    /\ tx' = [tx EXCEPT ![b] = NewServerTx(m)]
    /\ answering' = IF m = "INVITE" THEN answering \cup {b} ELSE answering
    /\ dialogs' = IF m = "INVITE" THEN dialogs \cup {b} ELSE dialogs
    /\ UNCHANGED <<cleanupTasks, creds, finals, timeoutReported>>

(***************************************************************************)
(* TransactionManager.process_request for a request that does not match   *)
(* an existing transaction: an ACK whose branch is unknown falls through  *)
(* to create_server_transaction like any other request.  (A request that  *)
(* matches is a retransmission and only resends the stored response.)     *)
(***************************************************************************)
ReceiveRequest(b, m) ==
    /\ CanSend(b, m)
    /\ b \notin table
    /\ table' = table \cup {b}
    /\ tx' = [tx EXCEPT ![b] = NewServerTx(m)]
    /\ answering' = IF m = "INVITE" THEN answering \cup {b} ELSE answering
    /\ dialogs' = IF m = "INVITE" THEN dialogs \cup {b} ELSE dialogs
    /\ UNCHANGED <<cleanupTasks, creds, finals, timeoutReported>>

(***************************************************************************)
(* InviteServerTransaction.process_message for an ACK matched by branch.  *)
(***************************************************************************)
ISTOnAck(t) ==
    CASE t.state = "ACCEPTED" ->
             [t EXCEPT !.state = "CONFIRMED", !.timers = (@ \ {"L"}) \cup {"I"}]
      [] t.state = "COMPLETED" ->
             [t EXCEPT !.state = "CONFIRMED",
                       !.timers = (@ \ {"G", "H"}) \cup {"I"}]
      [] OTHER -> t

ReceiveAck(b) ==
    /\ CanSend(b, "ACK")
    /\ b \in table
    /\ tx[b].kind = "IST"
    /\ tx' = [tx EXCEPT ![b] = ISTOnAck(tx[b])]
    /\ UNCHANGED <<table, cleanupTasks, answering, creds, dialogs, finals,
                   timeoutReported>>

(***************************************************************************)
(* The INVITE handler wakes from asyncio.sleep(1) and calls               *)
(* tx_manager.send_response(200, "OK"): send_final_response acts only if  *)
(* the transaction is still in the table and in PROCEEDING.               *)
(***************************************************************************)
AnswerInvite(b) ==
    /\ b \in answering
    /\ answering' = answering \ {b}
    /\ IF b \in table /\ tx[b].kind = "IST" /\ tx[b].state = "PROCEEDING"
         THEN tx' = [tx EXCEPT ![b].state = "ACCEPTED",
                               ![b].timers = @ \cup {"L"},
                               ![b].resp = 200]
         ELSE tx' = tx
    /\ UNCHANGED <<table, cleanupTasks, creds, dialogs, finals,
                   timeoutReported>>

-----------------------------------------------------------------------------
(***************************************************************************)
(* An armed timer fires: SIPTransaction._on_timer_fired.  It first calls  *)
(* on_timeout (the UA ignores it; B and F are the transaction timeouts    *)
(* the spec says are surfaced), then acts by timer kind.  It runs in the  *)
(* state the transaction is in, TERMINATED included: only _cleanup()     *)
(* cancels the timers that are still armed.                              *)
(***************************************************************************)
Report(b, tm) ==
    timeoutReported' = IF tm \in {"B", "F"} THEN timeoutReported \cup {b}
                                            ELSE timeoutReported

\* Timers B, F (timeout) and D, I, J, K (cleanup): _transition_to(TERMINATED).
TimerTerminates(b, tm) ==
    /\ tm \in TerminatingTimers
    /\ tx' = [tx EXCEPT ![b].state = "TERMINATED", ![b].timers = @ \ {tm}]
    /\ cleanupTasks' = [cleanupTasks EXCEPT ![b] = @ + 1]

\* Mutant: the retransmission cap is not checked.
HandleRetransmissionNoCap(b, tm) ==
    /\ tm \in RetransmitTimers
    /\ tx' = [tx EXCEPT ![b].rtx = @ + 1]
    /\ UNCHANGED cleanupTasks

\* Mutant: at the cap the state is set without scheduling the cleanup task.
HandleRetransmissionNoCleanup(b, tm) ==
    /\ tm \in RetransmitTimers
    /\ IF tx[b].rtx >= MaxRetransmissions
         THEN tx' = [tx EXCEPT ![b].state = "TERMINATED", ![b].timers = @ \ {tm}]
         ELSE tx' = [tx EXCEPT ![b].rtx = @ + 1]
    /\ UNCHANGED cleanupTasks

(***************************************************************************)
(* Timers A, E, G: _handle_retransmission.  At the cap the transaction is *)
(* terminated; otherwise the counter (shared by all of the transaction's  *)
(* timers) is incremented, the request (client) or stored response        *)
(* (server) is resent and the timer is restarted.                         *)
(***************************************************************************)
HandleRetransmission(b, tm) ==
    /\ tm \in RetransmitTimers
    /\ IF tx[b].rtx >= MaxRetransmissions
         THEN /\ tx' = [tx EXCEPT ![b].state = "TERMINATED",
                                  ![b].timers = @ \ {tm}]
              /\ cleanupTasks' = [cleanupTasks EXCEPT ![b] = @ + 1]
         ELSE /\ tx' = [tx EXCEPT ![b].rtx = @ + 1]
              /\ UNCHANGED cleanupTasks

\* Timers H and L (and M, never started) have no branch in _on_timer_fired.
TimerIgnored(b, tm) ==
    /\ tm \notin TerminatingTimers \cup RetransmitTimers
    /\ tx' = [tx EXCEPT ![b].timers = @ \ {tm}]
    /\ UNCHANGED cleanupTasks

FireTimer(b, tm) ==
    /\ tm \in tx[b].timers
    /\ \/ TimerTerminates(b, tm)
       \/ HandleRetransmission(b, tm)
       \/ TimerIgnored(b, tm)
    /\ Report(b, tm)
    /\ UNCHANGED <<table, answering, creds, dialogs, finals>>

\* Mutant: on_terminated does not reach cleanup_transaction.
CleanupKeepsEntry(b) ==
    /\ cleanupTasks[b] > 0
    /\ cleanupTasks' = [cleanupTasks EXCEPT ![b] = @ - 1]
    /\ tx' = [tx EXCEPT ![b].timers = {}]
    /\ UNCHANGED <<table, answering, creds, dialogs, finals, timeoutReported>>

(***************************************************************************)
(* A _cleanup() task runs: it cancels every timer of the transaction and  *)
(* calls on_terminated, whose cleanup_transaction deletes the branch from *)
(* the table if it is there.                                              *)
(***************************************************************************)
Cleanup(b) ==
    /\ cleanupTasks[b] > 0
    /\ cleanupTasks' = [cleanupTasks EXCEPT ![b] = @ - 1]
    /\ tx' = [tx EXCEPT ![b].timers = {}]
    /\ table' = table \ {b}
    /\ UNCHANGED <<answering, creds, dialogs, finals, timeoutReported>>

-----------------------------------------------------------------------------
Init ==
    /\ table = {}
    /\ tx = [b \in Branch |-> NoTx]
    /\ cleanupTasks = [b \in Branch |-> 0]
    /\ answering = {}
    /\ creds = {}
    /\ dialogs = {}
    /\ finals = [b \in Branch |-> 0]
    /\ timeoutReported = {}

Next ==
    \/ \E b \in LocalBranch, m \in ClientMethods : SendRequest(b, m)
    \/ \E b \in LocalBranch, s \in Statuses \ {401} : ReceiveResponse(b, s)
    \/ \E b \in LocalBranch, r \in Realm : ReceiveChallenge(b, r)
    \/ \E r \in Realm : AddCredentials(r)
    \/ \E b \in RemoteBranch, m \in Methods : ReceiveRequest(b, m)
    \/ \E b \in RemoteBranch : ReceiveAck(b)
    \/ \E b \in RemoteBranch : AnswerInvite(b)
    \/ \E b \in Branch, tm \in Timers : FireTimer(b, tm)
    \/ \E b \in Branch : Cleanup(b)

(***************************************************************************)
(* Fairness.  The asyncio loop runs every ready task: an armed timer      *)
(* fires, a created cleanup task runs and a sleeping handler wakes.       *)
(* Nothing is assumed of the peer or of the application's calls.          *)
(***************************************************************************)
Fairness ==
    /\ \A b \in Branch, tm \in Timers : WF_vars(FireTimer(b, tm))
    /\ \A b \in Branch : WF_vars(Cleanup(b))
    /\ \A b \in RemoteBranch : WF_vars(AnswerInvite(b))

Spec == Init /\ [][Next]_vars /\ Fairness

-----------------------------------------------------------------------------
TypeOK ==
    /\ table \subseteq Branch
    /\ tx \in [Branch -> TxRec]
    /\ cleanupTasks \in [Branch -> Nat]
    /\ answering \subseteq RemoteBranch
    /\ creds \subseteq Realm
    /\ dialogs \subseteq RemoteBranch
    /\ finals \in [Branch -> Nat]
    /\ timeoutReported \subseteq Branch
(***************************************************************************)
(* Safety.  A pending _cleanup() task of branch b always belongs to the   *)
(* transaction now stored under b: cleanup_transaction deletes by branch, *)
(* so a cleanup task left over from an earlier transaction of the same    *)
(* branch (terminated twice, then recreated by a retransmitted request)   *)
(* would delete the new transaction from the table.                       *)
(***************************************************************************)
CleanupNeverStale ==
    \A b \in Branch : cleanupTasks[b] > 0 => tx[b].state = "TERMINATED"

(***************************************************************************)
(* Safety.  The UA hears of at most one final response per client         *)
(* transaction (on_final_response), however the peer duplicates or        *)
(* reorders its responses: a second call would re-issue a challenged      *)
(* request twice or report a call outcome twice.                          *)
(***************************************************************************)
AtMostOneFinal == \A b \in Branch : finals[b] <= 1

(***************************************************************************)
(* Action property.  Once a client transaction has had a response         *)
(* (PROCEEDING, ACCEPTED or COMPLETED) it never retransmits its request:  *)
(* process_message must cancel Timer A/E before a retransmission fires.   *)
(***************************************************************************)
NoRetransmitAfterResponse ==
    [][\A b \in LocalBranch :
         tx[b].state \in {"PROCEEDING", "ACCEPTED", "COMPLETED"}
            => tx'[b].rtx = tx[b].rtx]_vars

(***************************************************************************)
(* Liveness.  A transaction in TERMINATED is eventually removed from the  *)
(* TransactionManager table (its cleanup task runs and deletes it).       *)
(***************************************************************************)
TerminatedEventuallyRemoved ==
    \A b \in Branch :
        [](b \in table /\ tx[b].state = "TERMINATED" => <>(b \notin table))

-----------------------------------------------------------------------------
(***************************************************************************)
(* Refinement.  A branch's phase in TransactionLifecycle is read off the   *)
(* manager's table and the stored transaction: no transaction object yet, *)
(* stored and running, stored and TERMINATED, or deleted by               *)
(* cleanup_transaction.  Delivered branches are those whose final         *)
(* response reached on_final_response.                                    *)
(***************************************************************************)
LifeOf(b) ==
    IF tx[b].kind = "NONE" THEN "unused"
    ELSE IF b \notin table THEN "gone"
    ELSE IF tx[b].state = "TERMINATED" THEN "terminated"
    ELSE "live"

Lifecycle == INSTANCE TransactionLifecycle
                 WITH life <- [b \in Branch |-> LifeOf(b)],
                      delivered <- {b \in LocalBranch : finals[b] > 0}

(***************************************************************************)
(* The transaction layer implements TransactionLifecycle: branches of     *)
(* ours are never reused (re-issues included), a peer branch starts a new *)
(* transaction only after cleanup_transaction removed the old one, the UA *)
(* hears of a final response once and only from a live transaction, a     *)
(* transaction leaves the table only once TERMINATED, and a TERMINATED    *)
(* one is eventually removed.                                             *)
(***************************************************************************)
LifecycleRefined == Lifecycle!LSpec

(***************************************************************************)
(* Liveness, as the spec states it (4.4: Timer L expiry -> Terminated;    *)
(* "destroyed after cleanup timer"): every transaction eventually leaves  *)
(* the table, whatever the peer does or fails to do.                      *)
(***************************************************************************)
EveryTransactionEnds ==
    \A b \in Branch : [](b \in table => <>(b \notin table))

(***************************************************************************)
(* Safety, as the spec states it (4.4: 2xx and 3xx-6xx stop Timers A and  *)
(* B; Timer B expiry surfaces a timeout): a client transaction that has   *)
(* delivered a final response never also reports a Timer B/F timeout.     *)
(***************************************************************************)
NoTimeoutAfterFinal ==
    \A b \in LocalBranch : ~(finals[b] > 0 /\ b \in timeoutReported)

(***************************************************************************)
(* Safety, as the spec states it (4.4 INVITE server: only sending a       *)
(* 3xx-6xx response moves it to Completed): an INVITE server transaction  *)
(* in COMPLETED holds a final response.                                   *)
(***************************************************************************)
InviteServerCompletedIsFinal ==
    \A b \in RemoteBranch :
        tx[b].kind = "IST" /\ tx[b].state = "COMPLETED" => tx[b].resp >= 200

(***************************************************************************)
(* Safety, as the spec states it (4.4 Matching: an ACK is routed to an    *)
(* INVITE server transaction, never as a new transaction): no             *)
(* transaction in the table was created by an ACK.                        *)
(***************************************************************************)
AckNeverStartsTransaction ==
    \A b \in table : tx[b].method # "ACK"
=============================================================================
