----------------------- MODULE TransactionLayerProofs -----------------------
(***************************************************************************)
(* Machine-checked proofs about TransactionLayer, for every value of the  *)
(* constants that satisfies the module's assumptions.                     *)
(***************************************************************************)
EXTENDS TransactionLayer, TLAPS

USE BranchAssumption, RemoteMethodAssumption, MaxRetransmissionsAssumption

(***************************************************************************)
(* Every transaction record the code can build is a TxRec: the           *)
(* retransmission counter stays within 0..MaxRetransmissions because      *)
(* _handle_retransmission checks the cap before incrementing.            *)
(***************************************************************************)
LEMMA NewClientTxType ==
    ASSUME NEW m \in Methods \cup {"NONE"}
    PROVE  NewClientTx(m) \in TxRec
BY DEF NewClientTx, TxRec, Kinds, TxStates, Timers, Responses, Methods

LEMMA NewServerTxType ==
    ASSUME NEW m \in Methods
    PROVE  NewServerTx(m) \in TxRec
BY DEF NewServerTx, TxRec, Kinds, TxStates, Timers, Responses, Methods

\* Moving a transaction to another state with another set of armed timers
\* keeps it a TxRec.
LEMMA MoveType ==
    ASSUME NEW t \in TxRec, NEW st \in TxStates, NEW T \in SUBSET Timers
    PROVE  [t EXCEPT !.state = st, !.timers = T] \in TxRec
BY DEF TxRec

LEMMA ICTOnResponseType ==
    ASSUME NEW t \in TxRec, NEW s \in Statuses
    PROVE  ICTOnResponse(t, s) \in TxRec
<1>. DEFINE TS == t.timers
<1>1. TS \subseteq Timers
  BY DEF TxRec
<1>2. /\ TS \ {"A"} \in SUBSET Timers
      /\ (TS \ {"A", "B"}) \cup {"L"} \in SUBSET Timers
      /\ (TS \ {"A", "B"}) \cup {"D"} \in SUBSET Timers
      /\ TS \cup {"L"} \in SUBSET Timers
      /\ TS \cup {"D"} \in SUBSET Timers
  BY <1>1 DEF Timers
<1>3. /\ [t EXCEPT !.state = "PROCEEDING", !.timers = TS \ {"A"}] \in TxRec
      /\ [t EXCEPT !.state = "ACCEPTED", !.timers = (TS \ {"A", "B"}) \cup {"L"}] \in TxRec
      /\ [t EXCEPT !.state = "COMPLETED", !.timers = (TS \ {"A", "B"}) \cup {"D"}] \in TxRec
      /\ [t EXCEPT !.state = "ACCEPTED", !.timers = TS \cup {"L"}] \in TxRec
      /\ [t EXCEPT !.state = "COMPLETED", !.timers = TS \cup {"D"}] \in TxRec
  BY <1>2, MoveType DEF TxStates
<1>. QED  BY <1>3 DEF ICTOnResponse

LEMMA NICTOnResponseType ==
    ASSUME NEW t \in TxRec, NEW s \in Statuses
    PROVE  NICTOnResponse(t, s) \in TxRec
<1>. DEFINE TS == t.timers
<1>1. TS \subseteq Timers
  BY DEF TxRec
<1>2. /\ [t EXCEPT !.state = "PROCEEDING", !.timers = TS \ {"E"}] \in TxRec
      /\ [t EXCEPT !.state = "TERMINATED", !.timers = TS \ {"E", "F"}] \in TxRec
      /\ [t EXCEPT !.state = "TERMINATED", !.timers = TS] \in TxRec
  BY <1>1, MoveType DEF TxStates
<1>3. [t EXCEPT !.state = "TERMINATED"] = [t EXCEPT !.state = "TERMINATED", !.timers = TS]
  BY DEF TxRec
<1>. QED  BY <1>2, <1>3 DEF NICTOnResponse

LEMMA OnResponseType ==
    ASSUME NEW t \in TxRec, NEW s \in Statuses
    PROVE  OnResponse(t, s) \in TxRec
BY ICTOnResponseType, NICTOnResponseType DEF OnResponse

LEMMA ISTOnAckType ==
    ASSUME NEW t \in TxRec
    PROVE  ISTOnAck(t) \in TxRec
BY DEF ISTOnAck, TxRec, TxStates, Timers

\* Every step of Next keeps the variables in their types.
LEMMA TypeStep == TypeOK /\ [Next]_vars => TypeOK'
<1> SUFFICES ASSUME TypeOK, [Next]_vars PROVE TypeOK'
  OBVIOUS
<1>1. ASSUME NEW b \in LocalBranch, NEW m \in ClientMethods,
             SendRequest(b, m)
      PROVE  TypeOK'
  <2>1. NewClientTx(m) \in TxRec
    BY NewClientTxType DEF Methods, ClientMethods
  <2>. QED  BY <1>1, <2>1 DEF SendRequest, TypeOK, Branch
<1>2. ASSUME NEW b \in LocalBranch, NEW s \in Statuses \ {401},
             ReceiveResponse(b, s)
      PROVE  TypeOK'
  <2>1. OnResponse(tx[b], s) \in TxRec
    BY OnResponseType DEF TypeOK, Branch
  <2>. QED  BY <1>2, <2>1 DEF ReceiveResponse, TypeOK, Branch
<1>3. ASSUME NEW b \in LocalBranch, NEW r \in Realm, ReceiveChallenge(b, r)
      PROVE  TypeOK'
  <2>1. OnResponse(tx[b], 401) \in TxRec
    BY OnResponseType DEF TypeOK, Branch, Statuses
  <2>2. NewClientTx(tx[b].method) \in TxRec
    BY NewClientTxType DEF TypeOK, Branch, TxRec
  <2>. QED  BY <1>3, <2>1, <2>2 DEF ReceiveChallenge, TypeOK, Branch
<1>4. ASSUME NEW r \in Realm, AddCredentials(r)
      PROVE  TypeOK'
  BY <1>4 DEF AddCredentials, TypeOK
<1>5. ASSUME NEW b \in RemoteBranch, NEW m \in Methods, ReceiveRequest(b, m)
      PROVE  TypeOK'
  BY <1>5, NewServerTxType DEF ReceiveRequest, TypeOK, Branch
<1>6. ASSUME NEW b \in RemoteBranch, ReceiveAck(b)
      PROVE  TypeOK'
  BY <1>6, ISTOnAckType DEF ReceiveAck, TypeOK, Branch
<1>7. ASSUME NEW b \in RemoteBranch, AnswerInvite(b)
      PROVE  TypeOK'
  BY <1>7 DEF AnswerInvite, TypeOK, Branch, TxRec, TxStates, Timers,
              Responses
<1>8. ASSUME NEW b \in Branch, NEW tm \in Timers, FireTimer(b, tm)
      PROVE  TypeOK'
  <2>1. CASE TimerTerminates(b, tm)
    BY <1>8, <2>1 DEF FireTimer, TimerTerminates, Report, TypeOK, TxRec,
                      TxStates
  <2>2. CASE HandleRetransmission(b, tm)
    <3>1. tx[b] \in TxRec /\ cleanupTasks[b] \in Nat
      BY <1>8 DEF TypeOK
    <3>2. timeoutReported' \subseteq Branch
      BY <1>8 DEF FireTimer, Report, TypeOK
    <3>3. UNCHANGED <<table, answering, creds, dialogs, finals>>
      BY <1>8 DEF FireTimer
    <3>4. CASE tx[b].rtx >= MaxRetransmissions
      <4>1. [tx[b] EXCEPT !.state = "TERMINATED", !.timers = @ \ {tm}] \in TxRec
        BY <3>1 DEF TxRec, TxStates
      <4>2. tx' \in [Branch -> TxRec]
        BY <2>2, <3>4, <4>1 DEF HandleRetransmission, TypeOK
      <4>3. cleanupTasks' \in [Branch -> Nat]
        BY <2>2, <3>4 DEF HandleRetransmission, TypeOK
      <4>. QED  BY <3>2, <3>3, <4>2, <4>3 DEF TypeOK
    <3>5. CASE ~(tx[b].rtx >= MaxRetransmissions)
      <4>1. [tx[b] EXCEPT !.rtx = @ + 1] \in TxRec
        BY <3>1, <3>5, MaxRetransmissionsAssumption DEF TxRec
      <4>2. tx' \in [Branch -> TxRec]
        BY <2>2, <3>5, <4>1 DEF HandleRetransmission, TypeOK
      <4>3. cleanupTasks' \in [Branch -> Nat]
        BY <2>2, <3>5 DEF HandleRetransmission, TypeOK
      <4>. QED  BY <3>2, <3>3, <4>2, <4>3 DEF TypeOK
    <3>. QED  BY <3>4, <3>5
  <2>3. CASE TimerIgnored(b, tm)
    BY <1>8, <2>3 DEF FireTimer, TimerIgnored, Report, TypeOK, TxRec
  <2>. QED  BY <1>8, <2>1, <2>2, <2>3 DEF FireTimer
<1>9. ASSUME NEW b \in Branch, Cleanup(b)
      PROVE  TypeOK'
  <2>1. tx[b] \in TxRec /\ cleanupTasks[b] \in Nat \ {0}
    BY <1>9 DEF Cleanup, TypeOK, Branch
  <2>2. [tx[b] EXCEPT !.timers = {}] \in TxRec
    BY <2>1 DEF TxRec
  <2>3. tx' \in [Branch -> TxRec]
    BY <1>9, <2>2 DEF Cleanup, TypeOK
  <2>4. cleanupTasks' \in [Branch -> Nat]
    BY <1>9, <2>1 DEF Cleanup, TypeOK
  <2>. QED  BY <1>9, <2>3, <2>4 DEF Cleanup, TypeOK
<1>10. CASE UNCHANGED vars
  BY <1>10 DEF vars, TypeOK
<1>. QED
  BY <1>1, <1>2, <1>3, <1>4, <1>5, <1>6, <1>7, <1>8, <1>9, <1>10 DEF Next

(***************************************************************************)
(* Type correctness of the transaction layer: every record the code       *)
(* stores under a branch is a well-formed transaction and the             *)
(* retransmission counter of _handle_retransmission never passes its cap. *)
(***************************************************************************)
THEOREM TypeCorrect == Spec => []TypeOK
<1>1. Init => TypeOK
  BY DEF Init, TypeOK, NoTx, TxRec, Branch, TxStates, Responses
<1>. QED  BY <1>1, TypeStep, PTL DEF Spec
-----------------------------------------------------------------------------
(***************************************************************************)
(* The inductive invariant behind CleanupNeverStale.                      *)
(*                                                                         *)
(* An unused branch has no state, timers, cleanup task or table entry.    *)
(* A client transaction never leaves TERMINATED (process_message and      *)
(* _on_timer_fired keep it there), so once a cleanup task exists the      *)
(* state stays TERMINATED even when a still-armed Timer F or B fires and  *)
(* creates a second task.  A server transaction carries only the timers  *)
(* its state allows, so exactly one terminating step happens per stored   *)
(* transaction and a pending task exists exactly while the TERMINATED     *)
(* transaction is still in the table: a request on the same branch, which *)
(* can only start a new transaction once the entry is gone, never finds  *)
(* a stale task.                                                          *)
(***************************************************************************)
Unused(b) ==
    tx[b].kind = "NONE" =>
        /\ tx[b].state = "INITIAL"
        /\ tx[b].timers = {}
        /\ cleanupTasks[b] = 0
        /\ b \notin table

ClientInv(b) ==
    /\ tx[b].kind \in {"NONE", "ICT", "NICT"}
    /\ cleanupTasks[b] > 0 => tx[b].state = "TERMINATED"

ServerTimersAllowed(t) ==
    CASE t.state = "COMPLETED" /\ t.kind = "IST" -> {"G", "H"}
      [] t.state = "COMPLETED" /\ t.kind = "NIST" -> {"J"}
      [] t.state = "CONFIRMED" -> {"I"}
      [] t.state = "TERMINATED" -> {"H"}
      [] OTHER -> {}

ServerInv(b) ==
    /\ tx[b].kind \in {"NONE", "IST", "NIST"}
    /\ tx[b].kind = "IST" => tx[b].state \in {"COMPLETED", "CONFIRMED", "TERMINATED"}
    /\ tx[b].kind = "NIST" => tx[b].state \in {"COMPLETED", "TERMINATED"}
    /\ tx[b].timers \subseteq ServerTimersAllowed(tx[b])
    /\ b \notin table => tx[b].timers = {}
    /\ cleanupTasks[b] = IF b \in table /\ tx[b].state = "TERMINATED" THEN 1 ELSE 0

IInv ==
    /\ TypeOK
    /\ \A b \in Branch : Unused(b)
    /\ \A b \in LocalBranch : ClientInv(b)
    /\ \A b \in RemoteBranch : ServerInv(b)

\* process_message of a client transaction keeps its kind and ignores
\* every response once it is TERMINATED.
LEMMA OnResponseKeeps ==
    ASSUME NEW t \in TxRec, t.kind \in {"ICT", "NICT"}, NEW s \in Statuses
    PROVE  /\ OnResponse(t, s).kind = t.kind
           /\ t.state = "TERMINATED" => OnResponse(t, s) = t
BY DEF OnResponse, ICTOnResponse, NICTOnResponse, TxRec

LEMMA InitIInv == Init => IInv
BY DEF Init, IInv, TypeOK, NoTx, TxRec, Branch, TxStates, Responses, Unused,
       ClientInv, ServerInv, ServerTimersAllowed

LEMMA IInvStep == IInv /\ [Next]_vars => IInv'
<1> SUFFICES ASSUME IInv, [Next]_vars PROVE IInv'
  OBVIOUS
<1>0. TypeOK /\ TypeOK'
  BY TypeStep DEF IInv
<1> DEFINE Rest(c) == Unused(c) /\ (c \in LocalBranch => ClientInv(c))
                                /\ (c \in RemoteBranch => ServerInv(c))
<1>q. SUFFICES \A c \in Branch : Rest(c)'
  BY <1>0 DEF IInv, Branch
<1>h. \A c \in Branch : Rest(c)
  BY DEF IInv, Branch
<1>1. ASSUME NEW b \in LocalBranch, NEW m \in ClientMethods,
             SendRequest(b, m)
      PROVE  \A c \in Branch : Rest(c)'
  BY <1>0, <1>1, <1>h DEF SendRequest, Fresh, NewClientTx, TypeOK, Branch,
     Unused, ClientInv, ServerInv, ServerTimersAllowed
<1>2. ASSUME NEW b \in LocalBranch, NEW s \in Statuses \ {401},
             ReceiveResponse(b, s)
      PROVE  \A c \in Branch : Rest(c)'
  <2>1. tx[b] \in TxRec /\ tx[b].kind \in {"ICT", "NICT"}
    BY <1>0, <1>2 DEF ReceiveResponse, TypeOK, Branch
  <2>2. /\ OnResponse(tx[b], s).kind = tx[b].kind
        /\ tx[b].state = "TERMINATED" => OnResponse(tx[b], s) = tx[b]
    BY <2>1, OnResponseKeeps
  <2>. QED
    BY <1>0, <1>2, <1>h, <2>1, <2>2 DEF ReceiveResponse, EnteredTerminated,
       TypeOK, Branch, Unused, ClientInv, ServerInv, ServerTimersAllowed
<1>3. ASSUME NEW b \in LocalBranch, NEW r \in Realm, ReceiveChallenge(b, r)
      PROVE  \A c \in Branch : Rest(c)'
  <2>1. tx[b] \in TxRec /\ tx[b].kind \in {"ICT", "NICT"}
    BY <1>0, <1>3 DEF ReceiveChallenge, TypeOK, Branch
  <2>2. /\ OnResponse(tx[b], 401).kind = tx[b].kind
        /\ tx[b].state = "TERMINATED" => OnResponse(tx[b], 401) = tx[b]
    BY <2>1, OnResponseKeeps DEF Statuses
  <2>. QED
    BY <1>0, <1>3, <1>h, <2>1, <2>2 DEF ReceiveChallenge, EnteredTerminated,
       Fresh, NewClientTx, TypeOK, Branch, Unused, ClientInv, ServerInv,
       ServerTimersAllowed
<1>4. ASSUME NEW r \in Realm, AddCredentials(r)
      PROVE  \A c \in Branch : Rest(c)'
  BY <1>4, <1>h DEF AddCredentials, Unused, ClientInv, ServerInv,
     ServerTimersAllowed
<1>5. ASSUME NEW b \in RemoteBranch, NEW m \in Methods, ReceiveRequest(b, m)
      PROVE  \A c \in Branch : Rest(c)'
  <2> SUFFICES ASSUME NEW c \in Branch PROVE Rest(c)'
    OBVIOUS
  <2>1. CASE c = b
    <3>1. cleanupTasks[b] = 0
      BY <1>5, <1>h DEF ReceiveRequest, ServerInv, Branch
    <3>2. /\ tx'[b] = NewServerTx(m)
          /\ b \in table'
          /\ cleanupTasks'[b] = 0
          /\ b \notin LocalBranch
      BY <1>0, <1>5, <3>1 DEF ReceiveRequest, TypeOK, Branch
    <3>3. /\ NewServerTx(m).kind \in {"IST", "NIST"}
          /\ NewServerTx(m).state = "COMPLETED"
          /\ NewServerTx(m).timers \subseteq ServerTimersAllowed(NewServerTx(m))
      <4>1. CASE m = "INVITE"
        <5>1. NewServerTx(m) = [kind |-> "IST", state |-> "COMPLETED",
                                timers |-> {"H", "G"}, rtx |-> 0,
                                resp |-> 100, method |-> m]
          BY <4>1 DEF NewServerTx
        <5>2. ServerTimersAllowed(NewServerTx(m)) = {"G", "H"}
          BY <5>1 DEF ServerTimersAllowed
        <5>. QED  BY <5>1, <5>2
      <4>2. CASE m # "INVITE"
        <5>1. NewServerTx(m) = [kind |-> "NIST", state |-> "COMPLETED",
                                timers |-> {"J"}, rtx |-> 0,
                                resp |-> 200, method |-> m]
          BY <4>2 DEF NewServerTx
        <5>2. ServerTimersAllowed(NewServerTx(m)) = {"J"}
          BY <5>1 DEF ServerTimersAllowed
        <5>. QED  BY <5>1, <5>2
      <4>. QED  BY <4>1, <4>2
    <3>. QED  BY <2>1, <3>2, <3>3 DEF Unused, ServerInv
  <2>2. CASE c # b
    <3>1. /\ tx'[c] = tx[c]
          /\ cleanupTasks'[c] = cleanupTasks[c]
          /\ (c \in table') = (c \in table)
      BY <1>0, <1>5, <2>2 DEF ReceiveRequest, TypeOK
    <3>. QED  BY <1>h, <3>1 DEF Unused, ClientInv, ServerInv,
                ServerTimersAllowed
  <2>. QED  BY <2>1, <2>2
<1>6. ASSUME NEW b \in RemoteBranch, ReceiveAck(b)
      PROVE  \A c \in Branch : Rest(c)'
  <2> SUFFICES ASSUME NEW c \in Branch PROVE Rest(c)'
    OBVIOUS
  <2>1. CASE c = b
    <3>. DEFINE t == tx[b]
    <3>1. /\ t \in TxRec
          /\ t.kind = "IST"
          /\ t.state \in {"COMPLETED", "CONFIRMED", "TERMINATED"}
          /\ t.timers \subseteq ServerTimersAllowed(t)
          /\ b \in table
          /\ cleanupTasks[b] = IF t.state = "TERMINATED" THEN 1 ELSE 0
          /\ b \notin LocalBranch
      BY <1>0, <1>6, <1>h DEF ReceiveAck, ServerInv, TypeOK, Branch
    <3>2. /\ ISTOnAck(t).kind = "IST"
          /\ ISTOnAck(t).state \in {"COMPLETED", "CONFIRMED", "TERMINATED"}
          /\ ISTOnAck(t).timers \subseteq ServerTimersAllowed(ISTOnAck(t))
          /\ ISTOnAck(t).state = "TERMINATED" <=> t.state = "TERMINATED"
      <4>1. CASE t.state = "COMPLETED"
        <5>1. ISTOnAck(t) = [t EXCEPT !.state = "CONFIRMED",
                                      !.timers = (t.timers \ {"G", "H"}) \cup {"I"}]
          BY <4>1 DEF ISTOnAck
        <5>0. ServerTimersAllowed(t) = {"G", "H"}
          BY <3>1, <4>1 DEF ServerTimersAllowed
        <5>2. /\ ISTOnAck(t).kind = "IST"
              /\ ISTOnAck(t).state = "CONFIRMED"
              /\ ISTOnAck(t).timers \subseteq {"I"}
          BY <3>1, <5>0, <5>1 DEF TxRec
        <5>3. ServerTimersAllowed(ISTOnAck(t)) = {"I"}
          BY <5>2 DEF ServerTimersAllowed
        <5>. QED  BY <4>1, <5>2, <5>3
      <4>2. CASE t.state \in {"CONFIRMED", "TERMINATED"}
        <5>1. ISTOnAck(t) = t
          BY <4>2 DEF ISTOnAck
        <5>. QED  BY <3>1, <5>1, Zenon
      <4>. QED  BY <3>1, <4>1, <4>2
    <3>3. /\ tx'[b] = ISTOnAck(t)
          /\ b \in table'
          /\ cleanupTasks'[b] = cleanupTasks[b]
      BY <1>0, <1>6 DEF ReceiveAck, TypeOK, Branch
    <3>. QED  BY <2>1, <3>1, <3>2, <3>3 DEF Unused, ServerInv
  <2>2. CASE c # b
    <3>1. /\ tx'[c] = tx[c]
          /\ cleanupTasks'[c] = cleanupTasks[c]
          /\ table' = table
      BY <1>0, <1>6, <2>2 DEF ReceiveAck, TypeOK
    <3>. QED  BY <1>h, <3>1 DEF Unused, ClientInv, ServerInv,
                ServerTimersAllowed
  <2>. QED  BY <2>1, <2>2
<1>7. ASSUME NEW b \in RemoteBranch, AnswerInvite(b)
      PROVE  \A c \in Branch : Rest(c)'
  <2>1. tx' = tx
    BY <1>7, <1>h DEF AnswerInvite, ServerInv, Branch
  <2>. QED  BY <1>7, <2>1, <1>h DEF AnswerInvite, Unused, ClientInv,
              ServerInv, ServerTimersAllowed
<1>8. ASSUME NEW b \in Branch, NEW tm \in Timers, FireTimer(b, tm)
      PROVE  \A c \in Branch : Rest(c)'
  <2>1. CASE TimerTerminates(b, tm)
    BY <1>0, <1>8, <1>h, <2>1 DEF FireTimer, TimerTerminates, Report,
       TerminatingTimers, TypeOK, TxRec, Branch, Unused, ClientInv,
       ServerInv, ServerTimersAllowed
  <2>2. CASE HandleRetransmission(b, tm)
    BY <1>0, <1>8, <1>h, <2>2 DEF FireTimer, HandleRetransmission, Report,
       RetransmitTimers, TypeOK, TxRec, Branch, Unused, ClientInv,
       ServerInv, ServerTimersAllowed
  <2>3. CASE TimerIgnored(b, tm)
    BY <1>0, <1>8, <1>h, <2>3 DEF FireTimer, TimerIgnored, Report,
       TypeOK, TxRec, Branch, Unused, ClientInv, ServerInv,
       ServerTimersAllowed
  <2>. QED  BY <1>8, <2>1, <2>2, <2>3 DEF FireTimer
<1>9. ASSUME NEW b \in Branch, Cleanup(b)
      PROVE  \A c \in Branch : Rest(c)'
  BY <1>0, <1>9, <1>h DEF Cleanup, TypeOK, TxRec, Branch, Unused,
     ClientInv, ServerInv, ServerTimersAllowed
<1>10. CASE UNCHANGED vars
  BY <1>10, <1>h DEF vars, Unused, ClientInv, ServerInv, ServerTimersAllowed
<1>. QED
  BY <1>1, <1>2, <1>3, <1>4, <1>5, <1>6, <1>7, <1>8, <1>9, <1>10 DEF Next

(***************************************************************************)
(* A pending _cleanup() task of a branch always belongs to the            *)
(* transaction stored under it (CleanupNeverStale): cleanup_transaction,  *)
(* which deletes by branch, never removes a newer transaction that a      *)
(* retransmitted request started on the same branch.                      *)
(***************************************************************************)
THEOREM CleanupNotStale == Spec => []CleanupNeverStale
<1>1. IInv => CleanupNeverStale
  BY DEF IInv, CleanupNeverStale, ClientInv, ServerInv, TypeOK, Branch
<1>. QED  BY <1>1, InitIInv, IInvStep, PTL DEF Spec

=============================================================================
