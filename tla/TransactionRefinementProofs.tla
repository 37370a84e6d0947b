-------------------- MODULE TransactionRefinementProofs ---------------------
(***************************************************************************)
(* Proof that the transaction layer implements the safety part of         *)
(* TransactionLifecycle under the refinement mapping of TransactionLayer  *)
(* (LifeOf, and the branches whose on_final_response ran), for every      *)
(* value of the constants.                                                *)
(***************************************************************************)
EXTENDS TransactionLayerProofs

USE BranchAssumption, RemoteMethodAssumption, MaxRetransmissionsAssumption

\* The images of the abstract variables under the mapping.
LifeBar == [b \in Branch |-> LifeOf(b)]
DeliveredBar == {b \in LocalBranch : finals[b] > 0}

(***************************************************************************)
(* Only a client transaction of ours that has left TRYING and PROCEEDING  *)
(* has delivered a final response: DeliversFinal fires in those two       *)
(* states only, process_message never returns to them, and a branch gets  *)
(* a transaction object only while nothing has been delivered on it.     *)
(***************************************************************************)
FinalsInv(b) ==
    /\ tx[b].kind = "NONE" => finals[b] = 0
    /\ finals[b] > 0 => /\ b \in LocalBranch
                        /\ tx[b].state \notin {"TRYING", "PROCEEDING"}

FInv == \A b \in Branch : FinalsInv(b)

\* What a response does to a client transaction, as the mapping sees it.
LEMMA OnResponseLife ==
    ASSUME NEW t \in TxRec, t.kind \in {"ICT", "NICT"}, NEW s \in Statuses
    PROVE  /\ OnResponse(t, s).kind = t.kind
           /\ t.state \notin {"TRYING", "PROCEEDING"} => OnResponse(t, s) = t
           /\ DeliversFinal(t, s) =>
                 OnResponse(t, s).state \in {"ACCEPTED", "COMPLETED", "TERMINATED"}
           /\ ~DeliversFinal(t, s) =>
                 (OnResponse(t, s).state = "TERMINATED" <=> t.state = "TERMINATED")
<1>1. CASE t.kind = "ICT"
  BY <1>1 DEF OnResponse, ICTOnResponse, DeliversFinal, IsFinal,
     IsProvisional, IsSuccess, TxRec, Statuses
<1>2. CASE t.kind = "NICT"
  BY <1>2 DEF OnResponse, NICTOnResponse, DeliversFinal, IsFinal,
     IsProvisional, TxRec, Statuses
<1>. QED  BY <1>1, <1>2

LEMMA InitFInv == Init => FInv
BY DEF Init, FInv, FinalsInv, NoTx, Branch

LEMMA FInvStep == IInv /\ FInv /\ [Next]_vars => FInv'
<1> SUFFICES ASSUME IInv, FInv, [Next]_vars PROVE FInv'
  OBVIOUS
<1>0. TypeOK /\ TypeOK'
  BY TypeStep DEF IInv
<1>h. \A c \in Branch : FinalsInv(c) /\ Unused(c)
  BY DEF FInv, IInv
<1>1. ASSUME NEW b \in LocalBranch, NEW m \in ClientMethods,
             SendRequest(b, m)
      PROVE  FInv'
  BY <1>0, <1>1, <1>h DEF SendRequest, Fresh, NewClientTx, TypeOK, Branch,
     FInv, FinalsInv
<1>2. ASSUME NEW b \in LocalBranch, NEW s \in Statuses \ {401},
             ReceiveResponse(b, s)
      PROVE  FInv'
  <2>1. tx[b] \in TxRec /\ tx[b].kind \in {"ICT", "NICT"}
    BY <1>0, <1>2 DEF ReceiveResponse, TypeOK, Branch
  <2>2. /\ OnResponse(tx[b], s).kind = tx[b].kind
        /\ tx[b].state \notin {"TRYING", "PROCEEDING"} => OnResponse(tx[b], s) = tx[b]
        /\ DeliversFinal(tx[b], s) =>
              OnResponse(tx[b], s).state \in {"ACCEPTED", "COMPLETED", "TERMINATED"}
    BY <2>1, OnResponseLife
  <2>. QED
    BY <1>0, <1>2, <1>h, <2>1, <2>2 DEF ReceiveResponse, TypeOK, Branch,
       FInv, FinalsInv
<1>3. ASSUME NEW b \in LocalBranch, NEW r \in Realm, ReceiveChallenge(b, r)
      PROVE  FInv'
  <2>1. tx[b] \in TxRec /\ tx[b].kind \in {"ICT", "NICT"}
    BY <1>0, <1>3 DEF ReceiveChallenge, TypeOK, Branch
  <2>2. /\ OnResponse(tx[b], 401).kind = tx[b].kind
        /\ tx[b].state \notin {"TRYING", "PROCEEDING"} => OnResponse(tx[b], 401) = tx[b]
        /\ DeliversFinal(tx[b], 401) =>
              OnResponse(tx[b], 401).state \in {"ACCEPTED", "COMPLETED", "TERMINATED"}
    BY <2>1, OnResponseLife DEF Statuses
  <2>. QED
    BY <1>0, <1>3, <1>h, <2>1, <2>2 DEF ReceiveChallenge, Fresh, NewClientTx,
       TypeOK, Branch, FInv, FinalsInv
<1>4. ASSUME NEW r \in Realm, AddCredentials(r)
      PROVE  FInv'
  BY <1>4, <1>h DEF AddCredentials, FInv, FinalsInv
<1>5. ASSUME NEW b \in RemoteBranch, NEW m \in Methods, ReceiveRequest(b, m)
      PROVE  FInv'
  BY <1>0, <1>5, <1>h DEF ReceiveRequest, TypeOK, Branch, FInv, FinalsInv
<1>6. ASSUME NEW b \in RemoteBranch, ReceiveAck(b)
      PROVE  FInv'
  BY <1>0, <1>6, <1>h DEF ReceiveAck, TypeOK, Branch, FInv, FinalsInv
<1>7. ASSUME NEW b \in RemoteBranch, AnswerInvite(b)
      PROVE  FInv'
  BY <1>0, <1>7, <1>h DEF AnswerInvite, TypeOK, Branch, FInv, FinalsInv
<1>8. ASSUME NEW b \in Branch, NEW tm \in Timers, FireTimer(b, tm)
      PROVE  FInv'
  <2>1. /\ tx'[b].kind = tx[b].kind
        /\ tx'[b].state \in {tx[b].state, "TERMINATED"}
        /\ \A c \in Branch \ {b} : tx'[c] = tx[c]
        /\ finals' = finals
    <3>1. CASE TimerTerminates(b, tm)
      BY <1>0, <1>8, <3>1 DEF FireTimer, TimerTerminates, TypeOK
    <3>2. CASE HandleRetransmission(b, tm)
      <4>1. tx[b] \in TxRec
        BY <1>0 DEF TypeOK
      <4>2. CASE tx[b].rtx >= MaxRetransmissions
        <5>1. tx' = [tx EXCEPT ![b] = [tx[b] EXCEPT !.state = "TERMINATED",
                                              !.timers = tx[b].timers \ {tm}]]
          BY <3>2, <4>2 DEF HandleRetransmission
        <5>2. [tx[b] EXCEPT !.state = "TERMINATED",
                            !.timers = tx[b].timers \ {tm}].kind = tx[b].kind
          BY <4>1 DEF TxRec
        <5>. QED  BY <1>0, <1>8, <5>1, <5>2 DEF FireTimer, TypeOK
      <4>3. CASE ~(tx[b].rtx >= MaxRetransmissions)
        <5>1. tx' = [tx EXCEPT ![b] = [tx[b] EXCEPT !.rtx = tx[b].rtx + 1]]
          BY <3>2, <4>3 DEF HandleRetransmission
        <5>2. [tx[b] EXCEPT !.rtx = tx[b].rtx + 1].kind = tx[b].kind
              /\ [tx[b] EXCEPT !.rtx = tx[b].rtx + 1].state = tx[b].state
          BY <4>1 DEF TxRec
        <5>. QED  BY <1>0, <1>8, <5>1, <5>2 DEF FireTimer, TypeOK
      <4>. QED  BY <4>2, <4>3
    <3>3. CASE TimerIgnored(b, tm)
      BY <1>0, <1>8, <3>3 DEF FireTimer, TimerIgnored, TypeOK
    <3>. QED  BY <1>8, <3>1, <3>2, <3>3 DEF FireTimer
  <2>. QED  BY <1>0, <1>h, <2>1 DEF FInv, FinalsInv
<1>9. ASSUME NEW b \in Branch, Cleanup(b)
      PROVE  FInv'
  BY <1>0, <1>9, <1>h DEF Cleanup, TypeOK, FInv, FinalsInv
<1>10. CASE UNCHANGED vars
  BY <1>10, <1>h DEF vars, FInv, FinalsInv
<1>. QED
  BY <1>1, <1>2, <1>3, <1>4, <1>5, <1>6, <1>7, <1>8, <1>9, <1>10 DEF Next
-----------------------------------------------------------------------------
\* A branch whose stored transaction and table entry are untouched keeps
\* its phase.
LEMMA LifeFrame ==
    ASSUME NEW c \in Branch, tx'[c] = tx[c], (c \in table') = (c \in table)
    PROVE  LifeOf(c)' = LifeOf(c)
BY DEF LifeOf

\* A timer firing keeps the transaction's kind and either keeps its state
\* or terminates it, and touches no other branch, the table or finals.
LEMMA FireTimerFrame ==
    ASSUME TypeOK, NEW b \in Branch, NEW tm \in Timers, FireTimer(b, tm)
    PROVE  /\ tx'[b].kind = tx[b].kind
           /\ tx'[b].state \in {tx[b].state, "TERMINATED"}
           /\ \A c \in Branch \ {b} : tx'[c] = tx[c]
           /\ table' = table
           /\ finals' = finals
<1>1. tx[b] \in TxRec
  BY DEF TypeOK
<1>2. table' = table /\ finals' = finals
  BY DEF FireTimer
<1>3. CASE TimerTerminates(b, tm)
  BY <1>1, <1>2, <1>3 DEF TimerTerminates, TypeOK, TxRec
<1>4. CASE HandleRetransmission(b, tm) /\ tx[b].rtx >= MaxRetransmissions
  <2>1. tx' = [tx EXCEPT ![b] = [tx[b] EXCEPT !.state = "TERMINATED",
                                          !.timers = tx[b].timers \ {tm}]]
    BY <1>4 DEF HandleRetransmission
  <2>. QED  BY <1>1, <1>2, <2>1 DEF TypeOK, TxRec
<1>5. CASE HandleRetransmission(b, tm) /\ ~(tx[b].rtx >= MaxRetransmissions)
  <2>1. tx' = [tx EXCEPT ![b] = [tx[b] EXCEPT !.rtx = tx[b].rtx + 1]]
    BY <1>5 DEF HandleRetransmission
  <2>. QED  BY <1>1, <1>2, <2>1 DEF TypeOK, TxRec
<1>6. CASE TimerIgnored(b, tm)
  BY <1>1, <1>2, <1>6 DEF TimerIgnored, TypeOK, TxRec
<1>. QED  BY <1>3, <1>4, <1>5, <1>6 DEF FireTimer

\* Changing the phase of one branch changes LifeBar at that branch only.
LEMMA LifeBarUpdate ==
    ASSUME NEW b \in Branch, \A c \in Branch \ {b} : LifeOf(c)' = LifeOf(c)
    PROVE  LifeBar' = [LifeBar EXCEPT ![b] = LifeOf(b)']
BY DEF LifeBar

\* The same for two branches (a delivered challenge and its re-issue).
LEMMA LifeBarUpdate2 ==
    ASSUME NEW b \in Branch, NEW nb \in Branch, b # nb,
           \A c \in Branch \ {b, nb} : LifeOf(c)' = LifeOf(c)
    PROVE  LifeBar' = [LifeBar EXCEPT ![b] = LifeOf(b)', ![nb] = LifeOf(nb)']
BY DEF LifeBar

LEMMA InitRefines == Init => Lifecycle!LInit
BY DEF Init, Lifecycle!LInit, Lifecycle!LBranch, LifeOf, NoTx, Branch

\* A response delivered to on_final_response, seen through the mapping:
\* the transaction was live and undelivered, it stays stored, and its
\* branch joins the delivered ones.
LEMMA DeliverMapped ==
    ASSUME TypeOK, FInv, NEW b \in LocalBranch, NEW s \in Statuses,
           tx[b].kind \in {"ICT", "NICT"}, b \in table, b \in table',
           DeliversFinal(tx[b], s),
           tx'[b] = OnResponse(tx[b], s),
           finals' \in [Branch -> Nat],
           finals'[b] = finals[b] + 1,
           \A c \in Branch \ {b} : finals'[c] = finals[c]
    PROVE  /\ LifeOf(b) = "live"
           /\ LifeOf(b)' \in {"live", "terminated"}
           /\ b \notin DeliveredBar
           /\ DeliveredBar' = DeliveredBar \cup {b}
<1>1. tx[b] \in TxRec /\ finals[b] \in Nat
  BY DEF TypeOK, Branch
<1>2. /\ OnResponse(tx[b], s).kind = tx[b].kind
      /\ OnResponse(tx[b], s).state \in {"ACCEPTED", "COMPLETED", "TERMINATED"}
  BY <1>1, OnResponseLife
<1>3. tx[b].state \in {"TRYING", "PROCEEDING"} /\ finals[b] = 0
  BY <1>1 DEF DeliversFinal, FInv, FinalsInv, Branch
<1>4. LifeOf(b) = "live" /\ LifeOf(b)' \in {"live", "terminated"}
  BY <1>2, <1>3 DEF LifeOf
<1>5. DeliveredBar' = DeliveredBar \cup {b} /\ b \notin DeliveredBar
  BY <1>3 DEF DeliveredBar, TypeOK, Branch
<1>. QED  BY <1>4, <1>5

(***************************************************************************)
(* Every step of the transaction layer is a step of TransactionLifecycle  *)
(* or leaves the mapped phases and deliveries unchanged.                  *)
(***************************************************************************)
LEMMA RefinementStep ==
    IInv /\ FInv /\ [Next]_vars => [Lifecycle!LNext]_Lifecycle!lvars
<1> SUFFICES ASSUME IInv, FInv, [Next]_vars
             PROVE  Lifecycle!LNext \/ UNCHANGED <<LifeBar, DeliveredBar>>
  BY DEF Lifecycle!lvars, LifeBar, DeliveredBar
<1>0. TypeOK /\ TypeOK'
  BY TypeStep DEF IInv
<1>h. \A c \in Branch : FinalsInv(c) /\ Unused(c)
  BY DEF FInv, IInv
\* A step that keeps every phase and finals is a stutter.
<1>s. ASSUME \A c \in Branch : LifeOf(c)' = LifeOf(c), finals' = finals
      PROVE  UNCHANGED <<LifeBar, DeliveredBar>>
  BY <1>s DEF LifeBar, DeliveredBar
<1>1. ASSUME NEW b \in LocalBranch, NEW m \in ClientMethods,
             SendRequest(b, m)
      PROVE  Lifecycle!LNext
  <2>1. LifeOf(b) = "unused" /\ LifeOf(b)' = "live"
    BY <1>0, <1>1 DEF SendRequest, Fresh, NewClientTx, LifeOf, TypeOK, Branch
  <2>2. \A c \in Branch \ {b} : LifeOf(c)' = LifeOf(c)
    BY <1>0, <1>1, LifeFrame DEF SendRequest, TypeOK
  <2>3. /\ LifeBar' = [LifeBar EXCEPT ![b] = "live"]
        /\ DeliveredBar' = DeliveredBar
    BY <1>1, <2>1, <2>2 DEF SendRequest, LifeBar, DeliveredBar, Branch
  <2>4. Lifecycle!Start(b)
    BY <2>1, <2>3 DEF Lifecycle!Start, LifeBar, DeliveredBar, Branch
  <2>. QED  BY <2>4 DEF Lifecycle!LNext, Lifecycle!LBranch, Branch
<1>2. ASSUME NEW b \in LocalBranch, NEW s \in Statuses \ {401},
             ReceiveResponse(b, s)
      PROVE  Lifecycle!LNext \/ UNCHANGED <<LifeBar, DeliveredBar>>
  <2>1. tx[b] \in TxRec /\ tx[b].kind \in {"ICT", "NICT"} /\ b \in table
    BY <1>0, <1>2 DEF ReceiveResponse, TypeOK, Branch
  <2>2. \A c \in Branch \ {b} : LifeOf(c)' = LifeOf(c)
    BY <1>0, <1>2, LifeFrame DEF ReceiveResponse, TypeOK
  <2>3. CASE DeliversFinal(tx[b], s)
    <3>1. /\ tx'[b] = OnResponse(tx[b], s)
          /\ finals'[b] = finals[b] + 1
          /\ \A c \in Branch \ {b} : finals'[c] = finals[c]
          /\ table' = table
      BY <1>0, <1>2, <2>3 DEF ReceiveResponse, TypeOK, Branch
    <3>2. /\ LifeOf(b) = "live"
          /\ LifeOf(b)' \in {"live", "terminated"}
          /\ b \notin DeliveredBar
          /\ DeliveredBar' = DeliveredBar \cup {b}
      BY <1>0, <2>1, <2>3, <3>1, DeliverMapped DEF IInv, TypeOK, Statuses
    <3>3. LifeBar' = [LifeBar EXCEPT ![b] = LifeOf(b)']
      BY <2>2 DEF LifeBar, Branch
    <3>4. Lifecycle!Deliver(b, LifeOf(b)')
      BY <3>2, <3>3 DEF Lifecycle!Deliver, Lifecycle!CanDeliver, LifeBar,
         DeliveredBar, Branch
    <3>. QED  BY <3>2, <3>4 DEF Lifecycle!LNext, Lifecycle!LBranch, Branch
  <2>4. CASE ~DeliversFinal(tx[b], s)
    <3>1. OnResponse(tx[b], s).kind = tx[b].kind
          /\ (OnResponse(tx[b], s).state = "TERMINATED" <=> tx[b].state = "TERMINATED")
      BY <2>1, <2>4, OnResponseLife
    <3>2. finals' = [finals EXCEPT ![b] = finals[b] + 0] /\ table' = table
          /\ tx' = [tx EXCEPT ![b] = OnResponse(tx[b], s)]
      BY <1>2, <2>4 DEF ReceiveResponse
    <3>3. finals' = finals
      BY <1>0, <3>2 DEF TypeOK, Branch
    <3>4. LifeOf(b)' = LifeOf(b)
      BY <1>0, <2>1, <3>1, <3>2 DEF LifeOf, TypeOK, Branch
    <3>. QED  BY <1>s, <2>2, <3>3, <3>4
  <2>. QED  BY <2>3, <2>4
<1>3. ASSUME NEW b \in LocalBranch, NEW r \in Realm, ReceiveChallenge(b, r)
      PROVE  Lifecycle!LNext \/ UNCHANGED <<LifeBar, DeliveredBar>>
  <2>. DEFINE u == OnResponse(tx[b], 401)
  <2>1. tx[b] \in TxRec /\ tx[b].kind \in {"ICT", "NICT"} /\ b \in table
    BY <1>0, <1>3 DEF ReceiveChallenge, TypeOK, Branch
  <2>2. 401 \in Statuses
    BY DEF Statuses
  <2>3. CASE DeliversFinal(tx[b], 401)
    <3>1. /\ finals'[b] = finals[b] + 1
          /\ \A c \in Branch \ {b} : finals'[c] = finals[c]
      BY <1>0, <1>3, <2>3 DEF ReceiveChallenge, TypeOK, Branch
    <3>2. CASE r \in creds
      <4>1. PICK nb \in LocalBranch :
                /\ Fresh(nb)
                /\ table' = table \cup {nb}
                /\ tx' = [tx EXCEPT ![b] = u, ![nb] = NewClientTx(tx[b].method)]
        BY <1>3, <2>3, <3>2 DEF ReceiveChallenge
      <4>2. nb # b
        BY <1>h, <2>1, <4>1 DEF Fresh, Unused, Branch
      <4>3. /\ tx'[b] = u /\ b \in table'
            /\ tx'[nb] = NewClientTx(tx[b].method) /\ nb \in table'
            /\ \A c \in Branch \ {b, nb} : tx'[c] = tx[c] /\ (c \in table') = (c \in table)
        BY <1>0, <2>1, <4>1, <4>2 DEF TypeOK, Branch
      <4>4. /\ LifeOf(b) = "live"
            /\ LifeOf(b)' \in {"live", "terminated"}
            /\ b \notin DeliveredBar
            /\ DeliveredBar' = DeliveredBar \cup {b}
        BY <1>0, <2>1, <2>2, <2>3, <3>1, <4>3, DeliverMapped DEF IInv, TypeOK
      <4>5. LifeOf(nb) = "unused" /\ LifeOf(nb)' = "live"
        BY <4>1, <4>3 DEF Fresh, NewClientTx, LifeOf
      <4>6. \A c \in Branch \ {b, nb} : LifeOf(c)' = LifeOf(c)
        BY <4>3, LifeFrame
      <4>7. LifeBar' = [LifeBar EXCEPT ![b] = LifeOf(b)', ![nb] = "live"]
        BY <4>2, <4>5, <4>6, LifeBarUpdate2 DEF Branch
      <4>8. Lifecycle!DeliverAndReissue(b, LifeOf(b)', nb)
        BY <4>4, <4>5, <4>7 DEF Lifecycle!DeliverAndReissue,
           Lifecycle!CanDeliver, LifeBar, DeliveredBar, Branch
      <4>. QED  BY <4>4, <4>8 DEF Lifecycle!LNext, Lifecycle!LBranch, Branch
    <3>3. CASE r \notin creds
      <4>1. tx' = [tx EXCEPT ![b] = u] /\ table' = table
        BY <1>3, <2>3, <3>3 DEF ReceiveChallenge
      <4>2. /\ LifeOf(b) = "live"
            /\ LifeOf(b)' \in {"live", "terminated"}
            /\ b \notin DeliveredBar
            /\ DeliveredBar' = DeliveredBar \cup {b}
        BY <1>0, <2>1, <2>2, <2>3, <3>1, <4>1, DeliverMapped DEF IInv, TypeOK,
           Branch
      <4>3. \A c \in Branch \ {b} : LifeOf(c)' = LifeOf(c)
        BY <1>0, <4>1, LifeFrame DEF TypeOK
      <4>4. LifeBar' = [LifeBar EXCEPT ![b] = LifeOf(b)']
        BY <4>3, LifeBarUpdate DEF Branch
      <4>5. Lifecycle!Deliver(b, LifeOf(b)')
        BY <4>2, <4>4 DEF Lifecycle!Deliver, Lifecycle!CanDeliver, LifeBar,
           DeliveredBar, Branch
      <4>. QED  BY <4>2, <4>5 DEF Lifecycle!LNext, Lifecycle!LBranch, Branch
    <3>. QED  BY <3>2, <3>3
  <2>4. CASE ~DeliversFinal(tx[b], 401)
    <3>1. /\ u.kind = tx[b].kind
          /\ (u.state = "TERMINATED" <=> tx[b].state = "TERMINATED")
      BY <2>1, <2>2, <2>4, OnResponseLife
    <3>2. /\ finals' = [finals EXCEPT ![b] = finals[b] + 0]
          /\ table' = table
          /\ tx' = [tx EXCEPT ![b] = u]
      BY <1>3, <2>4 DEF ReceiveChallenge
    <3>3. finals' = finals
      BY <1>0, <3>2 DEF TypeOK, Branch
    <3>4. \A c \in Branch : LifeOf(c)' = LifeOf(c)
      BY <1>0, <2>1, <3>1, <3>2 DEF LifeOf, TypeOK, Branch
    <3>. QED  BY <1>s, <3>3, <3>4
  <2>. QED  BY <2>3, <2>4
<1>4. ASSUME NEW r \in Realm, AddCredentials(r)
      PROVE  UNCHANGED <<LifeBar, DeliveredBar>>
  BY <1>4, <1>s DEF AddCredentials, LifeOf
<1>5. ASSUME NEW b \in RemoteBranch, NEW m \in Methods, ReceiveRequest(b, m)
      PROVE  Lifecycle!LNext
  <2>1. /\ LifeOf(b) \in {"unused", "gone"}
        /\ LifeOf(b)' = "live"
    BY <1>0, <1>5 DEF ReceiveRequest, NewServerTx, LifeOf, TypeOK, Branch
  <2>2. \A c \in Branch \ {b} : LifeOf(c)' = LifeOf(c)
    BY <1>0, <1>5, LifeFrame DEF ReceiveRequest, TypeOK
  <2>3. LifeBar' = [LifeBar EXCEPT ![b] = "live"]
    BY <2>1, <2>2, LifeBarUpdate DEF Branch
  <2>4. DeliveredBar' = DeliveredBar
    BY <1>5 DEF ReceiveRequest, DeliveredBar
  <2>5. Lifecycle!Start(b)
    BY <2>1, <2>3, <2>4 DEF Lifecycle!Start, LifeBar, DeliveredBar, Branch
  <2>. QED  BY <2>5 DEF Lifecycle!LNext, Lifecycle!LBranch, Branch
<1>6. ASSUME NEW b \in RemoteBranch, ReceiveAck(b)
      PROVE  UNCHANGED <<LifeBar, DeliveredBar>>
  <2>1. tx[b] \in TxRec
    BY <1>0 DEF TypeOK, Branch
  <2>2. /\ ISTOnAck(tx[b]).kind = tx[b].kind
        /\ (ISTOnAck(tx[b]).state = "TERMINATED" <=> tx[b].state = "TERMINATED")
    BY <2>1 DEF ISTOnAck, TxRec
  <2>3. \A c \in Branch : LifeOf(c)' = LifeOf(c)
    BY <1>0, <1>6, <2>2 DEF ReceiveAck, LifeOf, TypeOK, Branch
  <2>. QED  BY <1>6, <1>s, <2>3 DEF ReceiveAck
<1>7. ASSUME NEW b \in RemoteBranch, AnswerInvite(b)
      PROVE  UNCHANGED <<LifeBar, DeliveredBar>>
  <2>1. tx[b] \in TxRec
    BY <1>0 DEF TypeOK, Branch
  <2>2. CASE b \in table /\ tx[b].kind = "IST" /\ tx[b].state = "PROCEEDING"
    <3>1. tx' = [tx EXCEPT ![b] = [tx[b] EXCEPT !.state = "ACCEPTED",
                                             !.timers = tx[b].timers \cup {"L"},
                                             !.resp = 200]]
      BY <1>7, <2>2 DEF AnswerInvite
    <3>2. \A c \in Branch : LifeOf(c)' = LifeOf(c)
      BY <1>0, <1>7, <2>1, <2>2, <3>1 DEF AnswerInvite, LifeOf, TypeOK, TxRec,
         Branch
    <3>. QED  BY <1>7, <1>s, <3>2 DEF AnswerInvite
  <2>3. CASE ~(b \in table /\ tx[b].kind = "IST" /\ tx[b].state = "PROCEEDING")
    <3>1. tx' = tx
      BY <1>7, <2>3 DEF AnswerInvite
    <3>. QED  BY <1>7, <1>s, <3>1 DEF AnswerInvite, LifeOf
  <2>. QED  BY <2>2, <2>3
<1>8. ASSUME NEW b \in Branch, NEW tm \in Timers, FireTimer(b, tm)
      PROVE  Lifecycle!LNext \/ UNCHANGED <<LifeBar, DeliveredBar>>
  <2>1. /\ tx'[b].kind = tx[b].kind
        /\ tx'[b].state \in {tx[b].state, "TERMINATED"}
        /\ \A c \in Branch \ {b} : tx'[c] = tx[c]
        /\ table' = table
        /\ finals' = finals
    BY <1>0, <1>8, FireTimerFrame
  <2>2. \A c \in Branch \ {b} : LifeOf(c)' = LifeOf(c)
    BY <2>1, LifeFrame
  <2>3. CASE LifeOf(b) = "live" /\ tx'[b].state = "TERMINATED"
    <3>1. LifeOf(b)' = "terminated"
      BY <2>1, <2>3 DEF LifeOf
    <3>2. LifeBar' = [LifeBar EXCEPT ![b] = "terminated"]
      BY <2>2, <3>1, LifeBarUpdate
    <3>3. Lifecycle!Terminate(b)
      BY <2>1, <2>3, <3>2 DEF Lifecycle!Terminate, LifeBar, DeliveredBar
    <3>. QED  BY <3>3 DEF Lifecycle!LNext, Lifecycle!LBranch, Branch
  <2>4. CASE ~(LifeOf(b) = "live" /\ tx'[b].state = "TERMINATED")
    <3>1. LifeOf(b)' = LifeOf(b)
      BY <2>1, <2>4 DEF LifeOf
    <3>. QED  BY <1>s, <2>1, <2>2, <3>1
  <2>. QED  BY <2>3, <2>4
<1>9. ASSUME NEW b \in Branch, Cleanup(b)
      PROVE  Lifecycle!LNext \/ UNCHANGED <<LifeBar, DeliveredBar>>
  <2>1. tx[b].kind # "NONE" /\ tx[b].state = "TERMINATED"
    BY <1>9, <1>h DEF Cleanup, IInv, Unused, ClientInv, ServerInv, TypeOK,
       Branch
  <2>2. /\ tx'[b] = [tx[b] EXCEPT !.timers = {}]
        /\ \A c \in Branch \ {b} : tx'[c] = tx[c] /\ (c \in table') = (c \in table)
        /\ b \notin table'
        /\ finals' = finals
    BY <1>0, <1>9 DEF Cleanup, TypeOK
  <2>3. tx'[b].kind = tx[b].kind
    BY <1>0, <2>2 DEF TypeOK, TxRec, Branch
  <2>4. \A c \in Branch \ {b} : LifeOf(c)' = LifeOf(c)
    BY <2>2, LifeFrame
  <2>5. LifeOf(b)' = "gone"
    BY <2>1, <2>2, <2>3 DEF LifeOf
  <2>6. CASE b \in table
    <3>1. LifeOf(b) = "terminated"
      BY <2>1, <2>6 DEF LifeOf
    <3>2. LifeBar' = [LifeBar EXCEPT ![b] = "gone"]
      BY <2>4, <2>5, LifeBarUpdate
    <3>3. Lifecycle!Remove(b)
      BY <2>2, <3>1, <3>2 DEF Lifecycle!Remove, LifeBar, DeliveredBar
    <3>. QED  BY <3>3 DEF Lifecycle!LNext, Lifecycle!LBranch, Branch
  <2>7. CASE b \notin table
    <3>1. LifeOf(b) = "gone"
      BY <2>1, <2>7 DEF LifeOf
    <3>. QED  BY <1>s, <2>2, <2>4, <2>5, <3>1
  <2>. QED  BY <2>6, <2>7
<1>10. CASE UNCHANGED vars
  BY <1>10, <1>s DEF vars, LifeOf
<1>. QED
  BY <1>1, <1>2, <1>3, <1>4, <1>5, <1>6, <1>7, <1>8, <1>9, <1>10 DEF Next

(***************************************************************************)
(* The transaction layer implements TransactionLifecycle's safety: under  *)
(* the mapping, every behaviour starts with all branches unused and moves *)
(* only as the abstract specification allows.  Our branches are never     *)
(* reused, a peer branch restarts only once gone, a final response is     *)
(* delivered once and only by a live transaction, and only a terminated   *)
(* transaction is removed.  It rests on IInv (a pending cleanup task      *)
(* belongs to a TERMINATED transaction, so Cleanup only removes           *)
(* terminated ones) and on FInv (a delivered branch has left TRYING and   *)
(* PROCEEDING, so no second delivery).                                     *)
(***************************************************************************)
THEOREM Refinement == Spec => Lifecycle!LSafety
<1>1. Init => IInv /\ FInv
  BY InitIInv, InitFInv
<1>2. IInv /\ FInv /\ [Next]_vars => IInv' /\ FInv'
  BY IInvStep, FInvStep
<1>3. IInv /\ FInv /\ [Next]_vars => [Lifecycle!LNext]_Lifecycle!lvars
  BY RefinementStep
<1>. QED  BY <1>1, <1>2, <1>3, InitRefines, PTL DEF Spec, Lifecycle!LSafety
-----------------------------------------------------------------------------
(***************************************************************************)
(* At most one final response per client transaction.  process_response   *)
(* calls on_final_response only when the transaction was in TRYING or     *)
(* PROCEEDING before the response (DeliversFinal), and FInv says a branch *)
(* that has delivered once has left those states for good.  So the count  *)
(* of on_final_response calls only ever goes from 0 to 1.                 *)
(***************************************************************************)

\* The update process_response makes to finals keeps every count at most 1.
LEMMA DeliverOnce ==
    ASSUME TypeOK, FInv, AtMostOneFinal, NEW b \in LocalBranch, NEW s,
           NEW f, f = [finals EXCEPT ![b] =
                         @ + (IF DeliversFinal(tx[b], s) THEN 1 ELSE 0)]
    PROVE  \A c \in Branch : f[c] <= 1
<1>1. tx[b] \in TxRec /\ finals \in [Branch -> Nat]
  BY DEF TypeOK, Branch
<1>2. CASE DeliversFinal(tx[b], s)
  <2>1. finals[b] = 0
    BY <1>1, <1>2 DEF DeliversFinal, FInv, FinalsInv, Branch
  <2>2. f = [finals EXCEPT ![b] = finals[b] + 1]
    BY <1>2
  <2>. QED  BY <1>1, <2>1, <2>2 DEF AtMostOneFinal, Branch
<1>3. CASE ~DeliversFinal(tx[b], s)
  <2>1. f = [finals EXCEPT ![b] = finals[b] + 0]
    BY <1>3
  <2>. QED  BY <1>1, <2>1 DEF AtMostOneFinal, Branch
<1>. QED  BY <1>2, <1>3

LEMMA OneFinalStep ==
    IInv /\ FInv /\ AtMostOneFinal /\ [Next]_vars => AtMostOneFinal'
<1> SUFFICES ASSUME IInv, FInv, AtMostOneFinal, [Next]_vars
             PROVE  AtMostOneFinal'
  OBVIOUS
<1>0. TypeOK
  BY DEF IInv
<1>k. CASE finals' = finals
  BY <1>k DEF AtMostOneFinal
<1>1. ASSUME NEW b \in LocalBranch, NEW s \in Statuses \ {401},
             ReceiveResponse(b, s)
      PROVE  AtMostOneFinal'
  BY <1>0, <1>1, DeliverOnce DEF ReceiveResponse, AtMostOneFinal
<1>2. ASSUME NEW b \in LocalBranch, NEW r \in Realm, ReceiveChallenge(b, r)
      PROVE  AtMostOneFinal'
  BY <1>0, <1>2, DeliverOnce DEF ReceiveChallenge, AtMostOneFinal
<1>3. ASSUME NEW b \in Branch, NEW tm \in Timers, FireTimer(b, tm)
      PROVE  AtMostOneFinal'
  BY <1>0, <1>3, <1>k, FireTimerFrame
<1>4. CASE /\ ~(\E b \in LocalBranch, s \in Statuses \ {401} : ReceiveResponse(b, s))
           /\ ~(\E b \in LocalBranch, r \in Realm : ReceiveChallenge(b, r))
           /\ ~(\E b \in Branch, tm \in Timers : FireTimer(b, tm))
  <2>. finals' = finals
    BY <1>4 DEF Next, vars, SendRequest, AddCredentials, ReceiveRequest,
       ReceiveAck, AnswerInvite, Cleanup
  <2>. QED  BY <1>k
<1>. QED  BY <1>1, <1>2, <1>3, <1>4

(***************************************************************************)
(* Safety, for every instance: the UA hears of at most one final response *)
(* per client transaction (on_final_response), however the peer           *)
(* duplicates or reorders its responses.  The inductive invariant is      *)
(* IInv /\ FInv /\ AtMostOneFinal: FInv is what rules out a second call.  *)
(***************************************************************************)
THEOREM OneFinal == Spec => []AtMostOneFinal
<1>1. Init => IInv /\ FInv /\ AtMostOneFinal
  BY InitIInv, InitFInv DEF Init, AtMostOneFinal
<1>2. IInv /\ FInv /\ AtMostOneFinal /\ [Next]_vars
        => (IInv /\ FInv /\ AtMostOneFinal)'
  BY IInvStep, FInvStep, OneFinalStep
<1>. QED  BY <1>1, <1>2, PTL DEF Spec
-----------------------------------------------------------------------------
(***************************************************************************)
(* Client retransmissions stop at the first response.  Of the             *)
(* retransmission timers an INVITE client transaction only ever holds     *)
(* Timer A and a non-INVITE one only Timer E, and process_message cancels *)
(* it on the first response that leaves TRYING; so in PROCEEDING,         *)
(* ACCEPTED and COMPLETED no retransmission timer is armed and            *)
(* _handle_retransmission cannot run.  The per-kind conjuncts are what    *)
(* makes this inductive: an ICT holding Timer E would keep it through a   *)
(* 1xx, since the ICT cancels only A.                                      *)
(***************************************************************************)
ResponseStates == {"PROCEEDING", "ACCEPTED", "COMPLETED"}

RtxTimersOK(t) ==
    /\ t.kind = "ICT" => t.timers \cap {"E", "G"} = {}
    /\ t.kind = "NICT" => t.timers \cap {"A", "G"} = {}
    /\ t.state \in ResponseStates => t.timers \cap RetransmitTimers = {}

RInv == \A b \in LocalBranch : RtxTimersOK(tx[b])

\* The step relation of NoRetransmitAfterResponse.
RtxKept ==
    \A b \in LocalBranch : tx[b].state \in ResponseStates => tx'[b].rtx = tx[b].rtx

\* start() arms only the retransmission timer of its own kind.
LEMMA NewClientRtx ==
    ASSUME NEW m PROVE RtxTimersOK(NewClientTx(m))
BY DEF RtxTimersOK, NewClientTx, ResponseStates, RetransmitTimers

\* process_message never arms a retransmission timer, cancels it when it
\* leaves TRYING, and leaves the retransmission counter alone.
LEMMA OnResponseRtx ==
    ASSUME NEW t \in TxRec, t.kind \in {"ICT", "NICT"}, RtxTimersOK(t),
           NEW s \in Statuses
    PROVE  /\ RtxTimersOK(OnResponse(t, s))
           /\ OnResponse(t, s).rtx = t.rtx
<1>1. CASE t.kind = "ICT"
  BY <1>1 DEF OnResponse, ICTOnResponse, RtxTimersOK, ResponseStates,
     RetransmitTimers, IsProvisional, IsSuccess, TxRec, Statuses
<1>2. CASE t.kind = "NICT"
  BY <1>2 DEF OnResponse, NICTOnResponse, RtxTimersOK, ResponseStates,
     RetransmitTimers, IsProvisional, IsFinal, TxRec, Statuses
<1>. QED  BY <1>1, <1>2

\* _on_timer_fired only cancels timers, and changes the counter only in
\* _handle_retransmission, for an armed retransmission timer.
LEMMA FireTimerRtx ==
    ASSUME TypeOK, NEW b \in Branch, NEW tm \in Timers, FireTimer(b, tm)
    PROVE  /\ tx'[b].timers \subseteq tx[b].timers
           /\ tx'[b].rtx # tx[b].rtx => tm \in tx[b].timers \cap RetransmitTimers
<1>1. tx[b] \in TxRec /\ tm \in tx[b].timers
  BY DEF TypeOK, FireTimer
<1>2. CASE TimerTerminates(b, tm)
  BY <1>1, <1>2 DEF TimerTerminates, TypeOK, TxRec
<1>3. CASE HandleRetransmission(b, tm) /\ tx[b].rtx >= MaxRetransmissions
  <2>1. tx' = [tx EXCEPT ![b] = [tx[b] EXCEPT !.state = "TERMINATED",
                                          !.timers = tx[b].timers \ {tm}]]
    BY <1>3 DEF HandleRetransmission
  <2>. QED  BY <1>1, <2>1 DEF TypeOK, TxRec
<1>4. CASE HandleRetransmission(b, tm) /\ ~(tx[b].rtx >= MaxRetransmissions)
  <2>1. tx' = [tx EXCEPT ![b] = [tx[b] EXCEPT !.rtx = tx[b].rtx + 1]]
    BY <1>4 DEF HandleRetransmission
  <2>. QED  BY <1>1, <1>4, <2>1 DEF TypeOK, TxRec, HandleRetransmission
<1>5. CASE TimerIgnored(b, tm)
  BY <1>1, <1>5 DEF TimerIgnored, TypeOK, TxRec
<1>. QED  BY <1>2, <1>3, <1>4, <1>5 DEF FireTimer

\* A step that leaves every client transaction object alone.
LEMMA LocalTxUnchanged ==
    ASSUME RInv, \A c \in LocalBranch : tx'[c] = tx[c]
    PROVE  RInv' /\ RtxKept
BY DEF RInv, RtxKept
\* A step of Next keeps RInv and changes no counter of a transaction that
\* has had a response.
LEMMA RtxStep == IInv /\ RInv /\ [Next]_vars => RInv' /\ [RtxKept]_vars
<1> SUFFICES ASSUME IInv, RInv, [Next]_vars PROVE RInv' /\ [RtxKept]_vars
  OBVIOUS
<1>0. TypeOK
  BY DEF IInv
<1>h. \A c \in LocalBranch : /\ tx[c] \in TxRec /\ RtxTimersOK(tx[c])
                             /\ (tx[c].kind = "NONE" => tx[c].state = "INITIAL")
  BY <1>0 DEF RInv, TypeOK, IInv, Unused, Branch
<1>1. ASSUME NEW b \in LocalBranch, NEW m \in ClientMethods,
             SendRequest(b, m)
      PROVE  RInv' /\ RtxKept
  BY <1>0, <1>1, <1>h, NewClientRtx
  DEF SendRequest, Fresh, RInv, RtxKept, ResponseStates, TypeOK, Branch
<1>2. ASSUME NEW b \in LocalBranch, NEW s \in Statuses \ {401},
             ReceiveResponse(b, s)
      PROVE  RInv' /\ RtxKept
  <2>1. tx[b].kind \in {"ICT", "NICT"}
    BY <1>2 DEF ReceiveResponse
  <2>2. /\ RtxTimersOK(OnResponse(tx[b], s))
        /\ OnResponse(tx[b], s).rtx = tx[b].rtx
    BY <1>h, <2>1, OnResponseRtx
  <2>3. tx' = [tx EXCEPT ![b] = OnResponse(tx[b], s)]
    BY <1>2 DEF ReceiveResponse
  <2>. QED  BY <1>0, <1>h, <2>2, <2>3 DEF RInv, RtxKept, TypeOK, Branch
<1>3. ASSUME NEW b \in LocalBranch, NEW r \in Realm, ReceiveChallenge(b, r)
      PROVE  RInv' /\ RtxKept
  <2> DEFINE u == OnResponse(tx[b], 401)
  <2>1. tx[b].kind \in {"ICT", "NICT"}
    BY <1>3 DEF ReceiveChallenge
  <2>2. RtxTimersOK(u) /\ u.rtx = tx[b].rtx
    BY <1>h, <2>1, OnResponseRtx DEF Statuses
  <2>3. CASE DeliversFinal(tx[b], 401) /\ r \in creds
    <3>1. PICK nb \in LocalBranch : /\ Fresh(nb)
                                   /\ tx' = [tx EXCEPT ![b] = u,
                                                       ![nb] = NewClientTx(tx[b].method)]
      BY <1>3, <2>3 DEF ReceiveChallenge
    <3>2. RtxTimersOK(NewClientTx(tx[b].method))
      BY NewClientRtx
    <3>. QED  BY <1>0, <1>h, <2>2, <3>1, <3>2
              DEF RInv, RtxKept, Fresh, ResponseStates, TypeOK, Branch
  <2>4. CASE ~(DeliversFinal(tx[b], 401) /\ r \in creds)
    <3>1. tx' = [tx EXCEPT ![b] = u]
      BY <1>3, <2>4 DEF ReceiveChallenge
    <3>. QED  BY <1>0, <1>h, <2>2, <3>1 DEF RInv, RtxKept, TypeOK, Branch
  <2>. QED  BY <2>3, <2>4
<1>4. ASSUME NEW b \in RemoteBranch,
             \/ \E m \in Methods : ReceiveRequest(b, m)
             \/ ReceiveAck(b)
             \/ AnswerInvite(b)
      PROVE  RInv' /\ RtxKept
  <2>1. \A c \in LocalBranch : tx'[c] = tx[c]
    BY <1>0, <1>4, BranchAssumption
    DEF ReceiveRequest, ReceiveAck, AnswerInvite, TypeOK, Branch
  <2>. QED  BY <2>1, LocalTxUnchanged
<1>5. ASSUME NEW b \in Branch, NEW tm \in Timers, FireTimer(b, tm)
      PROVE  RInv' /\ RtxKept
  <2>1. /\ tx'[b].kind = tx[b].kind
        /\ tx'[b].state \in {tx[b].state, "TERMINATED"}
        /\ \A c \in Branch \ {b} : tx'[c] = tx[c]
    BY <1>0, <1>5, FireTimerFrame
  <2>2. /\ tx'[b].timers \subseteq tx[b].timers
        /\ tx'[b].rtx # tx[b].rtx => tm \in tx[b].timers \cap RetransmitTimers
    BY <1>0, <1>5, FireTimerRtx
  <2>3. CASE b \in LocalBranch
    <3>1. RtxTimersOK(tx'[b])
      BY <1>h, <2>1, <2>2, <2>3 DEF RtxTimersOK, ResponseStates
    <3>2. tx[b].state \in ResponseStates => tx'[b].rtx = tx[b].rtx
      BY <1>h, <2>2, <2>3 DEF RtxTimersOK
    <3>. QED  BY <2>1, <3>1, <3>2 DEF RInv, RtxKept, Branch
  <2>4. CASE b \notin LocalBranch
    BY <2>1, <2>4, LocalTxUnchanged DEF Branch
  <2>. QED  BY <2>3, <2>4
<1>6. ASSUME NEW b \in Branch, Cleanup(b)
      PROVE  RInv' /\ RtxKept
  BY <1>0, <1>h, <1>6 DEF Cleanup, RInv, RtxKept, RtxTimersOK, TypeOK, Branch
<1>7. CASE \E r \in Realm : AddCredentials(r)
  BY <1>7, LocalTxUnchanged DEF AddCredentials
<1>8. CASE UNCHANGED vars
  BY <1>8 DEF RInv, vars
<1>. QED  BY <1>1, <1>2, <1>3, <1>4, <1>5, <1>6, <1>7, <1>8 DEF Next

(***************************************************************************)
(* Action property, for every instance: once a client transaction has had *)
(* a response (PROCEEDING, ACCEPTED or COMPLETED) it never retransmits its *)
(* request, because process_message cancelled Timer A or E.  It rests on  *)
(* the inductive invariant IInv /\ RInv.                                   *)
(***************************************************************************)
THEOREM RetransmitStops == Spec => NoRetransmitAfterResponse
<1>1. Init => IInv /\ RInv
  BY InitIInv DEF Init, RInv, RtxTimersOK, NoTx, ResponseStates, Branch
<1>2. IInv /\ RInv /\ [Next]_vars => (IInv /\ RInv)'
  BY IInvStep, RtxStep
<1>3. IInv /\ RInv /\ [Next]_vars => [RtxKept]_vars
  BY RtxStep
<1>. QED  BY <1>1, <1>2, <1>3, PTL DEF Spec, NoRetransmitAfterResponse, RtxKept, ResponseStates
=============================================================================
