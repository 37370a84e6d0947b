----------------------- MODULE UserAgentRequestsProofs -----------------------
(***************************************************************************)
(* Proofs about UserAgentRequests: the CSeq of this UA's own Call-IDs      *)
(* increases along the requests it sends, for every size of the id pools, *)
(* of the peer's INVITEs and of the CSeq bound.                           *)
(*                                                                         *)
(* CSeqIncreasesPerCall is not inductive by itself.  A re-issue copies     *)
(* the CSeq of request i and adds one, so it is larger than the CSeq of   *)
(* every later request of that Call-ID only if there is no later request. *)
(* That holds because a request of an own Call-ID is only followed by      *)
(* another one once it has been answered (the challenge that caused the   *)
(* re-issue), and a challenge needs an unanswered request.  A fresh        *)
(* Call-ID of SendRequest is new because every own Call-ID that was sent   *)
(* is in usedIds.                                                          *)
(***************************************************************************)
EXTENDS UserAgentRequests, SequenceTheorems, TLAPS

PeerCallIds == {pi.call_id : pi \in PeerInvites}
PeerTags == {pi.from_tag : pi \in PeerInvites}

\* The requests the builders and create_authenticated_request produce.
Request ==
    [method : Methods \cup {"BYE"}, from : {"self", "peer"}, to : {"self", "peer"},
     call_id : CallIds \cup PeerCallIds, from_tag : Tags \cup PeerTags,
     to_tag : {NONE, PeerTag}, cseq : Nat, branch : Branches,
     auth : [www : Credential \cup {NoCred}, proxy : Credential \cup {NoCred}]]

\* The dialogs create_dialog_from_request stores for the peer's INVITEs.
Dialog ==
    [state : {"INITIAL", "CONFIRMED", "TERMINATED"}, local_uri : {"peer"},
     remote_uri : {"self"}, local_tag : PeerTags, remote_tag : {NONE, PeerTag},
     call_id : PeerCallIds, local_cseq : Nat]

\* The type of the state.
TypeOK ==
    /\ sent \in Seq(Request)
    /\ dialogs \in [DOMAIN dialogs -> Dialog]
    /\ nonceCount \in [Nonces -> Nat]
    /\ creds \subseteq Realms

\* Every own Call-ID that was sent has been handed out by uuid4().
OwnCallIdsUsed ==
    \A j \in 1..Len(sent) : sent[j].call_id \in CallIds => sent[j].call_id \in usedIds

\* A request of an own Call-ID that is followed by another request of the
\* same Call-ID has been answered, and has the smaller CSeq.
EarlierAnswered ==
    \A i, j \in 1..Len(sent) :
        i < j /\ sent[i].call_id = sent[j].call_id /\ sent[i].call_id \in CallIds
            => i \in answered /\ sent[i].cseq < sent[j].cseq

IInv == TypeOK /\ OwnCallIdsUsed /\ EarlierAnswered

-----------------------------------------------------------------------------
\* uuid4() gives a value of the pool that was not handed out before.
LEMMA NewIdFresh ==
    ASSUME NEW S, Fresh(S) # {}
    PROVE  NewId(S) \in S /\ NewId(S) \notin usedIds
BY DEF NewId, Fresh

\* Appending a request to sent keeps the earlier ones and their indices.
LEMMA AppendRequest ==
    ASSUME NEW seq \in Seq(Request), NEW r \in Request
    PROVE  /\ Append(seq, r) \in Seq(Request)
           /\ Len(Append(seq, r)) = Len(seq) + 1
           /\ \A k \in 1..Len(seq) : Append(seq, r)[k] = seq[k]
           /\ Append(seq, r)[Len(seq) + 1] = r
BY AppendProperties

\* The initial state, where nothing has been sent, satisfies IInv.
THEOREM InitIInv == Init => IInv
BY DEF Init, IInv, TypeOK, OwnCallIdsUsed, EarlierAnswered

\* A request of send_options/send_invite/send_register has a Call-ID that
\* was never sent, so it is ordered after nothing.
LEMMA SendRequestIInv ==
    ASSUME IInv, NEW m \in Methods, SendRequest(m)
    PROVE  IInv'
<1> DEFINE c0 == NewId(CallIds)
           t0 == NewId(Tags)
           b0 == NewId(Branches)
           req == [method |-> m, from |-> "self",
                   to |-> IF m = "REGISTER" THEN "self" ELSE "peer",
                   call_id |-> c0, from_tag |-> t0, to_tag |-> NONE,
                   cseq |-> 1, branch |-> b0, auth |-> NoAuth]
           N == Len(sent)
<1>1. c0 \in CallIds /\ c0 \notin usedIds /\ t0 \in Tags /\ b0 \in Branches
  BY NewIdFresh DEF SendRequest
<1>2. req \in Request
  BY <1>1 DEF Request, Methods, NoAuth, NoCred
<1>3. sent' = Append(sent, req) /\ usedIds' = usedIds \cup {c0, t0, b0}
      /\ UNCHANGED <<answered, dialogs, nonceCount, creds>>
  BY DEF SendRequest
<1>4. /\ sent' \in Seq(Request)
      /\ Len(sent') = N + 1
      /\ \A k \in 1..N : sent'[k] = sent[k]
      /\ sent'[N + 1] = req
  BY <1>2, <1>3, AppendRequest DEF IInv, TypeOK
<1>5. TypeOK'
  BY <1>3, <1>4 DEF IInv, TypeOK
<1>6. OwnCallIdsUsed'
  BY <1>3, <1>4 DEF IInv, OwnCallIdsUsed
<1>7. EarlierAnswered'
  <2> SUFFICES ASSUME NEW i \in 1..N + 1, NEW j \in 1..N + 1, i < j,
                      sent'[i].call_id = sent'[j].call_id,
                      sent'[i].call_id \in CallIds
               PROVE  i \in answered' /\ sent'[i].cseq < sent'[j].cseq
    BY <1>4 DEF EarlierAnswered
  <2>1. CASE j <= N
    BY <2>1, <1>3, <1>4 DEF IInv, EarlierAnswered
  <2>2. CASE j = N + 1
    <3>1. sent[i].call_id = c0 /\ i \in 1..N
      BY <2>2, <1>4
    <3>2. c0 \in usedIds
      BY <3>1, <1>1 DEF IInv, OwnCallIdsUsed
    <3> QED
      BY <3>2, <1>1
  <2> QED
    BY <2>1, <2>2
<1> QED
  BY <1>5, <1>6, <1>7 DEF IInv

\* A challenge answers request i.  The re-issue it may send has i's Call-ID
\* and CSeq + 1; no later request of that Call-ID exists, since it would
\* have required i to be answered already.  An attempt that fails sends
\* nothing, though it may use a nonce count up.
LEMMA ReceiveChallengeIInv ==
    ASSUME IInv, NEW i \in DOMAIN sent, NEW k \in {"www", "proxy"},
           NEW r \in Realms, NEW n \in Nonces, NEW a \in Algorithms,
           ReceiveChallenge(i, k, r, n, a)
    PROVE  IInv'
<1> DEFINE N == Len(sent)
<1>1. i \in 1..N /\ i \notin answered /\ answered' = answered \cup {i}
      /\ UNCHANGED <<dialogs, creds>>
  BY DEF ReceiveChallenge, IInv, TypeOK
<1>2. sent[i] \in Request /\ nonceCount[n] \in Nat
  BY <1>1 DEF IInv, TypeOK
<1>3. CASE r \notin creds \/ ~HashSupported(a)
  <2>1. /\ UNCHANGED <<sent, usedIds>>
        /\ nonceCount' \in {nonceCount, [nonceCount EXCEPT ![n] = NextNonceCount(n)]}
    BY <1>3 DEF ReceiveChallenge
  <2>2. TypeOK' /\ OwnCallIdsUsed'
    <3>1. nonceCount' \in [Nonces -> Nat]
      BY <1>2, <2>1 DEF IInv, TypeOK, NextNonceCount
    <3> QED
      BY <1>1, <2>1, <3>1 DEF IInv, TypeOK, OwnCallIdsUsed
  <2>3. EarlierAnswered'
    BY <1>1, <2>1 DEF IInv, EarlierAnswered
  <2> QED
    BY <2>2, <2>3 DEF IInv
<1>4. CASE r \in creds /\ HashSupported(a)
  <2> DEFINE b0 == NewId(Branches)
             cred == [realm |-> r, nonce |-> n, nc |-> NextNonceCount(n)]
             req == Reissue(sent[i], k, b0, cred)
  <2>1. /\ Fresh(Branches) # {}
        /\ nonceCount' = [nonceCount EXCEPT ![n] = NextNonceCount(n)]
        /\ sent' = Append(sent, req)
        /\ usedIds' = usedIds \cup {b0}
    BY <1>4 DEF ReceiveChallenge
  <2>2. b0 \in Branches
    BY <2>1, NewIdFresh
  <2>3. cred \in Credential
    BY <1>2 DEF NextNonceCount, Credential
  <2>4. /\ req \in Request
        /\ req.call_id = sent[i].call_id
        /\ req.cseq = sent[i].cseq + 1
    <3> DEFINE AS == [www : Credential \cup {NoCred}, proxy : Credential \cup {NoCred}]
    <3>1. sent[i].auth \in AS
      BY <1>2 DEF Request
    <3>2. PICK a1 \in AS : a1 = [sent[i].auth EXCEPT ![k] = cred]
      BY <3>1, <2>3
    <3>3. PICK c1 \in Nat : c1 = sent[i].cseq + 1
      BY <1>2 DEF Request
    <3>4. PICK b1 \in Branches : b1 = b0
      BY <2>2
    <3>5. req = [sent[i] EXCEPT !.branch = b1, !.cseq = c1, !.auth = a1]
      BY <3>2, <3>3, <3>4 DEF Reissue
    <3>6. /\ [sent[i] EXCEPT !.branch = b1, !.cseq = c1, !.auth = a1] \in Request
          /\ [sent[i] EXCEPT !.branch = b1, !.cseq = c1, !.auth = a1].call_id = sent[i].call_id
          /\ [sent[i] EXCEPT !.branch = b1, !.cseq = c1, !.auth = a1].cseq = c1
      BY <1>2 DEF Request, AS
    <3> QED
      BY <3>3, <3>5, <3>6
  <2>5. /\ sent' \in Seq(Request)
        /\ Len(sent') = N + 1
        /\ \A x \in 1..N : sent'[x] = sent[x]
        /\ sent'[N + 1] = req
    BY <2>1, <2>4, AppendRequest DEF IInv, TypeOK
  <2>6. TypeOK'
    <3>1. nonceCount' \in [Nonces -> Nat]
      BY <2>1, <1>2 DEF IInv, TypeOK, NextNonceCount
    <3> QED
      BY <1>1, <2>5, <3>1 DEF IInv, TypeOK
  <2>7. OwnCallIdsUsed'
    BY <1>1, <2>1, <2>4, <2>5 DEF IInv, OwnCallIdsUsed
  <2>8. EarlierAnswered'
    <3> SUFFICES ASSUME NEW x \in 1..N + 1, NEW y \in 1..N + 1, x < y,
                        sent'[x].call_id = sent'[y].call_id,
                        sent'[x].call_id \in CallIds
                 PROVE  x \in answered' /\ sent'[x].cseq < sent'[y].cseq
      BY <2>5 DEF EarlierAnswered
    <3>1. CASE y <= N
      BY <3>1, <1>1, <2>5 DEF IInv, EarlierAnswered
    <3>2. CASE y = N + 1 /\ x = i
      BY <3>2, <1>1, <1>2, <2>4, <2>5 DEF Request
    <3>3. CASE y = N + 1 /\ x < i
      <4>1. sent[x].call_id = sent[i].call_id /\ sent[x].call_id \in CallIds
        BY <3>3, <2>4, <2>5, <1>1
      <4>2. x \in answered /\ sent[x].cseq < sent[i].cseq
        BY <4>1, <3>3, <1>1 DEF IInv, EarlierAnswered
      <4>3. sent'[x] = sent[x] /\ sent'[y] = req /\ sent[x] \in Request
        BY <3>3, <1>1, <2>5 DEF IInv, TypeOK
      <4> QED
        BY <4>2, <4>3, <1>1, <1>2, <2>4 DEF Request
    <3>4. CASE y = N + 1 /\ x > i
      <4>1. sent[i].call_id = sent[x].call_id /\ sent[i].call_id \in CallIds
        BY <3>4, <2>4, <2>5, <1>1
      <4>2. i \in answered
        BY <4>1, <3>4, <1>1 DEF IInv, EarlierAnswered
      <4> QED
        BY <4>2, <1>1
    <3> QED
      BY <3>1, <3>2, <3>3, <3>4, <1>1
  <2> QED
    BY <2>6, <2>7, <2>8 DEF IInv
<1> QED
  BY <1>3, <1>4

\* A final response sends nothing; a dialog it updates stays a Dialog.
LEMMA ReceiveFinalIInv ==
    ASSUME IInv, NEW i \in DOMAIN sent, NEW st \in {"2xx", "3xx-6xx"},
           ReceiveFinal(i, st)
    PROVE  IInv'
<1>1. UNCHANGED <<sent, nonceCount, creds, usedIds>> /\ answered \subseteq answered'
  BY DEF ReceiveFinal
<1>2. ASSUME NEW dlg \in Dialog PROVE UpdateDialog(dlg, st) \in Dialog
  BY DEF UpdateDialog, Dialog
<1>3. dialogs' \in [DOMAIN dialogs' -> Dialog]
  BY <1>2 DEF ReceiveFinal, IInv, TypeOK
<1> QED
  BY <1>1, <1>3 DEF IInv, TypeOK, OwnCallIdsUsed, EarlierAnswered

\* An INVITE of the peer creates or replaces a dialog and sends nothing.
LEMMA ReceiveInviteIInv ==
    ASSUME IInv, NEW pi \in PeerInvites, NEW c \in PeerCSeqs, ReceiveInvite(pi, c)
    PROVE  IInv'
<1>1. UNCHANGED <<sent, answered, nonceCount, creds, usedIds>>
  BY DEF ReceiveInvite
<1>2. [state |-> "INITIAL", local_uri |-> "peer", remote_uri |-> "self",
       local_tag |-> pi.from_tag, remote_tag |-> NONE, call_id |-> pi.call_id,
       local_cseq |-> c] \in Dialog
  BY ConstantsAssumption DEF Dialog, PeerTags, PeerCallIds
<1>3. dialogs' \in [DOMAIN dialogs' -> Dialog]
  BY <1>2 DEF ReceiveInvite, IInv, TypeOK
<1> QED
  BY <1>1, <1>3 DEF IInv, TypeOK, OwnCallIdsUsed, EarlierAnswered

\* A BYE belongs to a dialog the peer created, whose Call-ID is not one of
\* this UA's, so it is ordered after nothing.
LEMMA SendByeIInv ==
    ASSUME IInv, NEW d \in DOMAIN dialogs, SendBye(d)
    PROVE  IInv'
<1> DEFINE b0 == NewId(Branches)
           dl == dialogs[d]
           req == [method |-> "BYE", from |-> dl.local_uri, to |-> dl.remote_uri,
                   call_id |-> dl.call_id, from_tag |-> dl.local_tag,
                   to_tag |-> dl.remote_tag, cseq |-> dl.local_cseq + 1,
                   branch |-> b0, auth |-> NoAuth]
           N == Len(sent)
<1>1. dl \in Dialog /\ b0 \in Branches
  BY NewIdFresh DEF SendBye, IInv, TypeOK
<1>2. dl.call_id \notin CallIds
  BY <1>1, ConstantsAssumption DEF Dialog, PeerCallIds
<1>3. req \in Request
  BY <1>1 DEF Request, Dialog, NoAuth, NoCred
<1>4. /\ sent' = Append(sent, req)
      /\ usedIds' = usedIds \cup {b0}
      /\ UNCHANGED <<answered, nonceCount, creds>>
  BY DEF SendBye
<1>5. /\ sent' \in Seq(Request)
      /\ Len(sent') = N + 1
      /\ \A x \in 1..N : sent'[x] = sent[x]
      /\ sent'[N + 1] = req
  BY <1>3, <1>4, AppendRequest DEF IInv, TypeOK
<1>6. dialogs' \in [DOMAIN dialogs' -> Dialog]
  <2>1. PICK c1 \in Nat : c1 = dl.local_cseq + 1
    BY <1>1 DEF Dialog
  <2>2. dialogs' = [dialogs EXCEPT ![d] = [dl EXCEPT !.local_cseq = c1]]
    BY <2>1 DEF SendBye
  <2>3. [dl EXCEPT !.local_cseq = c1] \in Dialog
    BY <1>1 DEF Dialog
  <2> QED
    BY <2>2, <2>3 DEF IInv, TypeOK
<1>7. TypeOK'
  BY <1>4, <1>5, <1>6 DEF IInv, TypeOK
<1>8. OwnCallIdsUsed'
  BY <1>2, <1>4, <1>5 DEF IInv, OwnCallIdsUsed
<1>9. EarlierAnswered'
  <2> SUFFICES ASSUME NEW x \in 1..N + 1, NEW y \in 1..N + 1, x < y,
                      sent'[x].call_id = sent'[y].call_id,
                      sent'[x].call_id \in CallIds
               PROVE  x \in answered' /\ sent'[x].cseq < sent'[y].cseq
    BY <1>5 DEF EarlierAnswered
  <2>1. y # N + 1
    BY <1>2, <1>5
  <2> QED
    BY <2>1, <1>4, <1>5 DEF IInv, EarlierAnswered
<1> QED
  BY <1>7, <1>8, <1>9 DEF IInv

\* add_credentials only adds a realm.
LEMMA AddCredentialsIInv ==
    ASSUME IInv, NEW r \in Realms, AddCredentials(r)
    PROVE  IInv'
BY DEF AddCredentials, IInv, TypeOK, OwnCallIdsUsed, EarlierAnswered

\* Every step of the UA keeps IInv.
THEOREM NextIInv == IInv /\ [Next]_vars => IInv'
<1> SUFFICES ASSUME IInv, [Next]_vars PROVE IInv'
  OBVIOUS
<1>1. CASE \E m \in Methods : SendRequest(m)
  BY <1>1, SendRequestIInv
<1>2. CASE \E r \in Realms : AddCredentials(r)
  BY <1>2, AddCredentialsIInv
<1>3. CASE \E i \in DOMAIN sent, k \in {"www", "proxy"}, r \in Realms, n \in Nonces,
                a \in Algorithms :
              ReceiveChallenge(i, k, r, n, a)
  BY <1>3, ReceiveChallengeIInv
<1>4. CASE \E i \in DOMAIN sent, st \in {"2xx", "3xx-6xx"} : ReceiveFinal(i, st)
  BY <1>4, ReceiveFinalIInv
<1>5. CASE \E pi \in PeerInvites, c \in PeerCSeqs : ReceiveInvite(pi, c)
  BY <1>5, ReceiveInviteIInv
<1>6. CASE \E d \in DOMAIN dialogs : SendBye(d)
  BY <1>6, SendByeIInv
<1>7. CASE UNCHANGED vars
  BY <1>7 DEF vars, IInv, TypeOK, OwnCallIdsUsed, EarlierAnswered
<1> QED
  BY <1>1, <1>2, <1>3, <1>4, <1>5, <1>6, <1>7 DEF Next

\* The type of every reachable state.
THEOREM TypeCorrect == Spec => []TypeOK
<1>1. IInv => TypeOK
  BY DEF IInv
<1> QED
  BY InitIInv, NextIInv, <1>1, PTL DEF Spec

\* CSeqIncreasesPerCall, checked by the requests run, for every instance:
\* along one of this UA's Call-IDs, the initial request and the re-issues
\* _handle_authentication_challenge sends have strictly increasing CSeqs.
THEOREM CSeqIncreases == Spec => []CSeqIncreasesPerCall
<1>1. IInv => CSeqIncreasesPerCall
  BY DEF IInv, TypeOK, EarlierAnswered, CSeqIncreasesPerCall
<1> QED
  BY InitIInv, NextIInv, <1>1, PTL DEF Spec

=============================================================================
