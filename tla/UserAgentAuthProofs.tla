-------------------------- MODULE UserAgentAuthProofs --------------------------
(***************************************************************************)
(* Proofs about the 401/407 path of UserAgentRequests                       *)
(* (_handle_authentication_challenge -> create_authenticated_request,     *)
(* auth.py _get_nonce_count), for every size of the id pools, of the      *)
(* realms and nonces and of the CSeq bound.                                *)
(*                                                                         *)
(* ReissueOfChallenged needs one more fact than IInv: every branch that   *)
(* was sent has been handed out by uuid4() (BranchesUsed).  The branch of *)
(* a re-issue is fresh, so it differs from the challenged request's.       *)
(* NonceCountsFresh is inductive as it stands, given the types: counts    *)
(* only grow, an attempt that fails sends nothing, and the only step that *)
(* adds a header is a re-issue, whose new header has the incremented      *)
(* count, above every count sent before with its nonce, and whose other   *)
(* header is copied from the challenged request.                          *)
(***************************************************************************)
EXTENDS UserAgentRequestsProofs

Kinds == {"www", "proxy"}

\* Every branch that was sent has been handed out by uuid4().
BranchesUsed == \A j \in 1..Len(sent) : sent[j].branch \in usedIds

\* Header h of a request that follows the requests 1..p of s: carried over
\* from one of them, or with a count above all their counts for its nonce.
CarriedOrAbove(s, p, k, h) ==
    \/ \E i \in 1..p : s[i].auth[k] = h
    \/ \A i \in 1..p, o \in Kinds :
          s[i].auth[o] # NoCred /\ s[i].auth[o].nonce = h.nonce => s[i].auth[o].nc < h.nc

\* NonceCountsFresh for request sequence s and counts cnt.
FreshFor(s, cnt) ==
    \A j \in DOMAIN s, k \in Kinds :
        s[j].auth[k] # NoCred =>
            /\ s[j].auth[k].nc \in 1..cnt[s[j].auth[k].nonce]
            /\ CarriedOrAbove(s, j - 1, k, s[j].auth[k])

AInv == IInv /\ BranchesUsed /\ ReissueOfChallenged /\ NonceCountsFresh

-----------------------------------------------------------------------------
LEMMA FreshForIs ==
    /\ NonceCountsFresh <=> FreshFor(sent, nonceCount)
    /\ NonceCountsFresh' <=> FreshFor(sent', nonceCount')
BY DEF NonceCountsFresh, FreshFor, CarriedOrAbove, Kinds

\* A header that is present is a credential.
LEMMA HeaderType ==
    ASSUME NEW r \in Request, NEW k \in Kinds, r.auth[k] # NoCred
    PROVE  r.auth[k] \in Credential
BY DEF Request, Kinds

\* Raising the counts keeps every header within them.
LEMMA FreshMono ==
    ASSUME NEW s \in Seq(Request), NEW c1 \in [Nonces -> Nat],
           NEW c2 \in [Nonces -> Nat], \A m \in Nonces : c1[m] <= c2[m],
           FreshFor(s, c1)
    PROVE  FreshFor(s, c2)
<1> SUFFICES ASSUME NEW j \in DOMAIN s, NEW k \in Kinds, s[j].auth[k] # NoCred
             PROVE  /\ s[j].auth[k].nc \in 1..c2[s[j].auth[k].nonce]
                    /\ CarriedOrAbove(s, j - 1, k, s[j].auth[k])
  BY DEF FreshFor
<1>1. s[j].auth[k] \in Credential
  BY HeaderType
<1>2. s[j].auth[k].nc \in 1..c1[s[j].auth[k].nonce] /\ CarriedOrAbove(s, j - 1, k, s[j].auth[k])
  BY DEF FreshFor
<1>. QED  BY <1>1, <1>2 DEF Credential

\* Appending a request whose headers are each carried over or above every
\* earlier count of their nonce, and within the counts.
LEMMA FreshAppend ==
    ASSUME NEW s \in Seq(Request), NEW cnt \in [Nonces -> Nat], NEW r \in Request,
           FreshFor(s, cnt),
           \A k \in Kinds : r.auth[k] # NoCred =>
              /\ r.auth[k].nc \in 1..cnt[r.auth[k].nonce]
              /\ CarriedOrAbove(s, Len(s), k, r.auth[k])
    PROVE  FreshFor(Append(s, r), cnt)
<1> DEFINE N == Len(s)
           s2 == Append(s, r)
<1>1. /\ s2 \in Seq(Request) /\ Len(s2) = N + 1
      /\ \A x \in 1..N : s2[x] = s[x]
      /\ s2[N + 1] = r
      /\ N \in Nat /\ DOMAIN s = 1..N /\ DOMAIN s2 = 1..N + 1
  BY AppendRequest
<1> SUFFICES ASSUME NEW j \in 1..N + 1, NEW k \in Kinds, s2[j].auth[k] # NoCred
             PROVE  /\ s2[j].auth[k].nc \in 1..cnt[s2[j].auth[k].nonce]
                    /\ CarriedOrAbove(s2, j - 1, k, s2[j].auth[k])
  BY <1>1 DEF FreshFor
<1>2. \A p \in 0..N : \A h : CarriedOrAbove(s, p, k, h) => CarriedOrAbove(s2, p, k, h)
  BY <1>1 DEF CarriedOrAbove
<1>3. CASE j \in 1..N
  <2>1. s[j].auth[k].nc \in 1..cnt[s[j].auth[k].nonce] /\ CarriedOrAbove(s, j - 1, k, s[j].auth[k])
    BY <1>1, <1>3 DEF FreshFor
  <2>. QED  BY <1>1, <1>2, <1>3, <2>1
<1>4. CASE j = N + 1
  BY <1>1, <1>2, <1>4
<1>. QED  BY <1>1, <1>3, <1>4

\* What create_authenticated_request keeps and changes.
LEMMA ReissueShape ==
    ASSUME NEW a \in Request, NEW k \in Kinds, NEW b \in Branches,
           NEW cred \in Credential
    PROVE  LET q == Reissue(a, k, b, cred) IN
             /\ q \in Request
             /\ q.method = a.method /\ q.call_id = a.call_id
             /\ q.from_tag = a.from_tag /\ q.to = a.to
             /\ q.cseq = a.cseq + 1 /\ q.branch = b
             /\ q.auth[k] = cred
             /\ \A o \in Kinds \ {k} : q.auth[o] = a.auth[o]
<1> DEFINE AS == [www : Credential \cup {NoCred}, proxy : Credential \cup {NoCred}]
<1>1. a.auth \in AS /\ a.cseq \in Nat
  BY DEF Request
<1>2. PICK a1 \in AS : a1 = [a.auth EXCEPT ![k] = cred]
  BY <1>1 DEF Kinds
<1>3. PICK c1 \in Nat : c1 = a.cseq + 1
  BY <1>1
<1>4. Reissue(a, k, b, cred) = [a EXCEPT !.branch = b, !.cseq = c1, !.auth = a1]
  BY <1>2, <1>3 DEF Reissue
<1>5. a1[k] = cred /\ \A o \in Kinds \ {k} : a1[o] = a.auth[o]
  BY <1>1, <1>2 DEF Kinds
<1>. QED  BY <1>3, <1>4, <1>5 DEF Request

\* The initial state has sent nothing.
LEMMA InitAInv == Init => AInv
BY InitIInv DEF Init, AInv, BranchesUsed, ReissueOfChallenged, NonceCountsFresh

\* The conjuncts a step keeps when it sends nothing and hands out no id:
\* it only adds answered requests and may raise nonce counts.
LEMMA NoSendAInv ==
    ASSUME AInv, IInv', UNCHANGED <<sent, usedIds>>,
           answered \subseteq answered',
           \A m \in Nonces : nonceCount[m] <= nonceCount'[m]
    PROVE  AInv'
<1>1. BranchesUsed' /\ ReissueOfChallenged'
  BY DEF AInv, BranchesUsed, ReissueOfChallenged
<1>2. NonceCountsFresh'
  <2>1. sent \in Seq(Request) /\ nonceCount \in [Nonces -> Nat]
        /\ nonceCount' \in [Nonces -> Nat]
    BY DEF AInv, IInv, TypeOK
  <2>2. FreshFor(sent, nonceCount)
    BY FreshForIs DEF AInv
  <2>3. FreshFor(sent, nonceCount')
    BY <2>1, <2>2, FreshMono
  <2>. QED  BY <2>3, FreshForIs
<1>. QED  BY <1>1, <1>2 DEF AInv

\* A step that sends a request without credentials (a new request of
\* send_options/send_invite/send_register, or a BYE) on a branch uuid4()
\* handed out.
LEMMA AppendPlainAInv ==
    ASSUME AInv, IInv', NEW req \in Request, req.auth = NoAuth,
           sent' = Append(sent, req), req.branch \in usedIds',
           usedIds \subseteq usedIds', answered' = answered,
           nonceCount' = nonceCount
    PROVE  AInv'
<1> DEFINE N == Len(sent)
<1>1. sent \in Seq(Request) /\ nonceCount \in [Nonces -> Nat]
  BY DEF AInv, IInv, TypeOK
<1>2. /\ Len(sent') = N + 1
      /\ \A j \in 1..N : sent'[j] = sent[j]
      /\ sent'[N + 1] = req
  BY <1>1, AppendRequest
<1>3. BranchesUsed'
  BY <1>2 DEF AInv, BranchesUsed
<1>4. ReissueOfChallenged'
  <2> SUFFICES ASSUME NEW j \in DOMAIN sent', sent'[j].auth # NoAuth
               PROVE  \E i \in 1..(j - 1) :
                         i \in answered' /\ IsReissueOf(sent'[i], sent'[j])
    BY DEF ReissueOfChallenged
  <2>1. DOMAIN sent' = 1..N + 1 /\ DOMAIN sent = 1..N
    BY <1>1, <1>2 DEF IInv, TypeOK
  <2>2. j \in 1..N
    BY <1>2, <2>1
  <2>3. PICK i \in 1..(j - 1) : i \in answered /\ IsReissueOf(sent[i], sent[j])
    BY <2>1, <2>2 DEF AInv, ReissueOfChallenged
  <2>. QED  BY <1>2, <2>2, <2>3
<1>5. NonceCountsFresh'
  <2>1. FreshFor(sent, nonceCount)
    BY FreshForIs DEF AInv
  <2>2. \A k \in Kinds : req.auth[k] = NoCred
    BY DEF NoAuth, Kinds
  <2>3. FreshFor(Append(sent, req), nonceCount)
    BY <1>1, <2>1, <2>2, FreshAppend
  <2>. QED  BY <2>3, FreshForIs
<1>. QED  BY <1>3, <1>4, <1>5 DEF AInv

\* A challenge of request i.  Without credentials for the realm, or with
\* an algorithm _hash_function does not know, nothing is sent (a count may
\* be used up).  Otherwise the re-issue is sent on a fresh branch with the
\* header of the challenge's kind set to a credential carrying nonce n's
\* incremented count; the other header is copied from request i.
LEMMA ChallengeAInv ==
    ASSUME AInv, NEW i \in DOMAIN sent, NEW k \in Kinds, NEW r \in Realms,
           NEW n \in Nonces, NEW a \in Algorithms, ReceiveChallenge(i, k, r, n, a)
    PROVE  AInv'
<1> DEFINE N == Len(sent)
<1>0. IInv'
  BY ReceiveChallengeIInv DEF AInv, Kinds
<1>1. /\ sent \in Seq(Request) /\ DOMAIN sent = 1..N
      /\ nonceCount \in [Nonces -> Nat]
      /\ i \in 1..N /\ sent[i] \in Request
      /\ answered' = answered \cup {i}
  BY DEF AInv, IInv, TypeOK, ReceiveChallenge
<1>2. CASE r \notin creds \/ ~HashSupported(a)
  <2>1. /\ UNCHANGED <<sent, usedIds>>
        /\ nonceCount' \in {nonceCount, [nonceCount EXCEPT ![n] = nonceCount[n] + 1]}
    BY <1>2 DEF ReceiveChallenge, NextNonceCount
  <2>2. \A m \in Nonces : nonceCount[m] <= nonceCount'[m]
    BY <1>1, <2>1
  <2>. QED  BY <1>0, <1>1, <2>1, <2>2, NoSendAInv
<1>3. CASE r \in creds /\ HashSupported(a)
  <2> DEFINE b0 == NewId(Branches)
             cred == [realm |-> r, nonce |-> n, nc |-> NextNonceCount(n)]
             req == Reissue(sent[i], k, b0, cred)
  <2>1. /\ nonceCount' = [nonceCount EXCEPT ![n] = nonceCount[n] + 1]
        /\ sent' = Append(sent, req)
        /\ usedIds' = usedIds \cup {b0}
        /\ b0 \in Branches /\ b0 \notin usedIds
    BY <1>3, NewIdFresh DEF ReceiveChallenge, NextNonceCount
  <2>2. cred \in Credential /\ cred # NoCred /\ cred.nonce = n
        /\ cred.nc = nonceCount[n] + 1
    BY <1>1 DEF NextNonceCount, Credential, NoCred
  <2>3. /\ req \in Request
        /\ req.method = sent[i].method /\ req.call_id = sent[i].call_id
        /\ req.from_tag = sent[i].from_tag /\ req.to = sent[i].to
        /\ req.cseq = sent[i].cseq + 1 /\ req.branch = b0
        /\ req.auth[k] = cred
        /\ \A o \in Kinds \ {k} : req.auth[o] = sent[i].auth[o]
    BY <1>1, <2>1, <2>2, ReissueShape
  <2>4. /\ Len(sent') = N + 1
        /\ \A j \in 1..N : sent'[j] = sent[j]
        /\ sent'[N + 1] = req
        /\ sent' \in Seq(Request)
    BY <1>1, <2>1, <2>3, AppendRequest
  <2>5. BranchesUsed'
    BY <2>1, <2>3, <2>4 DEF AInv, BranchesUsed
  <2>6. ReissueOfChallenged'
    <3> SUFFICES ASSUME NEW j \in DOMAIN sent', sent'[j].auth # NoAuth
                 PROVE  \E x \in 1..(j - 1) :
                           x \in answered' /\ IsReissueOf(sent'[x], sent'[j])
      BY DEF ReissueOfChallenged
    <3>1. DOMAIN sent' = 1..N + 1
      BY <2>4
    <3>2. CASE j \in 1..N
      <4>1. PICK x \in 1..(j - 1) : x \in answered /\ IsReissueOf(sent[x], sent[j])
        BY <1>1, <3>2, <2>4 DEF AInv, ReissueOfChallenged
      <4>. QED  BY <1>1, <2>4, <3>2, <4>1
    <3>3. CASE j = N + 1
      <4>1. sent[i].branch # b0
        BY <1>1, <2>1 DEF AInv, BranchesUsed
      <4>2. IsReissueOf(sent[i], req)
        BY <2>2, <2>3, <4>1 DEF IsReissueOf, Kinds
      <4>. QED  BY <1>1, <2>4, <3>3, <4>2
    <3>. QED  BY <3>1, <3>2, <3>3
  <2>7. NonceCountsFresh'
    <3>1. nonceCount' \in [Nonces -> Nat] /\ \A m \in Nonces : nonceCount[m] <= nonceCount'[m]
      BY <1>1, <2>1
    <3>2. FreshFor(sent, nonceCount)
      BY FreshForIs DEF AInv
    <3>3. FreshFor(sent, nonceCount')
      BY <1>1, <3>1, <3>2, FreshMono
    \* The new header: its count is nonce_count[n] after the increment, and
    \* every count sent before with nonce n is at most the old nonce_count[n].
    <3>4. /\ cred.nc \in 1..nonceCount'[cred.nonce]
          /\ CarriedOrAbove(sent, N, k, cred)
      <4>1. cred.nc \in 1..nonceCount'[cred.nonce]
        BY <1>1, <2>1, <2>2
      <4>2. ASSUME NEW x \in 1..N, NEW o \in Kinds,
                   sent[x].auth[o] # NoCred, sent[x].auth[o].nonce = n
            PROVE  sent[x].auth[o].nc < cred.nc
        <5>1. sent[x].auth[o].nc \in 1..nonceCount[n]
          BY <1>1, <3>2, <4>2 DEF FreshFor
        <5>. QED  BY <1>1, <2>2, <5>1
      <4>. QED  BY <2>2, <4>1, <4>2 DEF CarriedOrAbove
    \* The other header is request i's, already within the raised counts.
    <3>5. ASSUME NEW o \in Kinds \ {k}, req.auth[o] # NoCred
          PROVE  /\ req.auth[o].nc \in 1..nonceCount'[req.auth[o].nonce]
                 /\ CarriedOrAbove(sent, N, o, req.auth[o])
      <4>1. req.auth[o] = sent[i].auth[o] /\ sent[i].auth[o] # NoCred
        BY <2>3, <3>5
      <4>2. sent[i].auth[o].nc \in 1..nonceCount'[sent[i].auth[o].nonce]
        BY <1>1, <3>3, <4>1 DEF FreshFor
      <4>. QED  BY <1>1, <4>1, <4>2 DEF CarriedOrAbove
    <3>6. \A kk \in Kinds : req.auth[kk] # NoCred =>
             /\ req.auth[kk].nc \in 1..nonceCount'[req.auth[kk].nonce]
             /\ CarriedOrAbove(sent, Len(sent), kk, req.auth[kk])
      BY <2>3, <3>4, <3>5
    <3>7. FreshFor(Append(sent, req), nonceCount')
      BY <1>1, <2>3, <3>1, <3>3, <3>6, FreshAppend
    <3>. QED  BY <2>1, <3>7, FreshForIs
  <2>. QED  BY <1>0, <2>5, <2>6, <2>7 DEF AInv
<1>. QED  BY <1>2, <1>3

\* Every step of the UA keeps AInv.
LEMMA NextAInv == AInv /\ [Next]_vars => AInv'
<1> SUFFICES ASSUME AInv, [Next]_vars PROVE AInv'
  OBVIOUS
<1>0. IInv /\ IInv'
  BY NextIInv DEF AInv
<1>u. UNCHANGED nonceCount => \A m \in Nonces : nonceCount[m] <= nonceCount'[m]
  BY DEF AInv, IInv, TypeOK
<1>1. ASSUME NEW m \in Methods, SendRequest(m)
      PROVE  AInv'
  <2> DEFINE req == [method |-> m, from |-> "self",
                     to |-> IF m = "REGISTER" THEN "self" ELSE "peer",
                     call_id |-> NewId(CallIds), from_tag |-> NewId(Tags),
                     to_tag |-> NONE, cseq |-> 1, branch |-> NewId(Branches),
                     auth |-> NoAuth]
  <2>1. NewId(CallIds) \in CallIds /\ NewId(Tags) \in Tags
        /\ NewId(Branches) \in Branches
    BY <1>1, NewIdFresh DEF SendRequest
  <2>2. req \in Request
    BY <2>1 DEF Request, Methods, NoAuth, NoCred
  <2>3. /\ sent' = Append(sent, req)
        /\ usedIds' = usedIds \cup {NewId(CallIds), NewId(Tags), NewId(Branches)}
        /\ UNCHANGED <<answered, nonceCount>>
    BY <1>1 DEF SendRequest
  <2>. QED  BY <1>0, <2>2, <2>3, AppendPlainAInv
<1>2. ASSUME NEW r \in Realms, AddCredentials(r)
      PROVE  AInv'
  BY <1>0, <1>2, <1>u, NoSendAInv DEF AddCredentials
<1>3. ASSUME NEW i \in DOMAIN sent, NEW k \in {"www", "proxy"}, NEW r \in Realms,
             NEW n \in Nonces, NEW a \in Algorithms, ReceiveChallenge(i, k, r, n, a)
      PROVE  AInv'
  BY <1>3, ChallengeAInv DEF Kinds
<1>4. ASSUME NEW i \in DOMAIN sent, NEW st \in {"2xx", "3xx-6xx"}, ReceiveFinal(i, st)
      PROVE  AInv'
  BY <1>0, <1>4, <1>u, NoSendAInv DEF ReceiveFinal
<1>5. ASSUME NEW pi \in PeerInvites, NEW c \in PeerCSeqs, ReceiveInvite(pi, c)
      PROVE  AInv'
  BY <1>0, <1>5, <1>u, NoSendAInv DEF ReceiveInvite
<1>6. ASSUME NEW d \in DOMAIN dialogs, SendBye(d)
      PROVE  AInv'
  <2> DEFINE dl == dialogs[d]
             req == [method |-> "BYE", from |-> dl.local_uri, to |-> dl.remote_uri,
                     call_id |-> dl.call_id, from_tag |-> dl.local_tag,
                     to_tag |-> dl.remote_tag, cseq |-> dl.local_cseq + 1,
                     branch |-> NewId(Branches), auth |-> NoAuth]
  <2>1. dl \in Dialog /\ NewId(Branches) \in Branches
    BY <1>0, <1>6, NewIdFresh DEF SendBye, IInv, TypeOK
  <2>2. req \in Request
    BY <2>1 DEF Request, Dialog, NoAuth, NoCred
  <2>3. /\ sent' = Append(sent, req)
        /\ usedIds' = usedIds \cup {NewId(Branches)}
        /\ UNCHANGED <<answered, nonceCount>>
    BY <1>6 DEF SendBye
  <2>. QED  BY <1>0, <2>2, <2>3, AppendPlainAInv
<1>7. CASE UNCHANGED vars
  BY <1>0, <1>7, <1>u, NoSendAInv DEF vars
<1>. QED  BY <1>1, <1>2, <1>3, <1>4, <1>5, <1>6, <1>7 DEF Next

(***************************************************************************)
(* ReissueOfChallenged, checked by the requests run, for every instance:  *)
(* every request that carries an Authorization or Proxy-Authorization     *)
(* header re-issues an earlier request that was challenged, with its      *)
(* method, Call-ID, From tag and To, CSeq + 1 and a branch of its own, so *)
(* TransactionManager starts a new client transaction for it.            *)
(***************************************************************************)
THEOREM ReissueChallenged == Spec => []ReissueOfChallenged
<1>1. AInv => ReissueOfChallenged
  BY DEF AInv
<1>. QED  BY InitAInv, NextAInv, <1>1, PTL DEF Spec

(***************************************************************************)
(* NonceCountsFresh, checked by the requests run, for every instance:     *)
(* _get_nonce_count never hands a nonce count out twice or goes back.      *)
(* Every Authorization or Proxy-Authorization header sent is either a     *)
(* copy create_authenticated_request carried over, or carries a count     *)
(* above every count sent before with its nonce and within nonce_count,   *)
(* also when attempts that failed on an unknown algorithm used counts up. *)
(***************************************************************************)
THEOREM NonceCounts == Spec => []NonceCountsFresh
<1>1. AInv => NonceCountsFresh
  BY DEF AInv
<1>. QED  BY InitAInv, NextAInv, <1>1, PTL DEF Spec

=============================================================================
