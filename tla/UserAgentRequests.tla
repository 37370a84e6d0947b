--------------------------- MODULE UserAgentRequests ---------------------------
(***************************************************************************)
(* The requests a tiny-sip SIPUserAgent (src/tinysip/fsm.py) sends and the  *)
(* dialogs it keeps, against a peer that answers, challenges and calls.    *)
(*                                                                         *)
(*  - the request builders (_create_options/invite/register/bye_request)   *)
(*    with fresh Call-ID, From tag and branch, and CSeq 1;                 *)
(*  - the 401/407 path: on_final_response -> _handle_authentication_       *)
(*    challenge -> SIPDigestAuthentication.create_authenticated_request    *)
(*    (src/tinysip/auth.py), with its per-nonce nonce count;              *)
(*  - the DialogManager: create_dialog_from_request for a received INVITE, *)
(*    the dialog lookup of on_final_response, and send_bye.              *)
(*                                                                         *)
(* Transactions are TransactionLayer's business: here a request, once     *)
(* sent, may get one final response.  uuid4() values are drawn from finite *)
(* pools of model values.  Digest hashes are left out: an Authorization    *)
(* header is its realm, nonce and nonce count.                            *)
(***************************************************************************)
EXTENDS Naturals, Sequences, FiniteSets

CONSTANTS
    CallIds,      \* Call-IDs uuid4() may give this UA
    Tags,         \* From tags uuid4() may give this UA
    Branches,     \* Via branches uuid4() may give this UA
    PeerInvites,  \* the peer's INVITE identities: [call_id, from_tag]
    PeerCSeqs,    \* CSeq numbers the peer's INVITEs carry
    Realms,       \* realms the peer challenges with
    Nonces,       \* nonces the peer challenges with
    MaxCSeq       \* bound on the CSeq of BYEs this UA sends

\* The peer's Call-IDs come from its own uuid4() and are none of this UA's.
ASSUME ConstantsAssumption ==
    /\ PeerCSeqs \subseteq Nat \ {0}
    /\ MaxCSeq \in Nat
    /\ \A pi \in PeerInvites : pi.call_id \notin CallIds

NONE == "NONE"
PeerTag == "peer-tag"

\* An Authorization or Proxy-Authorization header: realm, nonce and the
\* nonce count it was generated with (auth.py:71-81).
Credential == [realm : Realms, nonce : Nonces, nc : Nat]
NoCred == [realm |-> NONE, nonce |-> NONE, nc |-> 0]
NoAuth == [www |-> NoCred, proxy |-> NoCred]

VARIABLES
    sent,        \* the requests this UA has sent, in order
    answered,    \* indices of sent requests whose final response arrived
    dialogs,     \* DialogManager._dialogs: dialog id -> SIPDialog
    nonceCount,  \* SIPDigestAuthentication.nonce_count
    creds,       \* realms of SIPDigestAuthentication.credentials
    usedIds      \* uuid4() values handed out so far

vars == <<sent, answered, dialogs, nonceCount, creds, usedIds>>

Methods == {"INVITE", "OPTIONS", "REGISTER"}

Fresh(S) == S \ usedIds

\* uuid4(): a value not handed out before.  Which one is immaterial, since
\* ids are only ever compared for equality, so the model takes one.
NewId(S) == CHOOSE x \in Fresh(S) : TRUE

-----------------------------------------------------------------------------
(***************************************************************************)
(* send_options / send_invite / send_register and their builders: a new   *)
(* Call-ID, From tag and branch, CSeq 1, no To tag.  REGISTER is addressed *)
(* To this UA's own AoR ("To = From in REGISTER"), the others To the       *)
(* target.                                                                 *)
(***************************************************************************)
\* Mutant: one fixed Call-ID for every request, as if cached in the UA.
SendRequestReusedCallId(m) ==
    /\ Fresh(Tags) # {} /\ Fresh(Branches) # {}
    /\ LET cid == CHOOSE x \in CallIds : TRUE
           tag == NewId(Tags)
           br == NewId(Branches)
       IN
        /\ sent' = Append(sent,
                          [method |-> m, from |-> "self",
                           to |-> IF m = "REGISTER" THEN "self" ELSE "peer",
                           call_id |-> cid, from_tag |-> tag, to_tag |-> NONE,
                           cseq |-> 1, branch |-> br, auth |-> NoAuth])
        /\ usedIds' = usedIds \cup {cid, tag, br}
        /\ UNCHANGED <<answered, dialogs, nonceCount, creds>>

SendRequest(m) ==
    /\ Fresh(CallIds) # {} /\ Fresh(Tags) # {} /\ Fresh(Branches) # {}
    /\ LET cid == NewId(CallIds)
           tag == NewId(Tags)
           br == NewId(Branches)
       IN
        /\ sent' = Append(sent,
                          [method |-> m, from |-> "self",
                           to |-> IF m = "REGISTER" THEN "self" ELSE "peer",
                           call_id |-> cid, from_tag |-> tag, to_tag |-> NONE,
                           cseq |-> 1, branch |-> br, auth |-> NoAuth])
        /\ usedIds' = usedIds \cup {cid, tag, br}
        /\ UNCHANGED <<answered, dialogs, nonceCount, creds>>

\* add_credentials.
AddCredentials(r) ==
    /\ r \notin creds
    /\ creds' = creds \cup {r}
    /\ UNCHANGED <<sent, answered, dialogs, nonceCount, usedIds>>

\* Mutant: the count read without the increment.
NextNonceCountStale(n) == nonceCount[n]

\* _get_nonce_count: the count of nonce n after it is incremented.
NextNonceCount(n) == nonceCount[n] + 1

\* Mutant: the Via copied with the other headers, so the branch is kept.
ReissueSameBranch(req, kind, br, cred) ==
    [req EXCEPT !.cseq = @ + 1, !.auth[kind] = cred]

\* create_authenticated_request for request req, challenged by a 401
\* (kind "www") or a 407 (kind "proxy"): all headers but Via copied, a
\* new branch, the header of that kind set to cred, CSeq + 1.
Reissue(req, kind, br, cred) ==
    [req EXCEPT !.branch = br, !.cseq = @ + 1, !.auth[kind] = cred]

\* The algorithm= parameters a challenge may carry (absent means MD5).
Algorithms == {"MD5", "SHA-256", "AKAv1-MD5"}

\* _hash_function knows the MD5 and SHA-256 families and raises otherwise.
HashSupported(alg) == alg \in {"MD5", "SHA-256"}

(***************************************************************************)
(* The i-th request is challenged with realm r, nonce n and algorithm alg, *)
(* by a 401 or a 407 (on_final_response -> _handle_authentication_       *)
(* challenge).  Without credentials for r, generate_authorization_header  *)
(* raises before it touches nonce_count.  With them, _get_nonce_count     *)
(* increments the count of n first; then _calculate_response hashes, and *)
(* for an algorithm _hash_function does not know it raises.  Either       *)
(* exception is caught in handle_authentication_challenge, create_        *)
(* authenticated_request returns the original request and the UA gives up *)
(* (fsm.py:1247).  Otherwise the re-issued request starts a new client    *)
(* transaction.                                                           *)
(***************************************************************************)
ReceiveChallenge(i, kind, r, n, alg) ==
    /\ i \notin answered
    /\ answered' = answered \cup {i}
    /\ IF r \in creds
         THEN /\ nonceCount' = [nonceCount EXCEPT ![n] = NextNonceCount(n)]
              /\ IF HashSupported(alg)
                   THEN LET br == NewId(Branches) IN
                          /\ Fresh(Branches) # {}
                          /\ sent' = Append(sent,
                                            Reissue(sent[i], kind, br,
                                                    [realm |-> r, nonce |-> n,
                                                     nc |-> NextNonceCount(n)]))
                          /\ usedIds' = usedIds \cup {br}
                   ELSE UNCHANGED <<sent, usedIds>>
         ELSE UNCHANGED <<sent, nonceCount, usedIds>>
    /\ UNCHANGED <<dialogs, creds>>

\* update_dialog_from_response for a final response: a 2xx (whose To tag
\* the peer sets) confirms the dialog, a 3xx-6xx terminates it.
UpdateDialog(dlg, status) ==
    IF status = "2xx"
      THEN [dlg EXCEPT !.remote_tag = PeerTag, !.state = "CONFIRMED"]
      ELSE [dlg EXCEPT !.state = "TERMINATED"]

(***************************************************************************)
(* Any other final response to the i-th request.  For an INVITE,          *)
(* on_final_response looks the dialog up with get_dialog(tx_id), tx_id     *)
(* being the branch, and updates it if there is one.                      *)
(***************************************************************************)
ReceiveFinal(i, status) ==
    /\ i \notin answered
    /\ answered' = answered \cup {i}
    /\ dialogs' = IF sent[i].method = "INVITE" /\ sent[i].branch \in DOMAIN dialogs
                    THEN [dialogs EXCEPT ![sent[i].branch] = UpdateDialog(@, status)]
                    ELSE dialogs
    /\ UNCHANGED <<sent, nonceCount, creds, usedIds>>

(***************************************************************************)
(* An INVITE from the peer: on_request_received ->                        *)
(* create_dialog_from_request.  The id is Call-ID and the From tag; the   *)
(* From URI and tag are stored as the local ones, the To URI as the remote *)
(* one, the request's CSeq as local_cseq; a dialog with the same id (a     *)
(* re-INVITE) is replaced.                                                 *)
(***************************************************************************)
ReceiveInvite(pi, cseq) ==
    LET id == <<pi.call_id, pi.from_tag>> IN
    /\ dialogs' = [d \in DOMAIN dialogs \cup {id} |->
                     IF d = id
                       THEN [state |-> "INITIAL", local_uri |-> "peer",
                             remote_uri |-> "self", local_tag |-> pi.from_tag,
                             remote_tag |-> NONE, call_id |-> pi.call_id,
                             local_cseq |-> cseq]
                       ELSE dialogs[d]]
    /\ UNCHANGED <<sent, answered, nonceCount, creds, usedIds>>

(***************************************************************************)
(* send_bye -> _create_bye_request: local_cseq is incremented in the      *)
(* dialog and the BYE goes From local_uri;tag=local_tag To                 *)
(* remote_uri;tag=remote_tag on a new branch.                              *)
(***************************************************************************)
SendBye(d) ==
    /\ dialogs[d].local_cseq < MaxCSeq
    /\ Fresh(Branches) # {}
    /\ LET br == NewId(Branches) IN
         /\ dialogs' = [dialogs EXCEPT ![d].local_cseq = @ + 1]
         /\ sent' = Append(sent,
                           [method |-> "BYE", from |-> dialogs[d].local_uri,
                            to |-> dialogs[d].remote_uri, call_id |-> dialogs[d].call_id,
                            from_tag |-> dialogs[d].local_tag,
                            to_tag |-> dialogs[d].remote_tag,
                            cseq |-> dialogs[d].local_cseq + 1, branch |-> br,
                            auth |-> NoAuth])
         /\ usedIds' = usedIds \cup {br}
    /\ UNCHANGED <<answered, nonceCount, creds>>

Init ==
    /\ sent = <<>>
    /\ answered = {}
    /\ dialogs = [d \in {} |-> NONE]
    /\ nonceCount = [n \in Nonces |-> 0]
    /\ creds = {}
    /\ usedIds = {}

Next ==
    \/ \E m \in Methods : SendRequest(m)
    \/ \E r \in Realms : AddCredentials(r)
    \/ \E i \in DOMAIN sent, k \in {"www", "proxy"}, r \in Realms, n \in Nonces,
          a \in Algorithms :
          ReceiveChallenge(i, k, r, n, a)
    \/ \E i \in DOMAIN sent, st \in {"2xx", "3xx-6xx"} : ReceiveFinal(i, st)
    \/ \E pi \in PeerInvites, c \in PeerCSeqs : ReceiveInvite(pi, c)
    \/ \E d \in DOMAIN dialogs : SendBye(d)

Spec == Init /\ [][Next]_vars

-----------------------------------------------------------------------------
(***************************************************************************)
(* Properties                                                              *)
(***************************************************************************)

\* Request b is a re-issue of request a for one challenge: same method,
\* Call-ID, From tag and To, CSeq one higher, a different branch, and one
\* of the two authorization headers replaced, the other carried over.
IsReissueOf(a, b) ==
    /\ b.method = a.method /\ b.call_id = a.call_id
    /\ b.from_tag = a.from_tag /\ b.to = a.to
    /\ b.cseq = a.cseq + 1
    /\ b.branch # a.branch
    /\ \E k \in {"www", "proxy"} :
          /\ b.auth[k] # NoCred
          /\ \A o \in {"www", "proxy"} \ {k} : b.auth[o] = a.auth[o]

\* Every request that carries credentials (create_authenticated_request's
\* output) re-issues, in the same Call-ID and CSeq space, an earlier request
\* that was challenged, on a branch of its own so that it starts a new client
\* transaction instead of being taken for the challenged one.
ReissueOfChallenged ==
    \A j \in DOMAIN sent :
        sent[j].auth # NoAuth =>
            \E i \in 1..(j - 1) : i \in answered /\ IsReissueOf(sent[i], sent[j])

\* Every authorization header sent is either carried over from an earlier
\* request (create_authenticated_request copies all headers but Via) or was
\* generated with a count above every count sent before with its nonce, and
\* no count exceeds nonce_count[n]: _get_nonce_count never hands a count
\* out twice or goes back, across re-issues and across attempts that used a
\* count up and then failed on an unknown algorithm (so counts may be
\* skipped, which RFC 2617 allows; a server only needs them to increase).
NonceCountsFresh ==
    \A j \in DOMAIN sent, k \in {"www", "proxy"} :
        LET c == sent[j].auth[k] IN
        c # NoCred =>
            /\ c.nc \in 1..nonceCount[c.nonce]
            /\ \/ \E i \in 1..(j - 1) : sent[i].auth[k] = c
               \/ \A i \in 1..(j - 1), o \in {"www", "proxy"} :
                     sent[i].auth[o] # NoCred /\ sent[i].auth[o].nonce = c.nonce
                        => sent[i].auth[o].nc < c.nc

\* Along one of this UA's own Call-IDs (a request and the re-issues that
\* challenges cause) CSeq strictly increases in the order of sending, as
\* RFC 3261 8.1.3.5 and 22.2 require of a UAC that retries with credentials.
CSeqIncreasesPerCall ==
    \A i, j \in DOMAIN sent :
        /\ i < j
        /\ sent[i].call_id = sent[j].call_id
        /\ sent[i].call_id \in CallIds
        => sent[i].cseq < sent[j].cseq

=============================================================================
