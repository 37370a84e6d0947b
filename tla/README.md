# TLA+ models of tiny-sip

This directory holds TLA+ models of the tiny-sip SIP stack (`src/tinysip`),
TLC configurations that model-check them on small instances, and TLAPS proofs
of their main invariants for every instance.

## The system

tiny-sip is a single-process asyncio SIP user agent. Its parts and how they
interact:

| Part | Source | State | Operations |
|---|---|---|---|
| Transactions | `fsm.py` `SIPTransaction`, `InviteClientTransaction` (ICT), `NonInviteClientTransaction` (NICT), `InviteServerTransaction` (IST), `NonInviteServerTransaction` (NIST) | state, armed timer tasks, retransmission counter, stored request/response | `start`, `process_message`, `send_final_response`, `_on_timer_fired`, `_handle_retransmission`, `_cleanup` |
| Transaction manager | `fsm.py` `TransactionManager` | `_transactions`: branch → transaction | `create_client_transaction`, `create_server_transaction`, `process_request`, `process_response`, `send_response`, `cleanup_transaction` |
| User agent | `fsm.py` `SIPUserAgent` | the manager, the dialog manager and the authenticator | callbacks `on_request_received`, `on_final_response`, `on_timeout`, `on_terminated`; `send_options/invite/register/bye`, `add_credentials`, `_handle_authentication_challenge` |
| Dialogs | `fsm.py` `DialogManager` | dialogs by Call-ID and tags | `create_dialog_from_request`, `update_dialog_from_response`, `terminate_dialog` |
| Digest auth | `auth.py` `SIPDigestAuthentication` | credentials per realm, nonce counts | `add_credentials`, `create_authenticated_request` |
| Transport | `transport.py` | sockets, TCP buffers | UDP `datagram_received` creates one task per datagram; TCP frames by Content-Length |
| SDP | `sdp.py` | none (pure functions) | parse, build offer/answer, negotiate codecs |
| Messages | `message.py` | none | parse/encode SIP text |
| Facade, DNS, media, logging | `client.py`, `dns.py`, `media/*`, `logging_utils.py`, `ladder.py`, `call_flow.py` | | |

How the parts interact, and why it is hard:

- Every inbound datagram is handled in a task of its own.
- Every timer is a task that sleeps and then calls `_on_timer_fired`.
- Entering TERMINATED creates a separate `_cleanup` task. That task cancels the timers and then calls `on_terminated` → `cleanup_transaction`, which deletes the branch from the table.
- The INVITE handler of the UA sleeps for one second between its 100 Trying and its 200 OK.

So responses, retransmitted requests, ACKs, timer expiries, cleanups and the
sleeping handler interleave in any order. The peer may also lose, duplicate or
reorder messages.

## Modules

### `TransactionLayer.tla`: transactions, manager and UA callbacks

The constants are:

- `LocalBranch`: the branches our requests use.
- `RemoteBranch`: the branches the peer uses.
- `RemoteMethod`: the method of each peer branch.
- `Realm`.
- `MaxRetransmissions`: `_max_retransmissions`, which is 7 in the code.

The variables map to the code as follows:

| Variable | Code |
|---|---|
| `table` | `TransactionManager._transactions` keys |
| `tx[b]` | the transaction object under branch `b`: kind, state, armed timers (`_active_timers`), `_retransmission_count`, stored response class, method |
| `cleanupTasks[b]` | `_cleanup` tasks created by `_transition_to(TERMINATED)` and not yet run |
| `answering` | INVITE handlers asleep in `asyncio.sleep(1)` |
| `creds` | realms with credentials |
| `dialogs` | dialogs created by inbound INVITEs |
| `finals[b]` | calls of `on_final_response` |
| `timeoutReported` | Timer B/F expiries |

The data is abstracted. A status code is one representative per class the code
tells apart: 180, 200, 401 and 486. A message is its branch plus its method or
status. Timer durations are abstracted away: an armed timer may fire at any
later step, which covers every timing the code allows.

The actions, one per handler:

- `SendRequest`: `send_*` → `create_client_transaction` → `ICT/NICT.start`.
- `ReceiveResponse`: `process_response` → `process_message` → `on_final_response`.
- `ReceiveChallenge`: a 401/407. It re-issues the request on a fresh branch if the realm has credentials.
- `AddCredentials`.
- `ReceiveRequest`: `process_request` / `create_server_transaction` → `start` → `on_request_received`. This runs up to the sleep. The 100 Trying goes through `send_final_response`.
- `ReceiveAck`: an ACK matched to an IST.
- `AnswerInvite`: the handler wakes and calls `send_response(200)`.
- `FireTimer`: `_on_timer_fired`, in one of three forms:
  - `TimerTerminates`: B, D, F, I, J, K;
  - `HandleRetransmission`: A, E, G, with the cap;
  - `TimerIgnored`: H and L have no branch.
- `Cleanup`: the `_cleanup` task, together with `cleanup_transaction`.

A request on a branch that is no longer in the table starts a new
transaction, as in the code.

### `TransactionLifecycle.tla`: what the transaction layer promises

This is the abstract specification of the transaction layer, as the UA sees
one Via branch. Its state is:

- `life[b]`: `unused` (no transaction object yet), `live`, `terminated`
  (after `_transition_to(TERMINATED)`) or `gone` (deleted by
  `cleanup_transaction`);
- `delivered`: our branches whose final response reached `on_final_response`.

Its actions are these:

- `Start`: an unused branch, or a peer branch that is gone, gets a live transaction;
- `Deliver`: a live, undelivered branch of ours delivers, staying live or terminating;
- `DeliverAndReissue`: the same, and a delivered 401/407 starts an unused branch;
- `Terminate`;
- `Remove`: only from `terminated`, weakly fair.

`TransactionLayer` maps onto it with `LifeOf(b)`, read off the stored
transaction's kind and state and the table. `delivered` maps to the branches
with `finals[b] > 0`. The instance is `Lifecycle == INSTANCE
TransactionLifecycle WITH ...`, and `LifecycleRefined == Lifecycle!LSpec` is
checked as a PROPERTY of the client and server runs. Every other step of the
layer is a stutter of the abstraction:

- provisional responses;
- ACKs;
- retransmissions below the cap;
- the 200 OK of the sleeping INVITE handler;
- a second cleanup task on a branch that is already gone.

### `RetransmissionTimers.tla`: the retransmission schedule in time

`TransactionLayer` drops timer durations. This module keeps them for one client
transaction, from `start()` until `_cleanup()`.

- `now` is the loop's clock in integer units. With the defaults T1 = 0.5 s and
  T2 = 4 s, a unit is 0.5 s, so T1 = 1 and T2 = 8.
- `timers` maps each armed timer to its expiry time (`_active_timers`).
- `Tick` moves the clock to the earliest pending expiry or response, and only
  when nothing is due. The asyncio loop sleeps in the same way.
- `FireRetransmit` is `_handle_retransmission`. It tests the cap, increments
  the count, resends, and re-arms with `min(T2, 2**count * T1)`.
- `FireTimeout` is Timer B/F. `Cleanup` is the cleanup task.
- `ReceiveResponse` is `process_message`. A 1xx in TRYING goes to PROCEEDING and stops A/E. A 2xx in TRYING or PROCEEDING goes to ACCEPTED (ICT, with Timer L) or TERMINATED (NICT). B/F are cancelled only from TRYING.
- The network drops the first `loss` requests (`loss` in `0..MaxLoss`). The peer
  replies to every later one after `latency`, in one of three ways: a 2xx, only a 1xx
  (a phone left ringing), or a 1xx and a 2xx `RingTime` later.

`RefSendTime` is the spec's schedule written as a recursive function: the first
interval is T1 and each later one doubles, capped at T2. `ScheduleMatchesSpec`
compares every send time with it.

### `SDPNegotiation.tla`: the offer/answer negotiator

This module models `sdp.py`'s RFC 3264 code over SDP lines. A line is kept at
the level the parser tells apart:

- `c=`, with its address;
- `m=`, with its media, port and formats;
- a direction attribute;
- `a=rtcp-mux`;
- `a=rtpmap`.

A codec is its key (name, clock, channels). fmtp parameters and the o=/s=/t=
lines are left out.

| Operator | Code |
|---|---|
| `Parse`, `ParseLine` | `SDPParser.parse`, one line at a time, as a `FoldLeft` |
| `OfferPTs`, `OfferMedia`, `BuildOffer` | `SDPBuilder.build_offer`, with its PT allocation |
| `RemoteCodecs`, `SortByLocalOrder`, `AcceptCodec`, `AcceptedFormats`, `AnswerMedia`, `BuildAnswer` | `SDPBuilder.build_answer` |
| `SendPT`, `NegotiatedFormats`, `Negotiate` | `negotiate_from_offer_answer` |

The state machine is one exchange:

- `CreateOffer` (`create_offer`) or `ReceivePeerOffer` (an offer written by another agent);
- `CreateAnswer` (`create_answer`, which parses the offer);
- `NegotiateAnswer`, in which the offerer parses both bodies and negotiates.

`MCSDPNegotiation` gives each side 64 capabilities:

- four codec lists;
- four directions;
- rtcp-mux on or off;
- with or without H.264 video.

It also gives two peer offers. One has a static PT without rtpmap, media-level
`c=` lines, a session-level direction and an `application` media.

### `SDPBasic.tla`: the older SDPSession layer

`client.py` puts `str(create_basic_audio_offer(ip))` in every INVITE it
sends, and reads answers with `SDPSession.parse`. This module models that
layer over the same kind of abstraction: one record per SDP line, with the
fields its format string writes.

| Operator | Code |
|---|---|
| `NewSession`, `NewMedia`, `Attr` | the `SDPSession`, `SDPMedia` and `SDPAttribute` dataclasses with their defaults |
| `AddFormat`, `AddMedia` | `add_format` (PT plus rtpmap); `add_audio_media`/`add_video_media` with `set_sendrecv` |
| `Encode`, `MediaLines`, `CLineOf`, `ALineOf` | `SDPSession.encode`, `SDPMedia.__str__`, `SDPAttribute.__str__` |
| `ParseStep`, `SessionParse` | `SDPSession.parse`: a c= line always sets the session address, a= lines go to the last media, and an unknown media type raises (`ok = FALSE`) |
| `BasicCreateOffer`, `BasicAnswerMedia`, `BasicCreateAnswer`, `FindCompatible`, `BasicAnswer` | `SDPNegotiator.create_offer`/`create_answer`/`_find_compatible_*`, `create_basic_audio_answer` |

Its state is one exchange. `inviteBody` and `offerSession` hold the text
`send_invite` last wrote (`SendInviteOffer`) and the session it was encoded
from. `answeredBody` and `basicAnswer` hold the last body
`create_basic_audio_answer` was given (`AnswerOffer`) and its result. That
body is the UA's own offer or a peer's. The `sdp` run checks it: `MCSpec` (`MCInit`, `MCNext`) in
`MCSDPNegotiation.tla` interleaves this exchange with the SDPNegotiator one.

- `BasicOfferRoundTrip`: the body `send_invite` wrote parses back, as `SIPMessage.get_sdp` parses it, into the session it was encoded from.
- `BasicAnswerAgrees`: for the last body answered, if it parses, every answered media maps, in order, to an offered media of the same kind. It carries one PT that the offer listed and the negotiator supports, with that codec's rtpmap.

The basic answerer has two defects in what it leaves out (sdp.py 400):

- It answers on the offerer's port.
- It drops a media it cannot accept instead of answering it with port 0.

Neither is a property, since nothing in the package uses this answerer.
`PROJECT.json` lists both as hazards.

### `UserAgentRequests.tla`: requests, Digest re-issue and dialogs

This module models what `SIPUserAgent` sends and which dialogs it keeps. The
peer may answer, challenge, call and re-INVITE in any order. Transactions are
left to `TransactionLayer`, whose client run shows that each request gets at
most one final response (`AtMostOneFinal`). Here, accordingly, a sent request
is answered at most once.

| Operator | Code |
|---|---|
| `SendRequest(m)` | `send_options/invite/register` and their `_create_*_request` builders: new Call-ID, From tag and branch, CSeq 1, REGISTER To the UA's own AoR |
| `NewId(S)` | `uuid.uuid4()`: any value not handed out before. Ids are only compared, so the model takes one canonical fresh value |
| `AddCredentials(r)` | `SIPDigestAuthentication.add_credentials` |
| `ReceiveChallenge(i, kind, r, n, alg)` | `on_final_response` → `_handle_authentication_challenge` → `create_authenticated_request`. Without credentials for `r`, the original request comes back and the UA gives up, leaving `nonce_count` untouched. With credentials, `_get_nonce_count` increments the count (auth.py 63) before the digest is computed; for an algorithm other than MD5 or SHA-256 (`HashSupported`), `_hash_function` raises (auth.py 150), the exception is caught, nothing is sent and the UA gives up, with the count used up |
| `NextNonceCount(n)` | `_get_nonce_count`: increment, then return |
| `Reissue` | headers copied except Via; a new branch; `Authorization` (401) or `Proxy-Authorization` (407) set; CSeq + 1 |
| `Credential` | the generated header, as realm, nonce and nc. The MD5/SHA digest is abstracted away |
| `ReceiveFinal(i, status)` | any other final response: `get_dialog(tx_id)`, then `update_dialog_from_response` (`UpdateDialog`) |
| `ReceiveInvite(pi, cseq)` | `create_dialog_from_request`, including the replacement by a re-INVITE |
| `SendBye(d)` | `send_bye` → `_create_bye_request`: `local_cseq += 1`, From local and To remote |

`sent` is the sequence of requests sent, and the properties read it as a
history:

- `ReissueOfChallenged`: every credentialed request re-issues an earlier challenged request. It has the same method, Call-ID, From tag and To, CSeq one higher, its own branch, and one authorization header replaced.
- `NonceCountsFresh`: every credential header sent carries a count within `1..nonce_count[n]`, and is either a copy of a header sent earlier or above every count sent before with its nonce. Counts may be skipped (a failed hash uses one up), which RFC 2617 allows; a count going back or repeated in a new header is what a server rejects as a replay.
- `CSeqIncreasesPerCall`: along each of the UA's own Call-IDs, CSeq strictly increases in sending order.

#### Dialog roles

The model reproduces three divergences in the dialog code. They are recorded
as hazards in `PROJECT.json` rather than as runs of their own:

- `create_dialog_from_request` (fsm.py 728-729) takes the caller's From URI and tag as the dialog's *local* ones. So `SendBye` after `ReceiveInvite` sends a BYE From the peer's URI and tag To this UA's own URI, with `To ...;tag=None`.
- A re-INVITE replaces the dialog (fsm.py 739) and resets `local_cseq` to the peer's CSeq. After INVITE(1), BYE(2), BYE(3) and re-INVITE(2), the next BYE carries CSeq 3 again, so `CSeqIncreasesPerCall` fails on the peer's Call-ID. The property is therefore stated for the UA's own Call-IDs.
- `on_final_response` looks the dialog up under the transaction id (the branch, fsm.py 997), but dialogs are stored under Call-ID and tag. A UAC therefore never has a dialog, and the `UpdateDialog` branch is never taken. The spec (4.5) says a 2xx confirms the dialog.

A 407 re-issue of a request that already carries `Authorization` copies that
header with its nonce count, so the same (nonce, nc) pair is sent twice
(auth.py 217). `NonceCountsFresh` admits such a carried copy on purpose: a
property forbidding it fails at once on the code.

### `MCTransactionLayer.tla`

This module instantiates the model with model values:

- two client branches `l1`, `l2`;
- three peer branches: `r1` sends INVITE (and ACKs for it), `r2` sends a stray ACK, `r3` sends BYE;
- one realm.

### `TransactionLayerProofs.tla`, `TransactionRefinementProofs.tla`, `UserAgentRequestsProofs.tla`, `UserAgentAuthProofs.tla`, `RetransmissionTimersProofs.tla`

These modules hold the TLAPS proofs (see below).

## Runs

| Run | cfg | Checks | Result |
|---|---|---|---|
| client | `MCClient.cfg` | TypeOK, AtMostOneFinal, NoRetransmitAfterResponse, TerminatedEventuallyRemoved, LifecycleRefined | pass (20,808 states) |
| server | `MCServer.cfg` | CleanupNeverStale, TerminatedEventuallyRemoved, LifecycleRefined | pass (1,344 states) |
| client_leak | `MCClientLeak.cfg` | EveryTransactionEnds | violated |
| client_timeout | `MCClientTimeout.cfg` | NoTimeoutAfterFinal | violated |
| server_trying | `MCServerTrying.cfg` | InviteServerCompletedIsFinal | violated |
| server_ack | `MCServerAck.cfg` | AckNeverStartsTransaction | violated |
| retransmission | `MCRetransmission.cfg` | TypeOK, ScheduleMatchesSpec, LossyTransportCompletes, UnansweredCallTimesOut | pass (1,946 states) |
| sdp | `MCSDP.cfg` | OfferRoundTrip, AnswerFollowsOffer, NegotiatedCodecsShared, BasicOfferRoundTrip, BasicAnswerAgrees | pass (134,192 states) |
| sdp_send_pt | `MCSDPOffererSendsAnswersPT.cfg` | OffererSendsAnswersPT | violated |
| sdp_remote_addr | `MCSDPRemoteAddressIsAnswerers.cfg` | RemoteAddressIsAnswerers | violated |
| retransmission_timeout | `MCRetransmissionTimeout.cfg` | UnansweredEndsInTimeout | violated |
| requests | `MCUserAgentRequests.cfg` | ReissueOfChallenged, NonceCountsFresh, CSeqIncreasesPerCall | pass (111,174 states) |

The client and server sides share no branch and interact only through the
table, so they are checked in separate runs. A combined instance exceeds
millions of states without adding a case.

The client runs set `CHECK_DEADLOCK FALSE`. Once every branch is used and
every transaction has ended, a real UA waits for the application, and that
state has no successor in the model.

Each passing property has a mutant in `PROJECT.json`, a plausible bug that TLC
must catch:

- the retransmission cap not checked;
- a final response in PROCEEDING ignored;
- Timer A not cancelled by a provisional response;
- `on_terminated` not reaching `cleanup_transaction`;
- H treated as a terminating timer;
- the cap reached without scheduling the cleanup;
- a 401/407 re-issue that replaces the challenged transaction on its own branch;
- a peer request not looked up in the table, so a retransmission replaces the stored transaction;
- the Via copied into a re-issue, so its branch is kept;
- the nonce count read without the increment;
- one fixed Call-ID for every new request;
- a media's attributes encoded before its m= line;
- a basic answer that takes a supported codec the offer did not list.

### What the violations show

- **client_leak**: an ICT that gets a 2xx goes to ACCEPTED with Timer L. `_on_timer_fired` has no branch for L, so the transaction is never terminated and stays in the table forever. The spec says L moves it to Terminated.
- **client_timeout** (the cfg lets the UA send INVITEs only, `ClientMethods <- MCInviteOnly`, so the trace is the INVITE client transaction): INVITE, then 180 (PROCEEDING, A cancelled), then 200 or 486. `process_message` in PROCEEDING does not cancel Timer B, which later fires `on_timeout` and terminates the transaction that was answered.
- **server_trying**: `on_request_received` sends 100 Trying through `tx_manager.send_response`, which always calls `send_final_response`. The IST goes to COMPLETED holding a 100, and the 200 OK after the sleep is dropped because the state is no longer PROCEEDING. An INVITE is never answered with 200.
- **retransmission_timeout**: with no answer, the request is sent at 0, 0.5, 1.5, 3.5, 7.5, 11.5, 15.5 and 19.5 s. The next expiry of Timer A, at 23.5 s, meets the cap of 7 and terminates the transaction silently. `_on_timer_fired` calls `on_timeout` for every timer (fsm.py 282), so the UA hears of each Timer A expiry, but Timer B (32 s) is cancelled by the cleanup and never fires: no Timer B timeout is ever reported. The spec says an unanswered request ends in a Timer B timeout.
- **sdp_send_pt**: the offer has speex=96, ilbc=97 and telephone-event=101. The answerer supports iLBC and answers ilbc=96, because `build_answer` allocates its own dynamic PTs. `negotiate_from_offer_answer` then sets the offerer's `send_pt` for iLBC to 97, its own offer's PT. The answerer expects 96, as its own comment and RFC 3264 say. spec.md 4.2 states the code's rule, so the spec shares the error.
- **sdp_remote_addr**: `remote_addr` is read from our own offer (`m_offer.conn_addr or local_offer.connection`), so it is the offerer's address and not the answerer's.
- **server_ack**: an ACK whose branch has no transaction (for example, after the IST was cleaned up) falls through to `create_server_transaction`. It creates a NIST, and the UA answers the ACK with 200 OK.

## Bounds

- **Two client branches** are enough for a challenge to re-issue onto a second branch.
- **Three peer branches** cover each request kind. With them, every server transaction can terminate, be cleaned up and be recreated by a retransmission.
- **Retransmission run**: the code's own values are used: T1 = 1 and T2 = 8 units, a cap of 7, up to 9 lost requests and latencies of 1 and 3 units. So the interval reaches T2, and losses cover both sides of the cap. The run sets `CHECK_DEADLOCK FALSE` because a transaction's life ends.
- **`MaxRetransmissions = 2`** reaches both sides of the cap check. The value does not change any control path beyond that.

- **Requests run**:
  - two Call-IDs, two From tags and four branches for the UA;
  - one peer INVITE identity, sent with CSeq 1 or 2;
  - one realm and two nonces;
  - `MaxCSeq = 3`.

  So a request can be challenged by a 401 and then a 407, with either nonce, before or after credentials are added, and a nonce can be used twice. The peer can re-INVITE between two BYEs. The run sets `CHECK_DEADLOCK FALSE`, because the UA stops once its id pools are used up.

- **SDP run**: every pair of the 64 × 64 capabilities is tried. The codec lists include the default list, a reordered static list and two lists with dynamic codecs in different orders. So static and dynamic PTs, telephone-event, sorting by preference, rejection and every direction all occur.
  For SDPBasic, the run uses one local address and two ports. The address only reaches the o= and c= lines. It adds three peer bodies:
  - one with a session attribute, an unsupported PT listed first and a line the parser skips;
  - one with a ttl, a media-level c= line, an application media and unsupported video;
  - one with `m=text`.

  So the answerer takes, skips and drops media, and the parser meets each of its branches.

## Fairness

`Fairness` assumes only what the asyncio loop guarantees to a ready task:

- weak fairness of every armed timer's firing (`FireTimer`);
- weak fairness of every created cleanup task (`Cleanup`);
- weak fairness of the sleeping INVITE handler (`AnswerInvite`).

Nothing is assumed about the peer or the application. `RetransmissionTimers` is
weakly fair on `Next`: the loop runs ready tasks, and its clock advances. Symmetry is not used,
because the cfgs check liveness.

## Proofs

`TransactionLayerProofs.tla` proves, for every value of the constants that
satisfies the module's assumptions (disjoint branch sets, `RemoteMethod` a
function into INVITE/ACK/BYE, `MaxRetransmissions \in Nat`):

- **TypeCorrect**: `Spec => []TypeOK`. It rests on the lemmas `NewClientTxType`, `NewServerTxType`, `MoveType`, `ICTOnResponseType`, `NICTOnResponseType`, `OnResponseType`, `ISTOnAckType` and `TypeStep`. The counter stays within `0..MaxRetransmissions` because `_handle_retransmission` tests the cap before incrementing.
- **CleanupNotStale**: `Spec => []CleanupNeverStale`.

`CleanupNeverStale` is not inductive as stated. A server transaction could in
principle hold a terminating timer while TERMINATED, and that timer would create
a second cleanup task. The strengthening `IInv` is checked with TLC on both
instances and then proved (`InitIInv`, `IInvStep`). It says:

- an unused branch has no state, timers, task or table entry;
- client transactions never leave TERMINATED (`OnResponseKeeps`);
- a server transaction holds only the timers its state allows: IST COMPLETED {G, H}, NIST COMPLETED {J}, CONFIRMED {I}, TERMINATED {H};
- a server branch has a pending cleanup task exactly when it is TERMINATED and still in the table.

`TransactionRefinementProofs.tla` proves **Refinement**:
`Spec => Lifecycle!LSafety`. This is the safety part of the refinement, for
every instance. The initial states map to `LInit` (`InitRefines`).
`RefinementStep` shows that every step of `Next` maps to an abstract step or a
stutter, with one case per action. Two invariants are needed:

- `IInv` (above). A `Cleanup` step has a pending task, so its transaction is TERMINATED and the removal is an abstract `Remove`. It is never the removal of a live transaction.
- `FInv` (`InitFInv`, `FInvStep`). A branch with `finals[b] > 0` is ours and has left TRYING and PROCEEDING, and a branch without a transaction object has delivered nothing. So a delivering response finds the branch live and undelivered. `OnResponseLife` states what a response does to a client transaction's kind and state, and `DeliverMapped` turns that into the abstract `Deliver` guard.

The re-issue case names the fresh branch with PICK. `LifeBarUpdate` and
`LifeBarUpdate2` rebuild the mapped function from the branches that changed.

`UserAgentRequestsProofs.tla` proves two theorems. They hold for every value of the
constants that satisfies `ConstantsAssumption`: peer CSeqs in `Nat \ {0}`,
`MaxCSeq \in Nat`, and peer Call-IDs that are none of this UA's `CallIds`.

- **CSeqIncreases**: `Spec => []CSeqIncreasesPerCall`.
- **TypeCorrect**: `Spec => []TypeOK`. Here `TypeOK` types the sent requests (`Request`), the dialogs (`Dialog`) and the nonce counts.

`CSeqIncreasesPerCall` is not inductive as stated. A re-issue copies the CSeq
of request i and adds one. That exceeds the CSeq of every request of the Call-ID
only if no later request of that Call-ID exists. The strengthening `IInv` adds
two conjuncts:

- `EarlierAnswered`: a request followed by another of its Call-ID has been answered and has the smaller CSeq. A challenge needs an unanswered request, so the re-issue always extends the last request of its Call-ID.
- `OwnCallIdsUsed`: every own Call-ID in `sent` is in `usedIds`. So the fresh Call-ID of `SendRequest` starts a Call-ID of its own.

A BYE is never constrained, because its Call-ID is the peer's. TLC checked
`IInv` on the `requests` instance before the proof. There is one lemma per
action (`SendRequestIInv`, `ReceiveChallengeIInv`, `ReceiveFinalIInv`,
`ReceiveInviteIInv`, `SendByeIInv`, `AddCredentialsIInv`), and `NextIInv`
combines them. In `ReceiveChallengeIInv`, the new CSeq, branch and
authorization record are first named with PICK. The record EXCEPT is then
typed on those plain values.

`TransactionRefinementProofs.tla` also proves two properties of the
`client` run:

- **OneFinal**: `Spec => []AtMostOneFinal`. `AtMostOneFinal` is not inductive alone, because a response could find a branch that has already delivered still in TRYING or PROCEEDING. The inductive invariant is `IInv /\ FInv /\ AtMostOneFinal`. `FInv` says that a branch with a delivery has left those two states, and `DeliversFinal` fires only in them. So a delivering step finds `finals[b] = 0` (`DeliverOnce`), and `OneFinalStep` has one case per action that writes `finals`.
- **RetransmitStops**: `Spec => NoRetransmitAfterResponse`, an action property. Only `_handle_retransmission` below the cap changes the counter, and only for an armed A, E or G. The inductive invariant `IInv /\ RInv` was checked with TLC on the `client` instance before the proof. `RInv` says that, for each of our branches:
  - an ICT holds no Timer E or G, and an NICT no Timer A or G;
  - in PROCEEDING, ACCEPTED and COMPLETED it holds none of A, E, G.

  The per-kind conjuncts are what makes it inductive: the ICT's 1xx handler cancels A only. The lemmas:
  - `NewClientRtx`: `start()` arms only its own timer;
  - `OnResponseRtx`: `process_message` keeps `RInv` and the counter;
  - `FireTimerRtx`: a timer only disarms, and changes the counter only for an armed retransmission timer.

  `RtxStep` proves `RInv'` and the step property together, one case per action.

`UserAgentAuthProofs.tla` extends `UserAgentRequestsProofs.tla` and proves the
two Digest properties of the `requests` run for every instance:

- **ReissueChallenged**: `Spec => []ReissueOfChallenged`;
- **NonceCounts**: `Spec => []NonceCountsFresh`.

Both rest on `AInv == IInv /\ BranchesUsed /\ ReissueOfChallenged /\ NonceCountsFresh`.
`BranchesUsed` (every sent branch is in `usedIds`) is what shows that a
re-issue's fresh branch differs from the challenged request's. The nonce
property is stated over any request sequence and count function as
`FreshFor(s, cnt)`, so that it can be reasoned about step by step. The lemmas:

- `FreshForIs`: `NonceCountsFresh` is `FreshFor(sent, nonceCount)`;
- `FreshMono`: raising counts preserves `FreshFor`. This covers the attempts
  whose hash fails after the count was consumed;
- `FreshAppend`: appending a request whose headers are each new (count above
  every earlier one with its nonce, within the counts) or carried from an
  earlier request preserves `FreshFor`;
- `ReissueShape`: the record a challenge builds.

`NextAInv` has one case per action. `ChallengeAInv` shows that the new header
carries `nonceCount[n] + 1`, above every count sent before with `n`, and that
the other header of the re-issue is the challenged request's, carried.

`RetransmissionTimersProofs.tla` proves the two invariants of the
`retransmission` run for every T1, T2, loss bound, latency set and ring time:

- **TypeCorrect**: `Spec => []TypeOK`;
- **ScheduleCorrect**: `Spec => []ScheduleMatchesSpec`. The i-th request goes
  out at `RefSendTime[i]` whatever the losses, the latency and the peer's replies.

The one assumption beyond positivity is `MaxRetransmissions \in 0..7`.
`SIPTransaction.__init__` fixes the cap at 7 (fsm.py:200), and the MC runs use 7.
The bound is there because the provers know `^` only on numerals. `Pow2` states
`2^n \in Nat \ {0}` and `2^n = 2 * 2^(n-1)` for n in 1..8, one case per value.
The rest of the module works with an opaque `P2(n) == 2^n`, so no obligation has
a variable exponent in it.

The argument runs in four parts.

- **Type invariant.** `TInv` adds to `TypeOK` that every expiry is a natural.
  `Tick` moves the clock to `Min(pending)`. `MinOfNats` (from
  `WellFoundedInduction`'s `WFMin`) shows that minimum is one of the pending
  times, so it is a natural.
- **Reference functions.** `RefInterval` and `RefSendTime` are defined on
  `Nat \ {0}`. `NaturalsInduction`'s `NatInductiveDef` gives a solution for
  the shifted functions `RI0` and `RS0`, which start at 0. `RefIntervalDef` and
  `RefSendTimeDef` use these as witnesses, so the definitions satisfy their
  equations.
- **Closed form.** `NextIntervalIs` proves
  `min(T2, 2^n * T1) = RefInterval[n+1]` for n in 1..8. This holds because
  capping twice is capping once. The lemmas about all n (`RefIntervalIs`,
  `RefType`, `NextIntervalIs`) are proved by least counterexample:
  take the `Min` of the set of failures and refute it. The library's
  induction rules need an operator parameter, which the provers cannot
  instantiate.
- **Inductive invariant.** `ScheduleMatchesSpec` alone is not inductive. It
  does not say when the next send happens. The inductive invariant is
  `TInv /\ SInv`. `SInv` says:
  - once started, the log has `rtx + 1` entries;
  - only the kind's own Timer A/E is ever armed;
  - while armed, it expires at `RefSendTime[rtx+1] + RefInterval[rtx+1]`,
    the next reference send;
  - nothing has happened before `start()`.

  TLC checked `SInv` on three timings before it was proved:
  T1/T2/cap = 1/8/7, 3/2/3 and 2/5/5.

  `SInvStep` has one case per action. Only `Start` and the resending branch of
  `FireRetransmit` change the log or re-arm the timer. Every other step
  satisfies `Kept`: it removes Timer A/E or leaves its expiry alone. Those
  steps are handled once, by `KeptSInv`.

Only model-checked, outside the prover's reach:

- the liveness properties: `TerminatedEventuallyRemoved`, `LossyTransportCompletes`, `UnansweredCallTimesOut`, and the weak fairness of `Remove` in `LifecycleRefined`. These need fairness and ENABLED, which the provers do not handle. The safety part of `LifecycleRefined` is `Refinement`.
- the SDP invariants (`OfferRoundTrip`, `AnswerFollowsOffer`, `NegotiatedCodecsShared`, `BasicOfferRoundTrip`, `BasicAnswerAgrees`). Each relates `Parse`, a fold over the line sequence, to `BuildOffer`/`BuildAnswer`/`Encode` for every capability. Proving them for all inputs is induction over sequences, which needs the library's induction theorems with an operator parameter that the provers cannot instantiate.

## Not modelled, and the plan

- **Dialogs**: `terminate_dialog` is never called in the package, and a received BYE changes no dialog. `route_set`, `secure` and `remote_cseq` are never read.
- **Digest re-issue chain**: the code sets no bound on answering repeated challenges. The models cut the chain at their branch pools.
- **SDP**: fmtp values (the telephone-event `events` choice) and `next_reoffer_version` are not modelled. Nothing calls `SDPSession.create_answer` or `validate`, so they are not modelled either.
- **TCP framing**: possibly.
- **Retransmitted requests at a stored server transaction**: `create_server_transaction` (fsm.py 884-893) hands them to `process_message`. That either resends the stored response or does nothing, and changes no state the model keeps. The IST resends only in PROCEEDING, but the spec (4.4) says Proceeding and Completed. In this UA the IST is in COMPLETED from the 100 Trying on (server_trying), so a retransmitted INVITE is answered only by Timer G. Telling the two apart needs the response traffic, which the model leaves out.
- **Sends and transport errors**: `_send_request` and `_send_response` only log, so they are not modelled yet.
- **Out of scope**: message parsing and encoding (character level), DNS, media, logging, ladder diagrams, call-flow tracking, the CLI and examples.
