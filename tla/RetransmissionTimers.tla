------------------------- MODULE RetransmissionTimers -------------------------
(***************************************************************************)
(* Timed model of one client transaction of src/tinysip/fsm.py from its   *)
(* start() until it is cleaned up: Timer A/E retransmissions with the     *)
(* backoff of _handle_retransmission and its cap, Timer B/F, the peer's  *)
(* responses, and the _cleanup() task.  The transport drops the first    *)
(* `loss` requests sent; the peer replies to every request it receives,  *)
(* after `latency` time units, in one of three ways: a 2xx, a 1xx only   *)
(* (a phone left ringing), or a 1xx and a 2xx RingTime later.            *)
(* TransactionLayer leaves timer durations out; this module keeps them,  *)
(* so it can compare the retransmission schedule with RFC 3261 timing.   *)
(*                                                                         *)
(* Time is an integer number of units; SIPTimers' seconds are multiples   *)
(* of a unit (with the default T1 = 0.5 s and T2 = 4 s, a unit of 0.5 s    *)
(* gives T1 = 1 and T2 = 8).  Time advances from one due event to the     *)
(* next, as the asyncio loop sleeps until its earliest timer.            *)
(***************************************************************************)
EXTENDS Naturals, Sequences, FiniteSets, FiniteSetsExt

CONSTANTS
    T1,                 \* SIPTimers.T1 in time units
    T2,                 \* SIPTimers.T2 in time units
    MaxRetransmissions, \* SIPTransaction._max_retransmissions
    MaxLoss,            \* largest number of leading requests the network drops
    Latencies,          \* possible request-to-response delays of the peer
    RingTime            \* delay between the peer's 1xx and its 2xx

ASSUME TimingAssumption ==
    /\ T1 \in Nat \ {0}
    /\ T2 \in Nat \ {0}
    /\ MaxRetransmissions \in 0..7   \* SIPTransaction.__init__ fixes it at 7
    /\ MaxLoss \in Nat
    /\ Latencies \subseteq Nat \ {0}
    /\ RingTime \in Nat \ {0}

VARIABLES
    now,        \* the event loop's clock
    kind,       \* "ICT" (INVITE) or "NICT"
    state,      \* SIPTransaction.state
    timers,     \* _active_timers: armed timer -> its expiry time
    rtx,        \* _retransmission_count
    sendTimes,  \* times at which the request was sent, in order
    answers,    \* the peer's responses in flight: <<arrival time, class>>
    timedOut,   \* Timer B or F expired (the TimeoutError the spec names)
    answered,   \* a 2xx reached process_message in TRYING or PROCEEDING
    cleanedUp,  \* the _cleanup() task has run
    loss,       \* this run's number of dropped leading requests
    latency,    \* this run's response delay
    peer        \* how the peer replies: "answers", "rings" or "rings_then_answers"

vars == <<now, kind, state, timers, rtx, sendTimes, answers, timedOut,
          answered, cleanedUp, loss, latency, peer>>

(***************************************************************************)
(* SIPTimers: every duration is derived from T1 (Timer L = 64*T1).        *)
(***************************************************************************)
RetransmitTimer(k) == IF k = "ICT" THEN "A" ELSE "E"
TimeoutTimer(k)    == IF k = "ICT" THEN "B" ELSE "F"
Duration(tm) == IF tm \in {"A", "E"} THEN T1 ELSE 64 * T1

\* The timer set after arming tm at `now` (_start_timer replaces a timer of
\* the same type).
Arm(ts, tm, d) == [x \in DOMAIN ts \cup {tm} |-> IF x = tm THEN now + d ELSE ts[x]]

\* _cancel_timer.
Disarm(ts, S) == [x \in DOMAIN ts \ S |-> ts[x]]

Peers == {"answers", "rings", "rings_then_answers"}

\* What the peer sends back for a request it receives at time t.
Replies(t) ==
    CASE peer = "answers" -> {<<t + latency, "2xx">>}
      [] peer = "rings"   -> {<<t + latency, "1xx">>}
      [] peer = "rings_then_answers" ->
            {<<t + latency, "1xx">>, <<t + latency + RingTime, "2xx">>}

\* _send_request: the request goes out now; the peer replies to it unless
\* the network drops it.
SendRequest ==
    /\ sendTimes' = Append(sendTimes, now)
    /\ answers' = IF Len(sendTimes) + 1 > loss
                    THEN answers \cup Replies(now)
                    ELSE answers

(***************************************************************************)
(* InviteClientTransaction.start / NonInviteClientTransaction.start.      *)
(***************************************************************************)
Start ==
    /\ state = "INITIAL"
    /\ state' = "TRYING"
    /\ SendRequest
    /\ timers' = Arm(Arm(timers, RetransmitTimer(kind), Duration(RetransmitTimer(kind))),
                     TimeoutTimer(kind), Duration(TimeoutTimer(kind)))
    /\ UNCHANGED <<now, kind, rtx, timedOut, answered, cleanedUp, loss, latency, peer>>

\* Mutant: the exponent uses the count before the increment.
NextIntervalEarly(n) == Min({T2, (2 ^ (n - 1)) * T1})

(***************************************************************************)
(* _handle_retransmission: next_interval = min(T2, 2**count * T1), with   *)
(* count the retransmission count after its increment.                   *)
(***************************************************************************)
NextInterval(n) == Min({T2, (2 ^ n) * T1})

\* Mutant: the cap is not checked.
FireRetransmitNoCap(tm) ==
    /\ tm \in DOMAIN timers /\ timers[tm] = now /\ tm \in {"A", "E"}
    /\ rtx' = rtx + 1
    /\ SendRequest
    /\ timers' = Arm(timers, tm, NextInterval(rtx + 1))
    /\ UNCHANGED <<now, kind, state, timedOut, answered, cleanedUp, loss, latency, peer>>

\* Mutant: the retransmission is counted but the request is not resent.
FireRetransmitSilent(tm) ==
    /\ tm \in DOMAIN timers /\ timers[tm] = now /\ tm \in {"A", "E"}
    /\ IF rtx >= MaxRetransmissions
         THEN /\ state' = "TERMINATED"
              /\ timers' = Disarm(timers, {tm})
              /\ UNCHANGED <<rtx, sendTimes, answers>>
         ELSE /\ rtx' = rtx + 1
              /\ timers' = Arm(timers, tm, NextInterval(rtx + 1))
              /\ UNCHANGED <<state, sendTimes, answers>>
    /\ UNCHANGED <<now, kind, timedOut, answered, cleanedUp, loss, latency, peer>>

(***************************************************************************)
(* Timer A or E expires (_on_timer_fired -> _handle_retransmission): at   *)
(* the cap the transaction is terminated; otherwise the request is resent *)
(* and the timer re-armed with the backed-off interval.  The state is not *)
(* consulted: the timer only runs while it is armed.                      *)
(***************************************************************************)
FireRetransmit(tm) ==
    /\ tm \in DOMAIN timers /\ timers[tm] = now /\ tm \in {"A", "E"}
    /\ IF rtx >= MaxRetransmissions
         THEN /\ state' = "TERMINATED"
              /\ timers' = Disarm(timers, {tm})
              /\ UNCHANGED <<rtx, sendTimes, answers>>
         ELSE /\ rtx' = rtx + 1
              /\ SendRequest
              /\ timers' = Arm(timers, tm, NextInterval(rtx + 1))
              /\ UNCHANGED state
    /\ UNCHANGED <<now, kind, timedOut, answered, cleanedUp, loss, latency, peer>>

(***************************************************************************)
(* Timer B or F expires: on_timeout, then TERMINATED.  Timer L (ACCEPTED) *)
(* expires into no branch of _on_timer_fired.                             *)
(***************************************************************************)
FireTimeout(tm) ==
    /\ tm \in DOMAIN timers /\ timers[tm] = now /\ tm \in {"B", "F"}
    /\ timedOut' = TRUE
    /\ state' = "TERMINATED"
    /\ timers' = Disarm(timers, {tm})
    /\ UNCHANGED <<now, kind, rtx, sendTimes, answers, answered, cleanedUp,
                   loss, latency, peer>>

FireIgnored(tm) ==
    /\ tm \in DOMAIN timers /\ timers[tm] = now /\ tm = "L"
    /\ timers' = Disarm(timers, {tm})
    /\ UNCHANGED <<now, kind, state, rtx, sendTimes, answers, timedOut,
                   answered, cleanedUp, loss, latency, peer>>

(***************************************************************************)
(* A response arrives: process_message.  In TRYING a 1xx moves to         *)
(* PROCEEDING and cancels Timer A/E.  A 2xx in TRYING or PROCEEDING       *)
(* reaches the TU: an ICT goes to ACCEPTED and starts Timer L, cancelling *)
(* A and B only from TRYING; a NICT goes to TERMINATED, cancelling E and F *)
(* only from TRYING.  Anything else changes nothing.                      *)
(***************************************************************************)
\* Mutant: a provisional response also cancels Timer B/F.
OnProvisionalCancelsTimeout ==
    /\ state = "TRYING"
    /\ state' = "PROCEEDING"
    /\ timers' = Disarm(timers, {RetransmitTimer(kind), TimeoutTimer(kind)})
    /\ UNCHANGED answered

OnProvisional ==
    /\ state = "TRYING"
    /\ state' = "PROCEEDING"
    /\ timers' = Disarm(timers, {RetransmitTimer(kind)})
    /\ UNCHANGED answered

OnSuccess ==
    /\ state \in {"TRYING", "PROCEEDING"}
    /\ answered' = TRUE
    /\ LET cancelled == IF state = "TRYING"
                          THEN {RetransmitTimer(kind), TimeoutTimer(kind)}
                          ELSE {}
       IN IF kind = "ICT"
            THEN /\ state' = "ACCEPTED"
                 /\ timers' = Arm(Disarm(timers, cancelled), "L", Duration("L"))
            ELSE /\ state' = "TERMINATED"
                 /\ timers' = Disarm(timers, cancelled)

ReceiveResponse(r) ==
    /\ r \in answers /\ r[1] = now
    /\ answers' = answers \ {r}
    /\ \/ r[2] = "1xx" /\ OnProvisional
       \/ r[2] = "2xx" /\ OnSuccess
       \/ /\ ~(r[2] = "1xx" /\ state = "TRYING")
          /\ ~(r[2] = "2xx" /\ state \in {"TRYING", "PROCEEDING"})
          /\ UNCHANGED <<state, timers, answered>>
    /\ UNCHANGED <<now, kind, rtx, sendTimes, timedOut, cleanedUp, loss, latency, peer>>

(***************************************************************************)
(* The _cleanup() task created on entering TERMINATED: it cancels every   *)
(* timer still armed (B or F after the cap, for instance).               *)
(***************************************************************************)
Cleanup ==
    /\ state = "TERMINATED" /\ ~cleanedUp
    /\ cleanedUp' = TRUE
    /\ timers' = Disarm(timers, DOMAIN timers)
    /\ UNCHANGED <<now, kind, state, rtx, sendTimes, answers, timedOut,
                   answered, loss, latency, peer>>

\* Something is due now: an expired timer, an arrived response or a ready
\* cleanup task.
Due ==
    \/ \E tm \in DOMAIN timers : timers[tm] = now
    \/ \E r \in answers : r[1] = now
    \/ state = "TERMINATED" /\ ~cleanedUp
    \/ state = "INITIAL"

(***************************************************************************)
(* The event loop sleeps until its earliest pending event.               *)
(***************************************************************************)
Tick ==
    /\ ~Due
    /\ LET pending == {timers[tm] : tm \in DOMAIN timers} \cup {r[1] : r \in answers}
       IN /\ pending # {}
          /\ now' = Min(pending)
    /\ UNCHANGED <<kind, state, timers, rtx, sendTimes, answers, timedOut,
                   answered, cleanedUp, loss, latency, peer>>

Init ==
    /\ now = 0
    /\ kind \in {"ICT", "NICT"}
    /\ state = "INITIAL"
    /\ timers = [x \in {} |-> 0]
    /\ rtx = 0
    /\ sendTimes = <<>>
    /\ answers = {}
    /\ timedOut = FALSE
    /\ answered = FALSE
    /\ cleanedUp = FALSE
    /\ loss \in 0..MaxLoss
    /\ latency \in Latencies
    /\ peer \in Peers

Next ==
    \/ Start
    \/ \E tm \in {"A", "E"} : FireRetransmit(tm)
    \/ \E tm \in {"B", "F"} : FireTimeout(tm)
    \/ FireIgnored("L")
    \/ \E r \in answers : ReceiveResponse(r)
    \/ Cleanup
    \/ Tick

(***************************************************************************)
(* Fairness: the loop runs every ready task and its clock advances.       *)
(***************************************************************************)
Spec == Init /\ [][Next]_vars /\ WF_vars(Next)

-----------------------------------------------------------------------------
TypeOK ==
    /\ now \in Nat
    /\ kind \in {"ICT", "NICT"}
    /\ state \in {"INITIAL", "TRYING", "PROCEEDING", "ACCEPTED", "TERMINATED"}
    /\ DOMAIN timers \subseteq {"A", "B", "E", "F", "L"}
    /\ rtx \in 0..MaxRetransmissions
    /\ sendTimes \in Seq(Nat)
    /\ answers \subseteq Nat \X {"1xx", "2xx"}
    /\ {timedOut, answered, cleanedUp} \subseteq BOOLEAN

(***************************************************************************)
(* The reference schedule of spec.md (4.4 and scenario 6): the first     *)
(* retransmission comes T1 after the request and each later interval      *)
(* doubles the previous one, capped at T2.                               *)
(***************************************************************************)
RefInterval[n \in Nat \ {0}] ==
    IF n = 1 THEN T1 ELSE Min({T2, 2 * RefInterval[n - 1]})

RefSendTime[n \in Nat \ {0}] ==
    IF n = 1 THEN 0 ELSE RefSendTime[n - 1] + RefInterval[n - 1]

(***************************************************************************)
(* Safety.  Every copy of the request is sent exactly when the reference  *)
(* schedule says: _handle_retransmission's closed form                    *)
(* min(T2, 2**count * T1), its count incremented first, reproduces the    *)
(* doubling-until-T2 intervals 0.5, 1, 2, 4, 4, ... s of scenario 6.       *)
(***************************************************************************)
ScheduleMatchesSpec ==
    \A i \in 1..Len(sendTimes) : sendTimes[i] = RefSendTime[i]

(***************************************************************************)
(* Liveness, spec.md 6 (lossy transport): when the network drops fewer   *)
(* requests than the retransmission cap and the peer answers, the         *)
(* transaction still gets its final response.                             *)
(***************************************************************************)
LossyTransportCompletes ==
    loss < MaxRetransmissions /\ peer # "rings" => <>answered

(***************************************************************************)
(* Liveness, spec.md 4 (ICT/NICT: Timer B/F expiry surfaces a timeout) and *)
(* its failure semantics: a request the peer only ever answers with 1xx   *)
(* does not leave the transaction waiting in PROCEEDING for ever; Timer    *)
(* B/F, armed at start() and not cancelled by the 1xx, reports a timeout. *)
(***************************************************************************)
UnansweredCallTimesOut ==
    peer = "rings" /\ loss < MaxRetransmissions => <>timedOut

(***************************************************************************)
(* Safety, as spec.md states it (scenario 6; 6: "under k >= cap the       *)
(* transaction terminates with timeout"; 5: TimeoutError on Timer B/F):   *)
(* a transaction that ends without an answer has reported a Timer B/F     *)
(* timeout.                                                               *)
(***************************************************************************)
UnansweredEndsInTimeout ==
    state = "TERMINATED" /\ ~answered => timedOut
=============================================================================
