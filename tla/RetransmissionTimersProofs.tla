------------------------ MODULE RetransmissionTimersProofs ------------------------
(***************************************************************************)
(* Proofs about the retransmission schedule of RetransmissionTimers, for  *)
(* every value of the constants its TimingAssumption allows.  The        *)
(* provers know `^` only on numerals, so the powers 2^1 .. 2^8 that a     *)
(* count of at most 7 retransmissions can need are computed case by case. *)
(* The reference schedule RefInterval/RefSendTime is unfolded through    *)
(* NaturalsInduction's NatInductiveDef, and induction over the count is  *)
(* done by taking a least counterexample (WellFoundedInduction's WFMin). *)
(***************************************************************************)
EXTENDS RetransmissionTimers, NaturalsInduction, WellFoundedInduction, TLAPS

USE TimingAssumption

-----------------------------------------------------------------------------
(***************************************************************************)
(* Arithmetic the backoff of _handle_retransmission rests on.             *)
(***************************************************************************)

\* 2**count for the counts a capped transaction reaches, and its doubling.
LEMMA Pow2 ==
    ASSUME NEW n \in 1..8
    PROVE  /\ 2^n \in Nat \ {0}
           /\ 2^n = 2 * 2^(n - 1)
<1>1. n \in {1, 2, 3, 4, 5, 6, 7, 8}
  OBVIOUS
<1>2. CASE n = 1
  <2>1. n - 1 = 0
    BY <1>2
  <2>2. 2^n = 2^1 /\ 2^(n - 1) = 2^0
    BY <1>2, <2>1, Zenon
  <2>3. 2^1 = 2 /\ 2^0 = 1
    BY SMT
  <2>. QED  BY <2>2, <2>3
<1>3. CASE n = 2
  <2>1. n - 1 = 1
    BY <1>3
  <2>2. 2^n = 2^2 /\ 2^(n - 1) = 2^1
    BY <1>3, <2>1, Zenon
  <2>3. 2^2 = 4 /\ 2^1 = 2
    BY SMT
  <2>. QED  BY <2>2, <2>3
<1>4. CASE n = 3
  <2>1. n - 1 = 2
    BY <1>4
  <2>2. 2^n = 2^3 /\ 2^(n - 1) = 2^2
    BY <1>4, <2>1, Zenon
  <2>3. 2^3 = 8 /\ 2^2 = 4
    BY SMT
  <2>. QED  BY <2>2, <2>3
<1>5. CASE n = 4
  <2>1. n - 1 = 3
    BY <1>5
  <2>2. 2^n = 2^4 /\ 2^(n - 1) = 2^3
    BY <1>5, <2>1, Zenon
  <2>3. 2^4 = 16 /\ 2^3 = 8
    BY SMT
  <2>. QED  BY <2>2, <2>3
<1>6. CASE n = 5
  <2>1. n - 1 = 4
    BY <1>6
  <2>2. 2^n = 2^5 /\ 2^(n - 1) = 2^4
    BY <1>6, <2>1, Zenon
  <2>3. 2^5 = 32 /\ 2^4 = 16
    BY SMT
  <2>. QED  BY <2>2, <2>3
<1>7. CASE n = 6
  <2>1. n - 1 = 5
    BY <1>7
  <2>2. 2^n = 2^6 /\ 2^(n - 1) = 2^5
    BY <1>7, <2>1, Zenon
  <2>3. 2^6 = 64 /\ 2^5 = 32
    BY SMT
  <2>. QED  BY <2>2, <2>3
<1>8. CASE n = 7
  <2>1. n - 1 = 6
    BY <1>8
  <2>2. 2^n = 2^7 /\ 2^(n - 1) = 2^6
    BY <1>8, <2>1, Zenon
  <2>3. 2^7 = 128 /\ 2^6 = 64
    BY SMT
  <2>. QED  BY <2>2, <2>3
<1>9. CASE n = 8
  <2>1. n - 1 = 7
    BY <1>9
  <2>2. 2^n = 2^8 /\ 2^(n - 1) = 2^7
    BY <1>9, <2>1, Zenon
  <2>3. 2^8 = 256 /\ 2^7 = 128
    BY SMT
  <2>. QED  BY <2>2, <2>3
<1>. QED  BY <1>1, <1>2, <1>3, <1>4, <1>5, <1>6, <1>7, <1>8, <1>9

\* min(a, b) of two integers.
LEMMA MinPair ==
    ASSUME NEW a \in Int, NEW b \in Int
    PROVE  Min({a, b}) = IF a <= b THEN a ELSE b
BY DEF Min

\* A non-empty set of naturals has a least element: the time the asyncio
\* loop's sleep ends at.
LEMMA MinOfNats ==
    ASSUME NEW S \in SUBSET Nat, S # {}
    PROVE  /\ Min(S) \in S
           /\ \A y \in S : Min(S) <= y
<1>1. \E x \in S : \A y \in S : ~(<<y, x>> \in OpToRel(<, Nat))
  BY NatLessThanWellFounded, WFMin
<1>2. PICK x \in S : \A y \in S : ~(<<y, x>> \in OpToRel(<, Nat))
  BY <1>1
<1>3. ASSUME NEW y \in S PROVE x <= y
  <2>1. <<y, x>> \in Nat \X Nat /\ ~(<<y, x>> \in OpToRel(<, Nat))
    BY <1>2, <1>3
  <2>2. ~(y < x)
    BY <2>1 DEF OpToRel
  <2>. QED  BY <2>2
<1>4. \E z \in S : \A y \in S : z <= y
  BY <1>3
<1>. QED  BY <1>4 DEF Min

-----------------------------------------------------------------------------
(***************************************************************************)
(* Type correctness.  TypeOK is not inductive: Tick sets now to the least *)
(* pending expiry, so every armed timer must hold a natural expiry, and   *)
(* the replies of the peer depend on the run's latency and peer kind.     *)
(***************************************************************************)
TimerNames == {"A", "B", "E", "F", "L"}

TInv ==
    /\ TypeOK
    /\ timers \in [DOMAIN timers -> Nat]
    /\ loss \in Nat /\ latency \in Latencies /\ peer \in Peers

\* _cancel_timer removes names and keeps the other expiries.
LEMMA DisarmType ==
    ASSUME NEW ts, ts \in [DOMAIN ts -> Nat], NEW S
    PROVE  /\ Disarm(ts, S) \in [DOMAIN ts \ S -> Nat]
           /\ DOMAIN Disarm(ts, S) = DOMAIN ts \ S
BY DEF Disarm

\* The backed-off interval of a count the cap allows is a natural.
LEMMA NextIntervalNat ==
    ASSUME NEW n \in 1..8
    PROVE  NextInterval(n) \in Nat
<1>0. 2^n \in Nat
  BY Pow2
<1>1. 2^n * T1 \in Nat
  BY <1>0
<1>. QED  BY <1>1, MinPair DEF NextInterval

\* The replies to a request sent at a natural time.
LEMMA RepliesType ==
    ASSUME NEW t \in Nat, latency \in Latencies, peer \in Peers
    PROVE  Replies(t) \subseteq Nat \X {"1xx", "2xx"}
BY DEF Replies, Peers

LEMMA InitTInv == Init => TInv
<1> SUFFICES ASSUME Init PROVE TInv
  OBVIOUS
<1>1. timers \in [DOMAIN timers -> Nat] /\ DOMAIN timers = {}
  BY DEF Init
<1>2. sendTimes \in Seq(Nat)
  BY DEF Init
<1>3. now \in Nat /\ rtx \in 0..MaxRetransmissions /\ loss \in Nat
  BY DEF Init
<1>4. /\ kind \in {"ICT", "NICT"}
      /\ state \in {"INITIAL", "TRYING", "PROCEEDING", "ACCEPTED", "TERMINATED"}
      /\ answers \subseteq Nat \X {"1xx", "2xx"}
      /\ {timedOut, answered, cleanedUp} \subseteq BOOLEAN
      /\ latency \in Latencies /\ peer \in Peers
  BY DEF Init
<1>. QED  BY <1>1, <1>2, <1>3, <1>4 DEF TInv, TypeOK
\* _send_request keeps the send times and the replies in flight typed.
LEMMA SendRequestType ==
    ASSUME TInv, SendRequest
    PROVE  sendTimes' \in Seq(Nat) /\ answers' \subseteq Nat \X {"1xx", "2xx"}
BY RepliesType DEF SendRequest, TInv, TypeOK

LEMMA TInvStep == TInv /\ [Next]_vars => TInv'
<1> SUFFICES ASSUME TInv, [Next]_vars PROVE TInv'
  OBVIOUS
<1>0. /\ now \in Nat /\ rtx \in 0..MaxRetransmissions
      /\ timers \in [DOMAIN timers -> Nat] /\ DOMAIN timers \subseteq TimerNames
      /\ kind \in {"ICT", "NICT"}
  BY DEF TInv, TypeOK, TimerNames
<1>k. RetransmitTimer(kind) \in {"A", "E"} /\ TimeoutTimer(kind) \in {"B", "F"}
  BY <1>0 DEF RetransmitTimer, TimeoutTimer
<1>1. CASE Start
  <2>1. sendTimes' \in Seq(Nat) /\ answers' \subseteq Nat \X {"1xx", "2xx"}
    BY <1>1, SendRequestType DEF Start
  <2>2. Duration(RetransmitTimer(kind)) \in Nat /\ Duration(TimeoutTimer(kind)) \in Nat
    BY DEF Duration
  <2> DEFINE ts == Arm(timers, RetransmitTimer(kind), Duration(RetransmitTimer(kind)))
  <2>3. ts \in [DOMAIN ts -> Nat] /\ DOMAIN ts \subseteq TimerNames
    BY <1>0, <1>k, <2>2 DEF Arm, TimerNames
  <2>4. /\ timers' \in [DOMAIN timers' -> Nat]
        /\ DOMAIN timers' \subseteq TimerNames
    <3>1. timers' = Arm(ts, TimeoutTimer(kind), Duration(TimeoutTimer(kind)))
      BY <1>1 DEF Start
    <3>. QED  BY <1>0, <1>k, <2>2, <2>3, <3>1 DEF Arm, TimerNames
  <2>. QED  BY <1>1, <2>1, <2>4 DEF Start, TInv, TypeOK, TimerNames
<1>2. ASSUME NEW tm \in {"A", "E"}, FireRetransmit(tm)
      PROVE  TInv'
  <2>1. CASE rtx >= MaxRetransmissions
    <3>a. /\ timers' \in [DOMAIN timers' -> Nat]
          /\ DOMAIN timers' \subseteq TimerNames
      BY <1>0, <1>2, <2>1 DEF FireRetransmit, Disarm, TimerNames
    <3>. QED  BY <1>2, <2>1, <3>a DEF FireRetransmit, TInv, TypeOK, TimerNames
  <2>2. CASE ~(rtx >= MaxRetransmissions)
    <3>a. rtx + 1 \in 1..8 /\ rtx' = rtx + 1 /\ rtx + 1 \in 0..MaxRetransmissions
      BY <1>0, <1>2, <2>2 DEF FireRetransmit
    <3>b. NextInterval(rtx + 1) \in Nat
      BY <3>a, NextIntervalNat
    <3>c. /\ timers' \in [DOMAIN timers' -> Nat]
          /\ DOMAIN timers' \subseteq TimerNames
      BY <1>0, <1>2, <2>2, <3>b DEF FireRetransmit, Arm, TimerNames
    <3>d. sendTimes' \in Seq(Nat) /\ answers' \subseteq Nat \X {"1xx", "2xx"}
      BY <1>2, <2>2, SendRequestType DEF FireRetransmit
    <3>. QED  BY <1>2, <2>2, <3>a, <3>c, <3>d DEF FireRetransmit, TInv, TypeOK, TimerNames
  <2>. QED  BY <2>1, <2>2
<1>3. ASSUME NEW tm, \/ tm \in {"B", "F"} /\ FireTimeout(tm)
                     \/ tm = "L" /\ FireIgnored(tm)
      PROVE  TInv'
  <2>1. timers' = Disarm(timers, {tm})
    BY <1>3 DEF FireTimeout, FireIgnored
  <2>2. /\ timers' \in [DOMAIN timers' -> Nat]
        /\ DOMAIN timers' \subseteq TimerNames
    BY <1>0, <2>1 DEF Disarm, TimerNames
  <2>. QED  BY <1>3, <2>2 DEF FireTimeout, FireIgnored, TInv, TypeOK, TimerNames
<1>4. ASSUME NEW r \in answers, ReceiveResponse(r)
      PROVE  TInv'
  <2>1. \E S : timers' = Disarm(timers, S) \/ timers' = Arm(Disarm(timers, S), "L", Duration("L"))
                \/ timers' = timers
    BY <1>4 DEF ReceiveResponse, OnProvisional, OnSuccess
  <2>2. PICK S : timers' = Disarm(timers, S) \/ timers' = Arm(Disarm(timers, S), "L", Duration("L"))
                \/ timers' = timers
    BY <2>1
  <2>3. /\ Disarm(timers, S) \in [DOMAIN Disarm(timers, S) -> Nat]
        /\ DOMAIN Disarm(timers, S) \subseteq TimerNames
    BY <1>0, DisarmType
  <2>4. /\ timers' \in [DOMAIN timers' -> Nat]
        /\ DOMAIN timers' \subseteq TimerNames
    BY <1>0, <2>2, <2>3 DEF Arm, Duration, TimerNames
  <2>5. state' \in {"INITIAL", "TRYING", "PROCEEDING", "ACCEPTED", "TERMINATED"}
        /\ answered' \in BOOLEAN
    BY <1>4 DEF ReceiveResponse, OnProvisional, OnSuccess, TInv, TypeOK
  <2>. QED  BY <1>4, <2>4, <2>5 DEF ReceiveResponse, TInv, TypeOK, TimerNames
<1>5. CASE Cleanup
  <2>1. /\ timers' \in [DOMAIN timers' -> Nat]
        /\ DOMAIN timers' \subseteq TimerNames
    BY <1>0, <1>5 DEF Cleanup, Disarm, TimerNames
  <2>. QED  BY <1>5, <2>1 DEF Cleanup, TInv, TypeOK, TimerNames
<1>6. CASE Tick
  <2> DEFINE pending == {timers[tm] : tm \in DOMAIN timers} \cup {r[1] : r \in answers}
  <2>1. pending \in SUBSET Nat /\ pending # {}
    BY <1>0, <1>6 DEF Tick, TInv, TypeOK
  <2>2. now' = Min(pending)
    BY <1>6 DEF Tick
  <2>3. now' \in Nat
    BY <2>1, <2>2, MinOfNats
  <2>. QED  BY <1>6, <2>3 DEF Tick, TInv, TypeOK
<1>7. CASE UNCHANGED vars
  BY <1>7 DEF vars, TInv, TypeOK
<1>. QED  BY <1>1, <1>2, <1>3, <1>4, <1>5, <1>6, <1>7 DEF Next

(***************************************************************************)
(* Type correctness of the timed client transaction, for every timing and *)
(* every cap up to the code's 7: the clock the asyncio loop sleeps to is  *)
(* a natural, every send time and response arrival is one, and the       *)
(* retransmission count stays within the cap.                             *)
(***************************************************************************)
THEOREM TypeCorrect == Spec => []TypeOK
<1>1. TInv => TypeOK
  BY DEF TInv
<1>. QED  BY InitTInv, TInvStep, <1>1, PTL DEF Spec
-----------------------------------------------------------------------------
(***************************************************************************)
(* The reference schedule, unfolded.  RefInterval and RefSendTime are    *)
(* recursive functions on Nat \ {0}; RI0 and RS0 are the same functions   *)
(* shifted to start at 0, the form NatInductiveDef justifies, and serve  *)
(* as the witnesses that the two definitions have a solution.           *)
(***************************************************************************)
RI0[n \in Nat] == IF n = 0 THEN T1 ELSE Min({T2, 2 * RI0[n - 1]})

RS0[n \in Nat] == IF n = 0 THEN 0 ELSE RS0[n - 1] + RI0[n - 1]

LEMMA RI0Def == NatInductiveDefConclusion(RI0, T1, LAMBDA v, n : Min({T2, 2 * v}))
<1>1. NatInductiveDefHypothesis(RI0, T1, LAMBDA v, n : Min({T2, 2 * v}))
  BY DEF NatInductiveDefHypothesis, RI0
<1>. QED  BY <1>1, NatInductiveDef

LEMMA RI0Type == \A n \in Nat : RI0[n] \in Nat
<1>1. \A n \in Nat : RI0[n] = IF n = 0 THEN T1 ELSE Min({T2, 2 * RI0[n - 1]})
  BY RI0Def DEF NatInductiveDefConclusion
<1> DEFINE Bad == {n \in Nat : RI0[n] \notin Nat}
<1>2. SUFFICES ASSUME Bad # {} PROVE FALSE
  OBVIOUS
<1> DEFINE m == Min(Bad)
<1>3. m \in Bad /\ \A y \in Bad : m <= y
  BY <1>2, MinOfNats
<1>4. CASE m = 0
  BY <1>1, <1>3, <1>4
<1>5. CASE m # 0
  <2>1. m - 1 \in Nat /\ m - 1 \notin Bad
    BY <1>3, <1>5
  <2>2. RI0[m - 1] \in Nat
    BY <2>1
  <2>3. RI0[m] = Min({T2, 2 * RI0[m - 1]})
    BY <1>1, <1>3, <1>5
  <2>4. Min({T2, 2 * RI0[m - 1]}) = IF T2 <= 2 * RI0[m - 1] THEN T2 ELSE 2 * RI0[m - 1]
    BY <2>2, MinPair
  <2>5. RI0[m] \in Nat
    BY <2>2, <2>3, <2>4
  <2>. QED  BY <1>3, <2>5
<1>. QED  BY <1>4, <1>5

LEMMA RS0Def == NatInductiveDefConclusion(RS0, 0, LAMBDA v, n : v + RI0[n - 1])
<1>1. NatInductiveDefHypothesis(RS0, 0, LAMBDA v, n : v + RI0[n - 1])
  BY DEF NatInductiveDefHypothesis, RS0
<1>. QED  BY <1>1, NatInductiveDef

LEMMA RS0Type == \A n \in Nat : RS0[n] \in Nat
<1>1. \A n \in Nat : RS0[n] = IF n = 0 THEN 0 ELSE RS0[n - 1] + RI0[n - 1]
  BY RS0Def DEF NatInductiveDefConclusion
<1> DEFINE Bad == {n \in Nat : RS0[n] \notin Nat}
<1>2. SUFFICES ASSUME Bad # {} PROVE FALSE
  OBVIOUS
<1> DEFINE m == Min(Bad)
<1>3. m \in Bad /\ \A y \in Bad : m <= y
  BY <1>2, MinOfNats
<1>4. CASE m = 0
  BY <1>1, <1>3, <1>4
<1>5. CASE m # 0
  <2>1. m - 1 \in Nat /\ m - 1 \notin Bad
    BY <1>3, <1>5
  <2>2. RS0[m - 1] \in Nat
    BY <2>1
  <2>3. RS0[m] \in Nat
    BY <1>1, <1>3, <1>5, <2>2, RI0Type
  <2>. QED  BY <1>3, <2>3
<1>. QED  BY <1>4, <1>5
\* RefInterval solves its defining equation: RI0 shifted by one is a solution.
LEMMA RefIntervalDef ==
    RefInterval = [n \in Nat \ {0} |->
                     IF n = 1 THEN T1 ELSE Min({T2, 2 * RefInterval[n - 1]})]
<1> DEFINE w == [n \in Nat \ {0} |-> RI0[n - 1]]
<1>1. \A n \in Nat : RI0[n] = IF n = 0 THEN T1 ELSE Min({T2, 2 * RI0[n - 1]})
  BY RI0Def DEF NatInductiveDefConclusion
<1>2. w = [n \in Nat \ {0} |-> IF n = 1 THEN T1 ELSE Min({T2, 2 * w[n - 1]})]
  <2>1. ASSUME NEW n \in Nat \ {0}
        PROVE  w[n] = IF n = 1 THEN T1 ELSE Min({T2, 2 * w[n - 1]})
    <3>1. CASE n = 1
      <4>1. w[n] = RI0[0]
        BY <3>1
      <4>2. RI0[0] = T1
        BY <1>1
      <4>. QED  BY <3>1, <4>1, <4>2
    <3>2. CASE n # 1
      <4>1. w[n - 1] = RI0[n - 2] /\ w[n] = RI0[n - 1] /\ n - 1 \in Nat \ {0}
        BY <3>2
      <4>. QED  BY <1>1, <3>2, <4>1
    <3>. QED  BY <3>1, <3>2
  <2>. QED  BY <2>1
<1>3. \E g : g = [n \in Nat \ {0} |-> IF n = 1 THEN T1 ELSE Min({T2, 2 * g[n - 1]})]
  BY <1>2
<1>. QED  BY <1>3 DEF RefInterval

\* ... and so it is RI0 shifted by one.
LEMMA RefIntervalIs == \A n \in Nat \ {0} : RefInterval[n] = RI0[n - 1]
<1>1. \A n \in Nat : RI0[n] = IF n = 0 THEN T1 ELSE Min({T2, 2 * RI0[n - 1]})
  BY RI0Def DEF NatInductiveDefConclusion
<1>2. \A n \in Nat \ {0} :
        RefInterval[n] = IF n = 1 THEN T1 ELSE Min({T2, 2 * RefInterval[n - 1]})
  BY RefIntervalDef
<1> DEFINE Bad == {n \in Nat \ {0} : RefInterval[n] # RI0[n - 1]}
<1>3. SUFFICES ASSUME Bad # {} PROVE FALSE
  OBVIOUS
<1> DEFINE m == Min(Bad)
<1>4. m \in Bad /\ \A y \in Bad : m <= y
  BY <1>3, MinOfNats
<1>5. CASE m = 1
  <2>0. m \in Nat \ {0}
    BY <1>4
  <2>1. RefInterval[m] = T1
    BY <1>2, <1>5, <2>0
  <2>2. RI0[m - 1] = RI0[0]
    BY <1>5
  <2>3. RI0[0] = T1
    BY <1>1
  <2>. QED  BY <1>4, <2>1, <2>2, <2>3
<1>6. CASE m # 1
  <2>1. m - 1 \in Nat \ {0} /\ m - 1 \notin Bad
    BY <1>4, <1>6
  <2>2. RefInterval[m - 1] = RI0[(m - 1) - 1]
    BY <2>1
  <2>2a. (m - 1) - 1 = m - 2
    BY <1>4
  <2>2b. RefInterval[m - 1] = RI0[m - 2]
    BY <2>2, <2>2a
  <2>3. RefInterval[m] = Min({T2, 2 * RefInterval[m - 1]})
    BY <1>2, <1>4, <1>6
  <2>4. RI0[m - 1] = Min({T2, 2 * RI0[m - 2]})
    BY <1>1, <1>4, <1>6
  <2>. QED  BY <1>4, <2>2b, <2>3, <2>4
<1>. QED  BY <1>5, <1>6

\* RefSendTime solves its defining equation: RS0 shifted by one is a solution.
LEMMA RefSendTimeDef ==
    RefSendTime = [n \in Nat \ {0} |->
                     IF n = 1 THEN 0 ELSE RefSendTime[n - 1] + RefInterval[n - 1]]
<1> DEFINE w == [n \in Nat \ {0} |-> RS0[n - 1]]
<1>1. \A n \in Nat : RS0[n] = IF n = 0 THEN 0 ELSE RS0[n - 1] + RI0[n - 1]
  BY RS0Def DEF NatInductiveDefConclusion
<1>2. w = [n \in Nat \ {0} |-> IF n = 1 THEN 0 ELSE w[n - 1] + RefInterval[n - 1]]
  <2>1. ASSUME NEW n \in Nat \ {0}
        PROVE  w[n] = IF n = 1 THEN 0 ELSE w[n - 1] + RefInterval[n - 1]
    <3>1. CASE n = 1
      <4>1. w[n] = RS0[0]
        BY <3>1
      <4>2. RS0[0] = 0
        BY <1>1
      <4>. QED  BY <3>1, <4>1, <4>2
    <3>2. CASE n # 1
      <4>1. w[n - 1] = RS0[n - 2] /\ w[n] = RS0[n - 1] /\ n - 1 \in Nat \ {0}
        BY <3>2
      <4>2. RefInterval[n - 1] = RI0[(n - 1) - 1]
        BY <4>1, RefIntervalIs
      <4>3. RefInterval[n - 1] = RI0[n - 2]
        BY <4>2
      <4>4. RS0[n - 1] = RS0[n - 2] + RI0[n - 2]
        BY <1>1, <3>2
      <4>. QED  BY <3>2, <4>1, <4>3, <4>4
    <3>. QED  BY <3>1, <3>2
  <2>. QED  BY <2>1
<1>3. \E g : g = [n \in Nat \ {0} |-> IF n = 1 THEN 0 ELSE g[n - 1] + RefInterval[n - 1]]
  BY <1>2
<1>. QED  BY <1>3 DEF RefSendTime

\* The reference send times and intervals are naturals.
LEMMA RefType ==
    \A n \in Nat \ {0} : RefSendTime[n] \in Nat /\ RefInterval[n] \in Nat
<1>1. \A n \in Nat \ {0} : RefSendTime[n] = RS0[n - 1]
  <2>1. \A n \in Nat \ {0} : RefSendTime[n] = IF n = 1 THEN 0 ELSE RefSendTime[n - 1] + RefInterval[n - 1]
    BY RefSendTimeDef
  <2> DEFINE Bad == {n \in Nat \ {0} : RefSendTime[n] # RS0[n - 1]}
  <2>2. SUFFICES ASSUME Bad # {} PROVE FALSE
    OBVIOUS
  <2> DEFINE m == Min(Bad)
  <2>3. m \in Bad /\ \A y \in Bad : m <= y /\ m \in Nat \ {0}
    BY <2>2, MinOfNats
  <2>4. \A n \in Nat : RS0[n] = IF n = 0 THEN 0 ELSE RS0[n - 1] + RI0[n - 1]
    BY RS0Def DEF NatInductiveDefConclusion
  <2>5. CASE m = 1
    <3>1. RefSendTime[m] = 0
      BY <2>1, <2>3, <2>5
    <3>2. RS0[m - 1] = RS0[0] /\ RS0[0] = 0
      BY <2>4, <2>5
    <3>. QED  BY <2>3, <3>1, <3>2
  <2>6. CASE m # 1
    <3>1. m - 1 \in Nat \ {0} /\ m - 1 \notin Bad
      BY <2>3, <2>6
    <3>2. RefSendTime[m - 1] = RS0[(m - 1) - 1]
      BY <3>1
    <3>3. RefSendTime[m - 1] = RS0[m - 2]
      BY <3>2, <2>3
    <3>4. RefInterval[m - 1] = RI0[(m - 1) - 1]
      BY <3>1, RefIntervalIs
    <3>5. RefInterval[m - 1] = RI0[m - 2]
      BY <3>4, <2>3
    <3>6. RefSendTime[m] = RefSendTime[m - 1] + RefInterval[m - 1]
      BY <2>1, <2>3, <2>6
    <3>7. RS0[m - 1] = RS0[m - 2] + RI0[m - 2]
      BY <2>4, <2>3, <2>6
    <3>. QED  BY <2>3, <3>3, <3>5, <3>6, <3>7
  <2>. QED  BY <2>5, <2>6
<1>2. \A n \in Nat \ {0} : RefInterval[n] = RI0[n - 1]
  BY RefIntervalIs
<1>. QED  BY <1>1, <1>2, RI0Type, RS0Type

(***************************************************************************)
(* The interval the code arms after its n-th retransmission, T1 doubled  *)
(* n times and capped at T2 (fsm.py's min(2 ** n * T1, T2)), is the      *)
(* (n+1)-th interval of the reference schedule, which doubles the       *)
(* previous interval and caps it.  The two agree because capping twice   *)
(* is capping once: min(T2, 2 * min(T2, x)) = min(T2, 2 * x).            *)
(***************************************************************************)
P2(n) == 2^n

\* The doubling factor, kept opaque so that no obligation carries 2^n.
LEMMA P2Step ==
    ASSUME NEW n \in 1..8
    PROVE  P2(n) \in Nat \ {0} /\ P2(n - 1) \in Nat \ {0} /\ P2(n) = 2 * P2(n - 1)
<1>1. 2^n \in Nat \ {0} /\ 2^n = 2 * 2^(n - 1)
  BY Pow2
<1>2. CASE n = 1
  <2>1. 2^(n - 1) = 1
    BY <1>2
  <2>. QED  BY <1>1, <2>1 DEF P2
<1>3. CASE n # 1
  <2>0. PICK k \in 1..8 : k = n - 1
    BY <1>3
  <2>2. 2^k \in Nat \ {0}
    BY Pow2
  <2>1. 2^(n - 1) \in Nat \ {0}
    BY <2>0, <2>2
  <2>. QED  BY <1>1, <2>1 DEF P2
<1>. QED  BY <1>2, <1>3

IntervalClosed(n) == RefInterval[n + 1] = Min({T2, P2(n) * T1})

LEMMA NextIntervalIs == \A n \in 1..8 : NextInterval(n) = RefInterval[n + 1]
<1>1. \A k \in Nat \ {0} :
        RefInterval[k] = IF k = 1 THEN T1 ELSE Min({T2, 2 * RefInterval[k - 1]})
  BY RefIntervalDef
<1>2. SUFFICES \A n \in 1..8 : IntervalClosed(n)
  BY DEF NextInterval, IntervalClosed, P2
<1> DEFINE Bad == {n \in 1..8 : ~IntervalClosed(n)}
<1>3. SUFFICES ASSUME Bad # {} PROVE FALSE
  OBVIOUS
<1> DEFINE m == Min(Bad)
<1>4. m \in Bad /\ (\A y \in Bad : m <= y) /\ m \in 1..8
  <2>1. Bad \in SUBSET Nat
    OBVIOUS
  <2>. QED  BY <1>3, <2>1, MinOfNats
<1>5. CASE m = 1
  <2>1. RefInterval[2] = Min({T2, 2 * RefInterval[1]})
    BY <1>1
  <2>2. RefInterval[1] = T1
    <3>1. 1 \in Nat \ {0}
      OBVIOUS
    <3>2. RefInterval[1] = IF 1 = 1 THEN T1 ELSE Min({T2, 2 * RefInterval[1 - 1]})
      BY <1>1, <3>1, Zenon
    <3>. QED  BY <3>2
  <2>3. P2(1) = 2 * P2(1 - 1)
    BY P2Step
  <2>3a. P2(0) = 1
    BY DEF P2
  <2>4. IntervalClosed(1)
    BY <2>1, <2>2, <2>3, <2>3a DEF IntervalClosed
  <2>. QED  BY <1>4, <1>5, <2>4
<1>6. CASE m # 1
  <2>1. m - 1 \in 1..8 /\ m - 1 \notin Bad
    BY <1>4, <1>6
  <2>2. IntervalClosed(m - 1)
    BY <2>1
  <2>3. RefInterval[m] = Min({T2, P2(m - 1) * T1})
    BY <2>2, <1>4 DEF IntervalClosed
  <2>4. RefInterval[m + 1] = Min({T2, 2 * RefInterval[m]})
    BY <1>1, <1>4
  <2> DEFINE x == P2(m - 1) * T1
  <2>5. P2(m - 1) \in Nat \ {0} /\ P2(m) = 2 * P2(m - 1)
    BY <1>4, P2Step
  <2>6. x \in Nat /\ P2(m) * T1 = 2 * x
    BY <2>5
  <2>7. Min({T2, x}) = IF T2 <= x THEN T2 ELSE x
    BY <2>6, MinPair
  <2>8. Min({T2, 2 * Min({T2, x})}) = Min({T2, 2 * x})
    <3>1. CASE T2 <= x
      <4>1. Min({T2, 2 * T2}) = T2
        BY MinPair
      <4>2. Min({T2, 2 * x}) = T2
        <5>1. Min({T2, 2 * x}) = IF T2 <= 2 * x THEN T2 ELSE 2 * x
          BY <2>6, MinPair
        <5>. QED  BY <2>6, <3>1, <5>1
      <4>. QED  BY <2>7, <3>1, <4>1, <4>2
    <3>2. CASE ~(T2 <= x)
      BY <2>7, <3>2
    <3>. QED  BY <3>1, <3>2
  <2>9. IntervalClosed(m)
    BY <2>3, <2>4, <2>6, <2>8 DEF IntervalClosed
  <2>. QED  BY <1>4, <2>9
<1>. QED  BY <1>5, <1>6
-----------------------------------------------------------------------------
(***************************************************************************)
(* The inductive invariant behind ScheduleMatchesSpec.  One request is    *)
(* sent at start() and one per retransmission, so the log has rtx + 1    *)
(* entries once started.  Only the kind's own retransmission timer (A or *)
(* E) is ever armed, and while it is, it expires at the reference time  *)
(* of the next send: the previous send plus the current interval.  Before *)
(* start() nothing has happened.                                         *)
(***************************************************************************)
SInv ==
    /\ Len(sendTimes) = IF state = "INITIAL" THEN 0 ELSE rtx + 1
    /\ ScheduleMatchesSpec
    /\ DOMAIN timers \cap {"A", "E"} \subseteq {RetransmitTimer(kind)}
    /\ RetransmitTimer(kind) \in DOMAIN timers =>
         timers[RetransmitTimer(kind)] = RefSendTime[rtx + 1] + RefInterval[rtx + 1]
    /\ state = "INITIAL" =>
         now = 0 /\ rtx = 0 /\ DOMAIN timers = {} /\ answers = {}

\* The reference schedule's first send and interval, and how it steps.
LEMMA RefFacts ==
    /\ RefSendTime[1] = 0 /\ RefInterval[1] = T1
    /\ \A k \in Nat \ {0} : RefSendTime[k + 1] = RefSendTime[k] + RefInterval[k]
<1>0. 1 \in Nat \ {0}
  OBVIOUS
<1>1. RefSendTime[1] = 0
  <2>0. \A k \in Nat \ {0} :
          RefSendTime[k] = IF k = 1 THEN 0 ELSE RefSendTime[k - 1] + RefInterval[k - 1]
    BY RefSendTimeDef
  <2>1. RefSendTime[1] = IF 1 = 1 THEN 0 ELSE RefSendTime[1 - 1] + RefInterval[1 - 1]
    BY <1>0, <2>0, Zenon
  <2>. QED  BY <2>1
<1>2. RefInterval[1] = T1
  <2>0. \A k \in Nat \ {0} :
          RefInterval[k] = IF k = 1 THEN T1 ELSE Min({T2, 2 * RefInterval[k - 1]})
    BY RefIntervalDef
  <2>1. RefInterval[1] = IF 1 = 1 THEN T1 ELSE Min({T2, 2 * RefInterval[1 - 1]})
    BY <1>0, <2>0, Zenon
  <2>. QED  BY <2>1
<1>3. ASSUME NEW k \in Nat \ {0}
      PROVE  RefSendTime[k + 1] = RefSendTime[k] + RefInterval[k]
  <2>1. k + 1 \in Nat \ {0} /\ k + 1 # 1 /\ (k + 1) - 1 = k
    OBVIOUS
  <2>2. RefSendTime[k + 1] = IF k + 1 = 1 THEN 0
                             ELSE RefSendTime[(k + 1) - 1] + RefInterval[(k + 1) - 1]
    BY <2>1, RefSendTimeDef
  <2>. QED  BY <2>1, <2>2
<1>. QED  BY <1>1, <1>2, <1>3

LEMMA InitSInv == Init => SInv
BY DEF Init, SInv, ScheduleMatchesSpec

\* A step that leaves the retransmission timer's expiry alone, or removes it.
Kept ==
    \A x \in DOMAIN timers' \cap {"A", "E"} : x \in DOMAIN timers /\ timers'[x] = timers[x]

\* A started transaction that neither sends nor re-arms Timer A/E keeps SInv.
LEMMA KeptSInv ==
    ASSUME SInv, state # "INITIAL", state' # "INITIAL", Kept,
           UNCHANGED <<rtx, sendTimes, kind>>
    PROVE  SInv'
<1>1. Len(sendTimes') = rtx' + 1
  BY DEF SInv
<1>2. ScheduleMatchesSpec'
  BY DEF SInv, ScheduleMatchesSpec
<1>3. RetransmitTimer(kind) \in {"A", "E"}
  BY DEF RetransmitTimer
<1>4. DOMAIN timers' \cap {"A", "E"} \subseteq {RetransmitTimer(kind')}
  BY DEF Kept, SInv
<1>5. RetransmitTimer(kind') \in DOMAIN timers' =>
        timers'[RetransmitTimer(kind')] = RefSendTime[rtx' + 1] + RefInterval[rtx' + 1]
  BY <1>3 DEF Kept, SInv
<1>. QED  BY <1>1, <1>2, <1>4, <1>5 DEF SInv


LEMMA SInvStep == TInv /\ SInv /\ [Next]_vars => SInv'
<1> SUFFICES ASSUME TInv, SInv, [Next]_vars PROVE SInv'
  OBVIOUS
<1>0. /\ now \in Nat /\ rtx \in 0..MaxRetransmissions /\ sendTimes \in Seq(Nat)
      /\ timers \in [DOMAIN timers -> Nat]
  BY DEF TInv, TypeOK
<1>k. RetransmitTimer(kind) \in {"A", "E"} /\ TimeoutTimer(kind) \in {"B", "F"}
  BY DEF RetransmitTimer, TimeoutTimer
\* Timers are armed only once started, so a step that fires one is not in INITIAL.
<1>i. DOMAIN timers # {} \/ answers # {} => state # "INITIAL"
  BY DEF SInv
<1>1. CASE Start
  <2>0. state = "INITIAL" /\ now = 0 /\ rtx = 0 /\ DOMAIN timers = {}
    BY <1>1 DEF Start, SInv
  <2>1. sendTimes = << >>
    BY <1>0, <2>0 DEF SInv
  <2>2. sendTimes' = <<0>> /\ state' = "TRYING" /\ rtx' = 0 /\ kind' = kind
    BY <1>1, <2>0, <2>1 DEF Start, SendRequest
  <2>3. Len(sendTimes') = rtx' + 1 /\ ScheduleMatchesSpec'
    BY <2>2, RefFacts DEF ScheduleMatchesSpec
  <2>4. /\ DOMAIN timers' = {RetransmitTimer(kind), TimeoutTimer(kind)}
        /\ timers'[RetransmitTimer(kind)] = T1
    BY <1>1, <1>k, <2>0 DEF Start, Arm, Duration
  <2>5. timers'[RetransmitTimer(kind')] = RefSendTime[rtx' + 1] + RefInterval[rtx' + 1]
    BY <2>2, <2>4, RefFacts
  <2>. QED  BY <1>k, <2>2, <2>3, <2>4, <2>5 DEF SInv
<1>2. ASSUME NEW tm \in {"A", "E"}, FireRetransmit(tm)
      PROVE  SInv'
  <2>0. /\ tm \in DOMAIN timers /\ timers[tm] = now /\ tm = RetransmitTimer(kind)
        /\ state # "INITIAL" /\ kind' = kind
    BY <1>2, <1>i DEF FireRetransmit, SInv
  <2>1. CASE rtx >= MaxRetransmissions
    <3>1. state' = "TERMINATED" /\ UNCHANGED <<rtx, sendTimes, kind>>
      BY <1>2, <2>1 DEF FireRetransmit
    <3>2. Kept
      BY <1>2, <2>1 DEF FireRetransmit, Kept, Disarm
    <3>. QED  BY <2>0, <3>1, <3>2, KeptSInv
  <2>2. CASE ~(rtx >= MaxRetransmissions)
    <3>0. rtx + 1 \in 1..8
      <4>1. rtx \in 0..MaxRetransmissions /\ rtx < MaxRetransmissions
        BY <1>0, <2>2
      <4>. QED  BY <4>1
    <3>1. /\ rtx' = rtx + 1 /\ rtx + 1 \in 1..8 /\ state' = state
          /\ sendTimes' = Append(sendTimes, now)
          /\ timers' = Arm(timers, tm, NextInterval(rtx + 1))
      BY <1>2, <2>2, <3>0 DEF FireRetransmit, SendRequest
    <3>2. now = RefSendTime[rtx + 2]
      <4>1. now = RefSendTime[rtx + 1] + RefInterval[rtx + 1]
        BY <2>0 DEF SInv
      <4>2. RefSendTime[(rtx + 1) + 1] = RefSendTime[rtx + 1] + RefInterval[rtx + 1]
        BY <1>0, RefFacts
      <4>. QED  BY <1>0, <4>1, <4>2
    <3>3. Len(sendTimes) = rtx + 1
      BY <2>0 DEF SInv
    <3>4. Len(sendTimes') = rtx' + 1 /\ ScheduleMatchesSpec'
      <4>1. Len(sendTimes') = rtx + 2
        BY <1>0, <3>1, <3>3
      <4>2. ASSUME NEW i \in 1..Len(sendTimes') PROVE sendTimes'[i] = RefSendTime[i]
        <5>1. CASE i <= rtx + 1
          BY <1>0, <3>1, <3>3, <5>1 DEF SInv, ScheduleMatchesSpec
        <5>2. CASE i = rtx + 2
          BY <1>0, <3>1, <3>2, <3>3, <5>2
        <5>. QED  BY <1>0, <4>1, <5>1, <5>2
      <4>. QED  BY <1>0, <3>1, <4>1, <4>2 DEF ScheduleMatchesSpec
    <3>5. NextInterval(rtx + 1) = RefInterval[rtx + 2]
      <4>1. NextInterval(rtx + 1) = RefInterval[(rtx + 1) + 1]
        BY <3>1, NextIntervalIs
      <4>. QED  BY <1>0, <4>1
    <3>6. /\ DOMAIN timers' = DOMAIN timers
          /\ timers'[tm] = RefSendTime[rtx' + 1] + RefInterval[rtx' + 1]
      <4>1. DOMAIN timers' = DOMAIN timers /\ timers'[tm] = now + NextInterval(rtx + 1)
        BY <2>0, <3>1 DEF Arm
      <4>2. rtx' + 1 = rtx + 2
        BY <1>0, <3>1
      <4>. QED  BY <3>2, <3>5, <4>1, <4>2
    <3>. QED  BY <2>0, <3>1, <3>4, <3>6 DEF SInv
  <2>. QED  BY <2>1, <2>2
<1>3. ASSUME NEW tm, \/ tm \in {"B", "F"} /\ FireTimeout(tm)
                     \/ tm = "L" /\ FireIgnored(tm)
      PROVE  SInv'
  <2>1. timers' = Disarm(timers, {tm}) /\ tm \in DOMAIN timers
        /\ state' \in {state, "TERMINATED"} /\ UNCHANGED <<rtx, sendTimes, kind>>
    BY <1>3 DEF FireTimeout, FireIgnored
  <2>2. Kept
    BY <2>1 DEF Kept, Disarm
  <2>. QED  BY <1>i, <2>1, <2>2, KeptSInv
<1>4. ASSUME NEW r \in answers, ReceiveResponse(r)
      PROVE  SInv'
  <2>1. \E S : timers' = Disarm(timers, S) \/ timers' = Arm(Disarm(timers, S), "L", Duration("L"))
                \/ timers' = timers
    BY <1>4 DEF ReceiveResponse, OnProvisional, OnSuccess
  <2>2. Kept
    BY <2>1 DEF Kept, Disarm, Arm
  <2>3. state' # "INITIAL"
    BY <1>4, <1>i DEF ReceiveResponse, OnProvisional, OnSuccess
  <2>4. UNCHANGED <<rtx, sendTimes, kind>>
    BY <1>4 DEF ReceiveResponse
  <2>. QED  BY <1>i, <2>2, <2>3, <2>4, KeptSInv
<1>5. CASE Cleanup
  <2>1. Kept
    BY <1>5 DEF Cleanup, Kept, Disarm
  <2>. QED  BY <1>5, <2>1, KeptSInv DEF Cleanup
<1>6. CASE Tick
  <2>1. state # "INITIAL"
    BY <1>6 DEF Tick, Due
  <2>2. Kept
    BY <1>6 DEF Tick, Kept
  <2>. QED  BY <1>6, <2>1, <2>2, KeptSInv DEF Tick
<1>7. CASE UNCHANGED vars
  BY <1>7 DEF vars, SInv, ScheduleMatchesSpec
<1>. QED  BY <1>1, <1>2, <1>3, <1>4, <1>5, <1>6, <1>7 DEF Next

(***************************************************************************)
(* The retransmission schedule of _handle_retransmission is RFC 3261's,   *)
(* for every T1, T2 and cap up to the code's 7: the i-th request goes out *)
(* at RefSendTime[i], T1 after the first and then at doubling intervals   *)
(* capped at T2, whatever the losses, the latency and the peer's replies. *)
(***************************************************************************)
THEOREM ScheduleCorrect == Spec => []ScheduleMatchesSpec
<1>1. Init => TInv /\ SInv
  BY InitTInv, InitSInv
<1>2. TInv /\ SInv /\ [Next]_vars => TInv' /\ SInv'
  BY TInvStep, SInvStep
<1>3. TInv /\ SInv => ScheduleMatchesSpec
  BY DEF SInv
<1>. QED  BY <1>1, <1>2, <1>3, PTL DEF Spec

====
