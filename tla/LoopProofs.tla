----------------------------- MODULE LoopProofs -----------------------------
(***************************************************************************)
(* Proofs about the modules of the main loop that live by the millisecond  *)
(* clock: the throughput test (Iperf), the supervision of PLCA (Plca) and  *)
(* the button with the reset sequence (Button).  Each is a specification   *)
(* of its own, and no theorem speaks of two of them.                       *)
(***************************************************************************)
EXTENDS Iperf, Plca, Button, ModArith

\* The two lemmas of ModArith on elapsed time, for the clock.
LEMMA ClockElapsed ==
  ASSUME W \in Nat \ {0}, NEW t \in Int, NEW s \in Int, NEW d \in Nat,
         ((t - s) % W) + d < W
  PROVE  (((t + d) % W) - s) % W = ((t - s) % W) + d
  BY ElapsedMod, Zenon

LEMMA ClockAtMost ==
  ASSUME W \in Nat \ {0}, NEW t \in Int, NEW s \in Int, NEW d \in Nat
  PROVE  (((t + d) % W) - s) % W <= ((t - s) % W) + d
  BY ElapsedAtMost, Zenon

-----------------------------------------------------------------------------
(***************************************************************************)
(* The throughput test                                                     *)
(***************************************************************************)
\* A pending start is that of the last press, which is no longer ago than
\* StartDelay.
StartInv ==
  /\ now \in 0 .. (W - 1) /\ startDelay \in 0 .. (W - 1)
  /\ gap \in 0 .. PressGap
  /\ iperf_running \in BOOLEAN /\ running \in BOOLEAN
  /\ startDelay # 0 =>
       /\ iperf_running
       /\ gap <= StartDelay
       /\ Minus(now, startDelay) = gap
  /\ ~iperf_running => ~running

\* The constants, fact by fact.
LEMMA IperfConstantTypes ==
  /\ W \in Nat \ {0} /\ StartDelay \in Nat /\ MaxStall \in Nat
  /\ EndTime \in Nat \ {0} /\ EndTime + MaxStall < W
  /\ PressGap \in Nat /\ PressGap > StartDelay
  /\ StartDelay + MaxStall < W
  /\ IdMod \in Nat \ {0, 1}
  BY IperfConstants DEF IperfConstants

\* The time since a start grows with the clock, across its wraps.
LEMMA ElapsedGrows ==
  ASSUME NEW t \in Int, NEW s \in Int, NEW d \in Nat,
         Minus(t, s) + d < W
  PROVE  Minus((t + d) % W, s) = Minus(t, s) + d
<1>1. W \in Nat \ {0} /\ ((t - s) % W) + d < W
  BY IperfConstantTypes DEF Minus
<1> QED
  BY <1>1, ClockElapsed, Zenon DEF Minus

\* One iteration of the main loop preserves StartInv.
LEMMA ServiceStep ==
  ASSUME StartInv, NEW d \in 0 .. MaxStall, NEW o \in Outcomes,
         iperf_service(d, o)
  PROVE  StartInv'
<1> USE IperfConstantTypes
<1> DEFINE t == (now + d) % W
<1>1. /\ now' = t /\ gap' = AtMost(gap + d, PressGap)
      /\ startDelay' = IF DelayOver(t) THEN 0 ELSE startDelay
      /\ iperf_running' = iperf_running
  BY DEF iperf_service
<1>2. t \in 0 .. (W - 1)
  <2>1. now + d \in Int
    BY DEF StartInv
  <2> QED
    BY <2>1, DivModDef
<1>3. ASSUME startDelay' # 0
      PROVE  /\ iperf_running'
             /\ gap' <= StartDelay
             /\ Minus(now', startDelay') = gap'
  <2> HIDE DEF t
  <2>1. startDelay # 0 /\ ~DelayOver(t) /\ startDelay' = startDelay
    BY <1>1, <1>3
  <2>2. /\ gap <= StartDelay /\ Minus(now, startDelay) = gap
        /\ iperf_running /\ gap \in Nat
        /\ now \in Int /\ startDelay \in Int /\ d \in Nat
    BY <2>1 DEF StartInv
  <2>3. Minus(t, startDelay) = gap + d
    BY <2>2, ElapsedGrows DEF t
  <2>4. gap + d <= StartDelay
    BY <2>1, <2>2, <2>3 DEF DelayOver
  <2>5. gap' = gap + d
    BY <1>1, <2>2, <2>4 DEF AtMost
  <2>6. Minus(now', startDelay') = Minus(t, startDelay)
    BY <1>1, <2>1 DEF Minus
  <2> QED
    BY <1>1, <2>2, <2>3, <2>4, <2>5, <2>6
<1>4. running' \in BOOLEAN /\ (~iperf_running' => ~running')
  <2> HIDE DEF t
  <2>1. CASE ~(running \/ DelayOver(t))
    <3>1. running' = running
      BY <2>1 DEF iperf_service, t
    <3> QED
      BY <1>1, <3>1 DEF StartInv
  <2>2. CASE running \/ DelayOver(t)
    <3>1. iperf_running
      BY <2>2 DEF StartInv, DelayOver
    <3>2. running' \in BOOLEAN
      BY <2>2, Zenon DEF iperf_service, Finish, SendData, t
    <3> QED
      BY <1>1, <3>1, <3>2
  <2> QED
    BY <2>1, <2>2
<1>5. gap' \in 0 .. PressGap
  BY <1>1 DEF AtMost, StartInv
<1>6. startDelay' \in 0 .. (W - 1) /\ iperf_running' \in BOOLEAN
  BY <1>1 DEF StartInv
<1> HIDE DEF t
<1> QED
  BY <1>1, <1>2, <1>3, <1>4, <1>5, <1>6 DEF StartInv

\* StartInv holds initially and is preserved.
LEMMA StartInit == IperfInit => StartInv
<1> SUFFICES ASSUME IperfInit PROVE StartInv
  OBVIOUS
<1>1. iperf_running \in BOOLEAN /\ running \in BOOLEAN /\ ~running
  BY Zenon DEF IperfInit
<1> QED
  BY <1>1, IperfConstantTypes DEF IperfInit, StartInv

LEMMA StartStep == StartInv /\ [IperfNext]_iperfVars => StartInv'
<1> SUFFICES ASSUME StartInv, [IperfNext]_iperfVars PROVE StartInv'
  OBVIOUS
<1> USE IperfConstantTypes
<1>1. CASE Service
  BY <1>1, ServiceStep DEF Service
<1>2. ASSUME NEW o \in Outcomes, StartIperf(o) PROVE StartInv'
  <2>1. iperf_running' \in BOOLEAN /\ iperf_running'
    BY <1>2, Zenon DEF StartIperf
  <2>2. running' \in BOOLEAN
    BY <1>2, Zenon DEF StartIperf
  <2>3. now' = now /\ startDelay' = now /\ gap' = 0
    BY <1>2 DEF StartIperf
  <2>4. Minus(now', startDelay') = 0
    BY <2>3, ModSmall DEF Minus, StartInv
  <2> QED
    BY <2>1, <2>2, <2>3, <2>4 DEF StartInv
<1>3. CASE StopIperf
  <2>1. iperf_running' \in BOOLEAN /\ running' \in BOOLEAN /\ ~running'
    BY <1>3, Zenon DEF StopIperf
  <2>2. startDelay' = 0
    BY <1>3 DEF StopIperf, StartInv
  <2>3. now' = now /\ gap' = 0
    BY <1>3 DEF StopIperf
  <2> QED
    BY <2>1, <2>2, <2>3 DEF StartInv
<1>4. CASE UNCHANGED iperfVars
  BY <1>4 DEF iperfVars, StartInv, Minus
<1> QED
  BY <1>1, <1>2, <1>3, <1>4 DEF IperfNext

\* When main has stopped iperf, the application is at rest and no delayed
\* start is pending, for every timing of presses, stalls and wraps, although
\* iperf_stop_application leaves startDelay alone.
THEOREM StopFinal == IperfSpec => []StopIsFinal
<1>1. StartInv => StopIsFinal
  BY DEF StartInv, StopIsFinal
<1> QED
  BY <1>1, StartInit, StartStep, PTL DEF IperfSpec

\* The age of a session is what the clock says, as long as it is not over;
\* no session has ended before its time.
SessionInv ==
  /\ start_time \in 0 .. (W - 1) /\ age \in 0 .. EndTime
  /\ iperf_running /\ age < EndTime => Minus(now, start_time) = age
  /\ NotEndedEarly

\* One iteration of the main loop preserves SessionInv.
LEMMA SessionService ==
  ASSUME StartInv, SessionInv, NEW d \in 0 .. MaxStall, NEW o \in Outcomes,
         iperf_service(d, o)
  PROVE  SessionInv'
<1> USE IperfConstantTypes
<1> DEFINE t == (now + d) % W
<1>1. /\ now' = t /\ start_time' = start_time
      /\ age' = AtMost(age + d, EndTime)
      /\ iperf_running' = iperf_running
  BY DEF iperf_service
<1>2. /\ now \in Int /\ start_time \in Int /\ age \in Nat /\ d \in Nat
      /\ age <= EndTime /\ d <= MaxStall
  BY DEF StartInv, SessionInv
<1>3. ASSUME iperf_running, age + d < EndTime
      PROVE  Minus(t, start_time) = age + d
  <2>1. Minus(now, start_time) = age
    BY <1>2, <1>3 DEF SessionInv
  <2> QED
    BY <1>2, <1>3, <2>1, ElapsedGrows
<1> HIDE DEF t
<1>4. /\ age' \in 0 .. EndTime
      /\ age' < EndTime => age + d < EndTime /\ age' = age + d
  BY <1>1, <1>2 DEF AtMost
<1>5. ASSUME iperf_running', age' < EndTime
      PROVE  Minus(now', start_time') = age'
  BY <1>1, <1>3, <1>4, <1>5 DEF Minus
<1>6. outcome' # "early"
  <2>1. CASE (running \/ DelayOver(t)) /\ TimeOver(t)
    <3>1. iperf_running
      BY <2>1 DEF StartInv, DelayOver
    <3>2. ~(age' < EndTime)
      BY <1>2, <1>3, <1>4, <2>1, <3>1 DEF TimeOver
    <3> QED
      BY <2>1, <3>2 DEF iperf_service, Finish, t
  <2>2. CASE ~((running \/ DelayOver(t)) /\ TimeOver(t))
    BY <2>2 DEF iperf_service, SendData, SessionInv, NotEndedEarly, t
  <2> QED
    BY <2>1, <2>2
<1> QED
  BY <1>1, <1>4, <1>5, <1>6 DEF SessionInv, NotEndedEarly

\* Every step preserves SessionInv.
LEMMA SessionStep ==
  StartInv /\ SessionInv /\ [IperfNext]_iperfVars => SessionInv'
<1> SUFFICES ASSUME StartInv, SessionInv, [IperfNext]_iperfVars
             PROVE  SessionInv'
  OBVIOUS
<1> USE IperfConstantTypes
<1>1. CASE Service
  BY <1>1, SessionService DEF Service
<1>2. ASSUME NEW o \in Outcomes, StartIperf(o) PROVE SessionInv'
  <2>1. now' = now /\ start_time' = now /\ age' = 0 /\ outcome' # "early"
    BY <1>2 DEF StartIperf
  <2>2. Minus(now', start_time') = 0
    BY <2>1, ModSmall DEF Minus, StartInv
  <2> QED
    BY <2>1, <2>2 DEF SessionInv, StartInv, NotEndedEarly
<1>3. CASE StopIperf
  <2>1. UNCHANGED <<start_time, age, outcome>>
    BY <1>3 DEF StopIperf
  <2>2. ~iperf_running'
    BY <1>3, Zenon DEF StopIperf
  <2> QED
    BY <2>1, <2>2 DEF SessionInv, NotEndedEarly
<1>4. CASE UNCHANGED iperfVars
  BY <1>4 DEF iperfVars, SessionInv, Minus, NotEndedEarly
<1> QED
  BY <1>1, <1>2, <1>3, <1>4 DEF IperfNext

\* A session that transfer_data ends because of the time has lasted
\* END_TIME, for every place of the session on the clock, stall and delay.
THEOREM SessionNotCut == IperfSpec => []NotEndedEarly
<1>1. IperfInit => SessionInv
  <2> SUFFICES ASSUME IperfInit PROVE SessionInv
    OBVIOUS
  <2>1. ~iperf_running
    BY Zenon DEF IperfInit
  <2> QED
    BY <2>1, IperfConstantTypes DEF IperfInit, SessionInv, NotEndedEarly
<1>2. SessionInv => NotEndedEarly
  BY DEF SessionInv
<1> QED
  BY <1>1, <1>2, StartInit, StartStep, SessionStep, PTL DEF IperfSpec

\* While a session goes on, or is about to, packet_id is the id of the last
\* datagram sent in it.
IdInv ==
  /\ running => startDelay = 0
  /\ prev # -1 /\ (running \/ startDelay # 0) => packet_id = prev
  /\ IdsConsecutive

\* One iteration of the main loop preserves IdInv.
LEMMA IdService ==
  ASSUME IdInv, NEW d \in 0 .. MaxStall, NEW o \in Outcomes,
         iperf_service(d, o)
  PROVE  IdInv'
<1> DEFINE t == (now + d) % W
           run == running \/ DelayOver(t)
<1>1. startDelay' = IF DelayOver(t) THEN 0 ELSE startDelay
  BY DEF iperf_service
<1>2. CASE ~run
  <2>1. UNCHANGED <<running, packet_id, prev, skipped, startDelay>>
    BY <1>1, <1>2 DEF iperf_service
  <2> QED
    BY <2>1 DEF IdInv, IdsConsecutive
<1>3. run => startDelay' = 0 /\ (prev # -1 => packet_id = prev)
  BY <1>1 DEF IdInv, DelayOver
<1>4. CASE run /\ TimeOver(t)
  <2>1. ~running' /\ skipped' = skipped
    BY <1>4, Zenon DEF iperf_service, Finish
  <2> QED
    BY <1>3, <1>4, <2>1 DEF IdInv, IdsConsecutive
<1>5. CASE run /\ ~TimeOver(t)
  <2>1. SendData(o, TRUE, prev)
    BY <1>5 DEF iperf_service
  <2>2. /\ packet_id' = IdAfterSend(packet_id, o)
        /\ prev' = IF o = "ok" THEN packet_id' ELSE prev
    BY <2>1 DEF SendData
  <2>3. ~(o = "ok" /\ prev # -1 /\ packet_id' # NextId(prev))
    BY <1>3, <1>5, <2>2 DEF IdAfterSend
  <2>4. ~skipped'
    BY <2>1, <2>3, Zenon DEF SendData, IdInv, IdsConsecutive
  <2>5. running' => o # "error"
    BY <2>1, Zenon DEF SendData
  <2>6. running' /\ prev' # -1 => packet_id' = prev'
    BY <1>3, <1>5, <2>2, <2>5 DEF IdAfterSend
  <2> QED
    BY <1>3, <1>5, <2>4, <2>6 DEF IdInv, IdsConsecutive
<1> QED
  BY <1>2, <1>4, <1>5

\* Every step preserves IdInv.
LEMMA IdStep == IdInv /\ [IperfNext]_iperfVars => IdInv'
<1> SUFFICES ASSUME IdInv, [IperfNext]_iperfVars PROVE IdInv'
  OBVIOUS
<1>1. CASE Service
  BY <1>1, IdService DEF Service
<1>2. ASSUME NEW o \in Outcomes, StartIperf(o) PROVE IdInv'
  <2>1. ~running'
    BY <1>2, Zenon DEF StartIperf
  <2>2. skipped' = skipped /\ (prev' # -1 => packet_id' = prev')
    BY <1>2 DEF StartIperf
  <2> QED
    BY <2>1, <2>2 DEF IdInv, IdsConsecutive
<1>3. CASE StopIperf
  <2>1. ~running'
    BY <1>3, Zenon DEF StopIperf
  <2>2. UNCHANGED <<startDelay, packet_id, prev, skipped>>
    BY <1>3 DEF StopIperf
  <2> QED
    BY <2>1, <2>2 DEF IdInv, IdsConsecutive
<1>4. CASE UNCHANGED iperfVars
  BY <1>4 DEF iperfVars, IdInv, IdsConsecutive
<1> QED
  BY <1>1, <1>2, <1>3, <1>4 DEF IperfNext

\* The ids of a session's datagrams are consecutive, whichever sends are
\* refused, put off or fail; nothing is assumed of the constants.
THEOREM IdsInOrder == IperfSpec => []IdsConsecutive
<1>1. IperfInit => IdInv
  <2> SUFFICES ASSUME IperfInit PROVE IdInv
    OBVIOUS
  <2>1. ~running /\ ~skipped
    BY Zenon DEF IperfInit
  <2> QED
    BY <2>1 DEF IperfInit, IdInv, IdsConsecutive
<1>2. IdInv => IdsConsecutive
  BY DEF IdInv
<1> QED
  BY <1>1, <1>2, IdStep, PTL DEF IperfSpec

-----------------------------------------------------------------------------
(***************************************************************************)
(* The supervision of PLCA                                                 *)
(***************************************************************************)
\* A sum that exceeds the modulus by less than a period wraps once.
LEMMA ClockSum ==
  ASSUME W \in Nat \ {0}, NEW t \in 0 .. (W - 1), NEW d \in Nat, d < W
  PROVE  (t + d) % W = IF t + d < W THEN t + d ELSE t + d - W
<1>1. CASE t + d < W
  <2>1. t + d \in 0 .. (W - 1)
    BY <1>1
  <2>2. (t + d) % W = t + d
    BY <2>1, ModSmall, Zenon
  <2> QED
    BY <1>1, <2>2
<1>2. CASE ~(t + d < W)
  <2>1. PICK x \in Int, r \in 0 .. (W - 1) : x = t + d /\ r = t + d - W
    BY <1>2
  <2>2. x = W * 1 + r
    BY <2>1
  <2>3. x % W = r
    BY <2>2, DivModUnique
  <2> QED
    BY <1>2, <2>1, <2>3
<1> QED
  BY <1>1, <1>2

\* Where the clock can be relative to the deadline of the next check:
\* before it;
BeforeDeadline ==
  now <= nextBeaconCheck /\ lapse = now - nextBeaconCheck + BeaconDelay

\* at a check whose deadline has wrapped, which the next call takes for past;
DeadlineWrapped ==
  /\ nextBeaconCheck < BeaconDelay
  /\ now = nextBeaconCheck + W - BeaconDelay
  /\ lapse = 0

\* past the first deadline, after a long T1S_init;
LateStart ==
  /\ nextBeaconCheck = BeaconDelay
  /\ BeaconDelay < now /\ now <= BeaconDelay + MaxStall
  /\ lapse = now

\* or past a deadline so close to the wrap that it was stepped over.
SteppedOver == Blind /\ lapse > BeaconDelay

PlcaInv ==
  /\ now \in 0 .. (W - 1) /\ nextBeaconCheck \in 0 .. (W - 1)
  /\ lapse \in 0 .. Long /\ spacing \in 0 .. Long
  /\ BeforeDeadline \/ DeadlineWrapped \/ LateStart \/ SteppedOver
  /\ ChecksSpaced

\* The constants, fact by fact.
LEMMA PlcaConstantTypes ==
  /\ W \in Nat \ {0} /\ BeaconDelay \in Nat \ {0} /\ MaxStall \in Nat \ {0}
  /\ BeaconDelay + 2 * MaxStall < W
  BY PlcaConstants DEF PlcaConstants

\* A call of T1S_CheckPlcaStatus preserves PlcaInv.
LEMMA PlcaCheck ==
  ASSUME PlcaInv, NEW d \in 0 .. MaxStall, T1S_CheckPlcaStatus(d)
  PROVE  PlcaInv'
<1> USE PlcaConstantTypes
<1>1. /\ now \in 0 .. (W - 1) /\ nextBeaconCheck \in 0 .. (W - 1)
      /\ lapse \in Nat /\ spacing \in 0 .. Long /\ d \in Nat /\ d <= MaxStall
      /\ BeforeDeadline \/ DeadlineWrapped \/ LateStart \/ SteppedOver
  BY DEF PlcaInv, Long
<1>2. PICK t \in 0 .. (W - 1) :
        /\ t = (now + d) % W
        /\ t = IF now + d < W THEN now + d ELSE now + d - W
  <2>1. (now + d) % W = IF now + d < W THEN now + d ELSE now + d - W
    BY <1>1, ClockSum
  <2> QED
    BY <1>1, <2>1
<1>3. now' = t
  BY <1>2 DEF T1S_CheckPlcaStatus
<1>4. CASE Due(t)
  <2>1. /\ nextBeaconCheck' = (t + BeaconDelay) % W
        /\ lapse' = 0 /\ spacing' = Capped(lapse + d)
    BY <1>2, <1>4 DEF T1S_CheckPlcaStatus, NextCheck
  <2>2. nextBeaconCheck' = IF t + BeaconDelay < W THEN t + BeaconDelay
                           ELSE t + BeaconDelay - W
    BY <2>1, ClockSum
  <2>3. t > nextBeaconCheck
    BY <1>4 DEF Due
  <2>4. /\ spacing' \in 0 .. Long
        /\ spacing' <= BeaconDelay => lapse + d <= BeaconDelay
    BY <1>1, <2>1 DEF Capped, Long
  <2>5. BeforeDeadline' \/ DeadlineWrapped'
    BY <1>3, <2>1, <2>2 DEF BeforeDeadline, DeadlineWrapped
  <2>6. ASSUME lapse + d <= BeaconDelay PROVE nextBeaconCheck' < BeaconDelay
    <3>1. CASE BeforeDeadline
      BY <1>1, <1>2, <2>3, <2>6, <3>1 DEF BeforeDeadline
    <3>2. CASE DeadlineWrapped
      BY <1>1, <1>2, <2>2, <2>3, <2>6, <3>2 DEF DeadlineWrapped
    <3>3. CASE LateStart \/ SteppedOver
      BY <1>1, <2>6, <3>3 DEF LateStart, SteppedOver
    <3> QED
      BY <1>1, <3>1, <3>2, <3>3
  <2>7. nextBeaconCheck' \in 0 .. (W - 1) /\ lapse' \in 0 .. Long
    BY <2>1, <2>2 DEF Long
  <2> QED
    BY <1>3, <2>4, <2>5, <2>6, <2>7 DEF PlcaInv, ChecksSpaced, Long
<1>5. CASE ~Due(t)
  <2>1. /\ nextBeaconCheck' = nextBeaconCheck /\ spacing' = spacing
        /\ lapse' = Capped(lapse + d)
    BY <1>2, <1>5 DEF T1S_CheckPlcaStatus
  <2>2. t <= nextBeaconCheck
    BY <1>1, <1>5 DEF Due
  <2>3. /\ lapse' \in 0 .. Long
        /\ lapse + d <= BeaconDelay => lapse' = lapse + d
        /\ lapse + d > BeaconDelay => lapse' > BeaconDelay
    BY <1>1, <2>1 DEF Capped, Long
  <2>4. BeforeDeadline' \/ SteppedOver'
    <3>1. CASE BeforeDeadline
      <4>1. CASE now + d < W
        BY <1>1, <1>2, <1>3, <2>1, <2>2, <2>3, <3>1, <4>1 DEF BeforeDeadline
      <4>2. CASE ~(now + d < W)
        BY <1>1, <2>1, <2>3, <3>1, <4>2
        DEF BeforeDeadline, SteppedOver, Blind
      <4> QED
        BY <4>1, <4>2
    <3>2. CASE DeadlineWrapped
      BY <1>1, <1>2, <1>3, <2>1, <2>2, <2>3, <3>2
      DEF DeadlineWrapped, BeforeDeadline
    <3>3. CASE LateStart
      BY <1>1, <1>2, <2>2, <3>3 DEF LateStart
    <3>4. CASE SteppedOver
      BY <1>1, <2>1, <2>3, <3>4 DEF SteppedOver, Blind
    <3> QED
      BY <1>1, <3>1, <3>2, <3>3, <3>4
  <2> QED
    BY <1>1, <1>3, <2>1, <2>3, <2>4 DEF PlcaInv, ChecksSpaced, Long
<1> QED
  BY <1>4, <1>5

\* PlcaInv holds initially and is preserved.
LEMMA PlcaInvInit == PlcaInit => PlcaInv
<1> SUFFICES ASSUME PlcaInit PROVE PlcaInv
  OBVIOUS
<1>1. /\ now \in 0 .. (BeaconDelay + MaxStall) /\ nextBeaconCheck = BeaconDelay
      /\ lapse = now /\ spacing = Long
  BY DEF PlcaInit
<1> QED
  BY <1>1, PlcaConstantTypes
  DEF PlcaInv, BeforeDeadline, LateStart, Long, ChecksSpaced

LEMMA PlcaStep == PlcaInv /\ [PlcaNext]_plcaVars => PlcaInv'
<1> SUFFICES ASSUME PlcaInv, [PlcaNext]_plcaVars PROVE PlcaInv'
  OBVIOUS
<1>1. ASSUME NEW d \in 0 .. MaxStall, T1S_CheckPlcaStatus(d) PROVE PlcaInv'
  BY <1>1, PlcaCheck
<1>2. CASE \/ \E success \in BOOLEAN : T1S_OnPlcaStatus(success)
           \/ ModeChanges
           \/ UNCHANGED plcaVars
  <2>1. UNCHANGED <<now, nextBeaconCheck, lapse, spacing>>
    BY <1>2 DEF T1S_OnPlcaStatus, ModeChanges, plcaVars
  <2> QED
    BY <2>1
    DEF PlcaInv, BeforeDeadline, DeadlineWrapped, LateStart, SteppedOver,
        Blind, ChecksSpaced, Long
<1> QED
  BY <1>1, <1>2 DEF PlcaNext

\* Status checks go on, each at most a stall late, for every modulus of the
\* clock, delay and stall, except for a deadline just before the wrap.
THEOREM PlcaChecksGoOn == PlcaSpec => []ChecksGoOn
<1>1. PlcaInv => ChecksGoOn
  BY PlcaConstantTypes
  DEF PlcaInv, ChecksGoOn, BeforeDeadline, DeadlineWrapped, LateStart,
      SteppedOver, Long
<1> QED
  BY <1>1, PlcaInvInit, PlcaStep, PTL DEF PlcaSpec

\* Status checks are more than DELAY_BEACON_CHECK apart, except where the
\* deadline has wrapped and the clock has not.
THEOREM PlcaChecksSpaced == PlcaSpec => []ChecksSpaced
<1>1. PlcaInv => ChecksSpaced
  BY DEF PlcaInv
<1> QED
  BY <1>1, PlcaInvInit, PlcaStep, PTL DEF PlcaSpec

-----------------------------------------------------------------------------
(***************************************************************************)
(* The button and the reset sequence                                       *)
(***************************************************************************)
Btns == [last_state : BOOLEAN, debounced_state : BOOLEAN,
         last_debounce_time : 0 .. (W - 1), was_pressed : BOOLEAN,
         press_start_time : 0 .. (W - 1), long_press_detected : BOOLEAN]

\* Types, and what is known of the button between two iterations: the flag
\* of the short press has been taken, the last sample is the level.
ButtonInv ==
  /\ now \in 0 .. (W - 1) /\ reset_release_time \in 0 .. (W - 1)
  /\ level \in BOOLEAN
  /\ btn \in Btns /\ ~btn.was_pressed
  /\ same \in 0 .. Cap /\ since \in 0 .. Cap /\ down \in 0 .. Cap
  /\ freed \in 0 .. Cap
  /\ pc = "loop" => level = btn.last_state
  /\ pc = "boot" => btn = Released /\ reset_state = "idle"

\* The long press of Round.
LongFires(l, t) ==
  /\ reset_state = "idle"
  /\ APP_Button_LongPress(AfterWasPressed(debounce_button(btn, l, t)), t)

\* The constants, fact by fact.
LEMMA ButtonConstantTypes ==
  /\ W \in Nat \ {0} /\ Debounce \in Nat /\ Hold \in Nat \ {0}
  /\ ResetDelay \in Nat \ {0} /\ MaxStall \in Nat \ {0}
  /\ Hold + MaxStall < W /\ ResetDelay + MaxStall < W
  BY ButtonConstants DEF ButtonConstants

\* Elapsed time is a time, grows with the clock, and starts from zero.
LEMMA MinusType ==
  ASSUME NEW t \in Int, NEW s \in Int
  PROVE  t % W \in 0 .. (W - 1) /\ Minus(t, s) \in 0 .. (W - 1)
<1>1. W \in Nat \ {0} /\ t - s \in Int
  BY ButtonConstantTypes
<1> QED
  BY <1>1, DivModDef DEF Minus

LEMMA MinusGrows ==
  ASSUME NEW t \in Int, NEW s \in Int, NEW d \in Nat,
         Minus(t, s) + d < W
  PROVE  Minus((t + d) % W, s) = Minus(t, s) + d
<1>1. W \in Nat \ {0} /\ ((t - s) % W) + d < W
  BY ButtonConstantTypes DEF Minus
<1> QED
  BY <1>1, ClockElapsed, Zenon DEF Minus

LEMMA MinusAtMost ==
  ASSUME NEW t \in Int, NEW s \in Int, NEW d \in Nat
  PROVE  Minus((t + d) % W, s) <= Minus(t, s) + d
<1>1. W \in Nat \ {0}
  BY ButtonConstantTypes
<1> QED
  BY <1>1, ClockAtMost, Zenon DEF Minus

LEMMA MinusZero ==
  ASSUME NEW t \in Int
  PROVE  Minus(t, t) = 0
<1>1. W \in Nat \ {0} /\ t - t = 0
  BY ButtonConstantTypes
<1> QED
  BY <1>1, ModSmall DEF Minus

\* The capped clocks of the model: up to the cap, a clock shows the time.
LEMMA LaterFacts ==
  ASSUME NEW x \in 0 .. Cap, NEW d \in Nat
  PROVE  /\ Later(x, d) \in 0 .. Cap
         /\ Later(x, d) = x + d \/ (Later(x, d) = Cap /\ x + d > Cap)
         /\ Cap \in Nat /\ Cap > Hold /\ Cap > ResetDelay /\ Cap > Debounce
  BY ButtonConstantTypes DEF Later, Cap

\* debounce_button keeps the types.
LEMMA DebounceBtn ==
  ASSUME btn \in Btns, NEW l \in BOOLEAN, NEW t \in 0 .. (W - 1)
  PROVE  debounce_button(btn, l, t) \in Btns
<1>1. /\ btn.last_debounce_time \in 0 .. (W - 1)
      /\ btn.press_start_time \in 0 .. (W - 1)
      /\ btn.debounced_state \in BOOLEAN
  BY DEF Btns
<1>2. DebounceTime(btn, l, t) \in 0 .. (W - 1)
  BY <1>1 DEF DebounceTime
<1>3. (IF Settled(btn, l, t) THEN l ELSE btn.debounced_state) \in BOOLEAN
  BY <1>1
<1>4. (IF PressStarts(btn, l, t) THEN t ELSE btn.press_start_time)
        \in 0 .. (W - 1)
  BY <1>1
<1>5. (btn.long_press_detected /\ ~PressStarts(btn, l, t)) \in BOOLEAN
  BY Zenon
<1>6. (\/ btn.was_pressed
       \/ PressEnds(btn, l, t) /\ ~btn.long_press_detected) \in BOOLEAN
  BY Zenon
<1> QED
  BY <1>2, <1>3, <1>4, <1>5, <1>6, Zenon DEF debounce_button, Btns

\* The button after an iteration.
LEMMA BtnAfter ==
  ASSUME ButtonInv, NEW d \in 0 .. MaxStall, NEW l \in BOOLEAN,
         Round(d, l), NEW t \in 0 .. (W - 1), t = (now + d) % W
  PROVE  /\ btn' \in Btns /\ ~btn'.was_pressed
         /\ btn'.last_state = l
         /\ btn'.last_debounce_time = DebounceTime(btn, l, t)
         /\ btn'.debounced_state
              = IF Settled(btn, l, t) THEN l ELSE btn.debounced_state
         /\ btn'.press_start_time
              = IF PressStarts(btn, l, t) THEN t ELSE btn.press_start_time
         /\ LongFires(l, t) =>
              /\ btn'.debounced_state
              /\ btn'.long_press_detected
              /\ Minus(t, btn'.press_start_time) >= Hold
              /\ btn.long_press_detected => PressStarts(btn, l, t)
         /\ ~btn'.long_press_detected =>
              PressStarts(btn, l, t) \/ ~btn.long_press_detected
         /\ debounce_button(btn, l, t).was_pressed =>
              PressEnds(btn, l, t) /\ ~btn.long_press_detected
<1> DEFINE b == debounce_button(btn, l, t)
           c == AfterWasPressed(b)
<1>1. btn \in Btns /\ ~btn.was_pressed
  BY DEF ButtonInv
<1>2. b \in Btns
  BY <1>1, DebounceBtn
<1>3. btn' = IF LongFires(l, t) THEN [c EXCEPT !.long_press_detected = TRUE]
             ELSE c
  BY DEF Round, LongFires
<1>4. /\ b.last_state = l
      /\ b.last_debounce_time = DebounceTime(btn, l, t)
      /\ b.debounced_state
           = IF Settled(btn, l, t) THEN l ELSE btn.debounced_state
      /\ b.press_start_time
           = IF PressStarts(btn, l, t) THEN t ELSE btn.press_start_time
  BY DEF debounce_button
<1>5. /\ b.was_pressed =>
           PressEnds(btn, l, t) /\ ~btn.long_press_detected
      /\ b.long_press_detected <=>
           btn.long_press_detected /\ ~PressStarts(btn, l, t)
  BY <1>1, Zenon DEF debounce_button
<1>6. LongFires(l, t) => /\ c.debounced_state /\ ~c.long_press_detected
                         /\ Minus(t, c.press_start_time) >= Hold
  BY DEF LongFires, APP_Button_LongPress
<1> HIDE DEF b
<1>7. /\ c \in Btns /\ c.was_pressed = FALSE
      /\ c.last_state = b.last_state
      /\ c.last_debounce_time = b.last_debounce_time
      /\ c.debounced_state = b.debounced_state
      /\ c.press_start_time = b.press_start_time
      /\ c.long_press_detected = b.long_press_detected
  BY <1>2 DEF AfterWasPressed, Btns
<1> HIDE DEF c
<1>8. /\ btn' \in Btns /\ btn'.was_pressed = FALSE
      /\ btn'.last_state = c.last_state
      /\ btn'.last_debounce_time = c.last_debounce_time
      /\ btn'.debounced_state = c.debounced_state
      /\ btn'.press_start_time = c.press_start_time
      /\ btn'.long_press_detected
           = IF LongFires(l, t) THEN TRUE ELSE c.long_press_detected
  BY <1>3, <1>7 DEF Btns
<1>9. /\ LongFires(l, t) => btn'.long_press_detected
      /\ ~btn'.long_press_detected => ~b.long_press_detected
  BY <1>7, <1>8
<1> QED
  BY <1>4, <1>5, <1>6, <1>7, <1>8, <1>9 DEF b

\* The clock at the next sample.
LEMMA NextSample ==
  ASSUME ButtonInv, NEW d \in 0 .. MaxStall
  PROVE  /\ d \in Nat /\ d <= MaxStall /\ now \in Int
         /\ (now + d) % W \in 0 .. (W - 1)
<1>1. now \in Int /\ d \in Nat /\ d <= MaxStall
  BY ButtonConstantTypes DEF ButtonInv
<1> QED
  BY <1>1, now + d \in Int, MinusType

\* A button that is released is a button.
LEMMA ReleasedBtn ==
  /\ Released \in Btns /\ ~Released.was_pressed
  /\ ~Released.last_state /\ ~Released.debounced_state
  BY ButtonConstantTypes DEF Released, Btns

\* ButtonInv holds initially.
LEMMA ButtonInvInit == ButtonInit => ButtonInv
<1> SUFFICES ASSUME ButtonInit PROVE ButtonInv
  OBVIOUS
<1>1. /\ now = 0 /\ reset_release_time = 0 /\ level \in BOOLEAN
      /\ btn = Released /\ reset_state = "idle"
      /\ same = 0 /\ since = 0 /\ down = 0 /\ freed = 0
      /\ pc = IF level THEN "boot" ELSE "loop"
  BY DEF ButtonInit
<1>2. 0 \in 0 .. Cap /\ 0 \in 0 .. (W - 1)
  BY ButtonConstantTypes DEF Cap
<1>3. btn \in Btns /\ ~btn.was_pressed /\ btn.last_state = FALSE
  BY <1>1, ReleasedBtn DEF Btns
<1>4. pc = "loop" => level = btn.last_state
  BY <1>1, <1>3
<1> QED
  BY <1>1, <1>2, <1>3, <1>4 DEF ButtonInv

\* What main does before its loop establishes it again.
LEMMA ButtonRestart ==
  ASSUME ButtonInv, NEW d \in 0 .. MaxStall, NEW l \in BOOLEAN,
         Restart(d, l)
  PROVE  ButtonInv'
<1>1. /\ now' = 0 /\ reset_release_time' = 0 /\ level' = l
      /\ btn' = Released /\ reset_state' = "idle"
      /\ same' = 0 /\ since' = 0 /\ down' = 0 /\ freed' = 0
      /\ pc' = IF l THEN "boot" ELSE "loop"
  BY DEF Restart
<1>2. 0 \in 0 .. Cap /\ 0 \in 0 .. (W - 1)
  BY ButtonConstantTypes DEF Cap
<1>3. btn' \in Btns /\ ~btn'.was_pressed /\ btn'.last_state = FALSE
  BY <1>1, ReleasedBtn DEF Btns
<1>4. pc' = "loop" => level' = btn'.last_state
  BY <1>1, <1>3
<1>5. same' \in 0 .. Cap /\ since' \in 0 .. Cap /\ down' \in 0 .. Cap
      /\ freed' \in 0 .. Cap
  BY <1>1, <1>2
<1> QED
  BY <1>1, <1>2, <1>3, <1>4, <1>5
  DEF ButtonInv, Cap, Released, Btns

\* The wait for the release in a client preserves it.
LEMMA ButtonWait ==
  ASSUME ButtonInv, NEW d \in 0 .. MaxStall, NEW l \in BOOLEAN,
         WaitRelease(d, l)
  PROVE  ButtonInv'
<1>1. /\ pc = "boot" /\ now' = (now + d) % W /\ level' = l
      /\ pc' = IF l THEN "boot" ELSE "loop"
      /\ UNCHANGED <<btn, reset_state, reset_release_time, same, since, down,
                     freed>>
  BY DEF WaitRelease
<1>2. btn = Released /\ reset_state = "idle" /\ btn.last_state = FALSE
  BY <1>1 DEF ButtonInv, Released
<1>3. now' \in 0 .. (W - 1)
  BY <1>1, NextSample
<1> QED
  BY <1>1, <1>2, <1>3 DEF ButtonInv, Cap, Released, Btns

\* An iteration preserves it.
LEMMA ButtonRound ==
  ASSUME ButtonInv, NEW d \in 0 .. MaxStall, NEW l \in BOOLEAN, Round(d, l)
  PROVE  ButtonInv'
<1>1. PICK t \in 0 .. (W - 1) : t = (now + d) % W
  BY NextSample
<1>2. btn' \in Btns /\ ~btn'.was_pressed /\ btn'.last_state = l
  BY <1>1, BtnAfter
<1>3. pc = "loop" /\ pc' = "loop" /\ now' = t /\ level' = l
  BY <1>1 DEF Round
<1>4. reset_release_time' \in 0 .. (W - 1)
  BY <1>1 DEF Round, ButtonInv
<1>5. /\ same' \in {0, Later(same, d)} /\ since' \in {0, Later(since, d)}
      /\ freed' \in {0, Later(freed, d)}
  BY DEF Round
<1>6. down' \in {0, since', down}
  BY DEF Round
<1>7. /\ same' \in 0 .. Cap /\ since' \in 0 .. Cap
      /\ freed' \in 0 .. Cap /\ 0 \in 0 .. Cap
  <2>1. /\ same \in 0 .. Cap /\ since \in 0 .. Cap
        /\ freed \in 0 .. Cap /\ d \in Nat
    BY NextSample DEF ButtonInv
  <2>2. \A x \in 0 .. Cap : Later(x, d) \in 0 .. Cap
    BY <2>1, LaterFacts
  <2>3. 0 \in 0 .. Cap
    BY ButtonConstantTypes DEF Cap
  <2> QED
    BY <1>5, <2>1, <2>2, <2>3
<1>8. down' \in 0 .. Cap
  BY <1>6, <1>7 DEF ButtonInv
<1> QED
  BY <1>2, <1>3, <1>4, <1>7, <1>8 DEF ButtonInv, Cap, Btns

\* Every step preserves ButtonInv.
LEMMA ButtonStep == ButtonInv /\ [ButtonNext]_buttonVars => ButtonInv'
<1> SUFFICES ASSUME ButtonInv, [ButtonNext]_buttonVars PROVE ButtonInv'
  OBVIOUS
<1>1. CASE ButtonNext
  BY <1>1, ButtonWait, ButtonRound, ButtonRestart DEF ButtonNext
<1>2. CASE UNCHANGED buttonVars
  BY <1>2
  DEF ButtonInv, buttonVars, Cap, Released, Btns
<1> QED
  BY <1>1, <1>2

\* The countdown is as old as the clock says, until it is over.
CountdownInv ==
  /\ reset_state = "countdown" /\ freed < ResetDelay =>
       Minus(now, reset_release_time) = freed
  /\ waited \in Nat /\ RestartAfterDelay

\* The countdown at the next sample.
LEMMA CountdownGrows ==
  ASSUME ButtonInv, CountdownInv, NEW d \in 0 .. MaxStall,
         reset_state = "countdown", freed + d < ResetDelay
  PROVE  Minus((now + d) % W, reset_release_time) = freed + d
<1>1. /\ freed \in Nat /\ d \in Nat
      /\ now \in Int /\ reset_release_time \in Int
  BY NextSample DEF ButtonInv
<1>2. freed < ResetDelay /\ freed + d < W
  BY <1>1, ButtonConstantTypes
<1>3. Minus(now, reset_release_time) = freed
  BY <1>2 DEF CountdownInv
<1> QED
  BY <1>1, <1>2, <1>3, MinusGrows

\* Every step preserves CountdownInv.
LEMMA CountdownStep ==
  ButtonInv /\ CountdownInv /\ [ButtonNext]_buttonVars => CountdownInv'
<1> SUFFICES ASSUME ButtonInv, CountdownInv, [ButtonNext]_buttonVars
             PROVE  CountdownInv'
  OBVIOUS
<1>0. freed \in 0 .. Cap /\ ResetDelay \in Nat
  BY ButtonConstantTypes DEF ButtonInv
<1>5. \A d \in 0 .. MaxStall :
        /\ freed + d \in Nat /\ Later(freed, d) \in Nat
        /\ Later(freed, d) = freed + d
             \/ (Later(freed, d) > ResetDelay /\ freed + d > ResetDelay)
  <2> TAKE d \in 0 .. MaxStall
  <2>1. d \in Nat
    BY NextSample
  <2>2. /\ Later(freed, d) \in 0 .. Cap
        /\ Later(freed, d) = freed + d
             \/ (Later(freed, d) = Cap /\ freed + d > Cap)
        /\ Cap \in Nat /\ Cap > ResetDelay
    BY <1>0, <2>1, LaterFacts
  <2> QED
    BY <1>0, <2>1, <2>2
<1>1. ASSUME NEW d \in 0 .. MaxStall, NEW l \in BOOLEAN, WaitRelease(d, l)
      PROVE  CountdownInv'
  <2>1. reset_state = "idle" /\ UNCHANGED <<reset_state, waited>>
    BY <1>1 DEF WaitRelease, ButtonInv
  <2> QED
    BY <2>1 DEF CountdownInv, RestartAfterDelay
<1>2. ASSUME NEW d \in 0 .. MaxStall, NEW l \in BOOLEAN, Round(d, l)
      PROVE  CountdownInv'
  <2>1. PICK t \in 0 .. (W - 1) : t = (now + d) % W
    BY NextSample
  <2>2. now' = t /\ waited' = waited
    BY <1>2, <2>1 DEF Round
  <2>3. CASE reset_state' # "countdown"
    BY <2>2, <2>3 DEF CountdownInv, RestartAfterDelay
  <2>4. CASE reset_state = "countdown"
    <3>1. freed' = Later(freed, d) /\ reset_release_time' = reset_release_time
      BY <1>2, <2>4 DEF Round
    <3>2. freed' < ResetDelay => freed + d < ResetDelay /\ freed' = freed + d
      BY <1>0, <1>5, <3>1
    <3>3. freed' < ResetDelay => Minus(now', reset_release_time') = freed'
      BY <2>1, <2>2, <2>4, <3>1, <3>2, CountdownGrows DEF Minus
    <3> QED
      BY <2>2, <3>3 DEF CountdownInv, RestartAfterDelay
  <2>5. CASE reset_state # "countdown" /\ reset_state' = "countdown"
    <3>1. reset_release_time' = t /\ freed' = 0
      BY <1>2, <2>1, <2>5 DEF Round
    <3>2. Minus(now', reset_release_time') = 0
      BY <1>0, <2>2, <3>1, MinusZero DEF Minus
    <3> QED
      BY <2>2, <3>1, <3>2 DEF CountdownInv, RestartAfterDelay
  <2> QED
    BY <2>3, <2>4, <2>5
<1>3. ASSUME NEW d \in 0 .. MaxStall, NEW l \in BOOLEAN, Restart(d, l)
      PROVE  CountdownInv'
  <2>1. /\ reset_state = "countdown" /\ reset_state' = "idle"
        /\ Minus((now + d) % W, reset_release_time) >= ResetDelay
        /\ waited' = Later(freed, d)
    BY <1>3 DEF Restart, CountdownOver
  <2>2. ~(freed + d < ResetDelay)
    <3>1. freed + d \in Int /\ ResetDelay \in Int
      BY <1>0, NextSample, ButtonConstantTypes
    <3>2. freed + d < ResetDelay => ~(freed + d >= ResetDelay)
      BY <3>1
    <3> QED
      BY <2>1, <3>2, CountdownGrows
  <2>3. waited' \in Nat /\ waited' >= ResetDelay
    BY <1>0, <1>5, <2>1, <2>2
  <2> QED
    BY <2>1, <2>3 DEF CountdownInv, RestartAfterDelay
<1>4. CASE UNCHANGED buttonVars
  BY <1>4 DEF buttonVars, CountdownInv, RestartAfterDelay, Minus
<1> QED
  BY <1>1, <1>2, <1>3, <1>4 DEF ButtonNext

\* The board restarts no earlier than RESET_DELAY_MS after the release, for
\* every place of the countdown on the clock and every stall of the loop.
THEOREM RestartWaits == ButtonSpec => []RestartAfterDelay
<1>1. ButtonInit => CountdownInv
  BY ButtonConstantTypes DEF ButtonInit, CountdownInv, RestartAfterDelay, Cap
<1>2. CountdownInv => RestartAfterDelay
  BY DEF CountdownInv
<1> QED
  BY <1>1, <1>2, ButtonInvInit, ButtonStep, CountdownStep, PTL DEF ButtonSpec

\* A press that has not been taken for long has had no consequence yet.
EventInv ==
  /\ events \in 0 .. 1
  /\ btn.debounced_state /\ ~btn.long_press_detected => events = 0

\* An iteration preserves EventInv.
LEMMA EventRound ==
  ASSUME ButtonInv, EventInv, NEW d \in 0 .. MaxStall, NEW l \in BOOLEAN,
         Round(d, l)
  PROVE  EventInv'
<1>0. PICK t \in 0 .. (W - 1) : t = (now + d) % W
  BY NextSample
<1> DEFINE new   == PressStarts(btn, l, t)
           long  == LongFires(l, t)
           short == /\ debounce_button(btn, l, t).was_pressed
                    /\ board_role = "server"
           settled == Settled(btn, l, t)
<1>1. events' = (IF new THEN 0 ELSE events)
                  + (IF short THEN 1 ELSE 0) + (IF long THEN 1 ELSE 0)
  BY <1>0 DEF Round, LongFires
<1>2. /\ btn'.debounced_state = IF settled THEN l ELSE btn.debounced_state
      /\ btn'.press_start_time = IF new THEN t ELSE btn.press_start_time
      /\ long => /\ btn'.debounced_state /\ btn'.long_press_detected
                 /\ Minus(t, btn'.press_start_time) >= Hold
                 /\ btn.long_press_detected => new
      /\ ~btn'.long_press_detected => new \/ ~btn.long_press_detected
      /\ short => PressEnds(btn, l, t) /\ ~btn.long_press_detected
  BY <1>0, BtnAfter
<1>3. /\ new => settled /\ ~btn.debounced_state /\ l
      /\ settled /\ ~btn.debounced_state /\ l => new
      /\ short => settled /\ btn.debounced_state /\ ~l
  BY <1>2 DEF PressStarts, PressEnds
<1>4. new => ~long
  <2>1. Minus(t, t) = 0 /\ Hold \in Nat \ {0}
    BY MinusZero, ButtonConstantTypes DEF ButtonInv
  <2> QED
    BY <1>2, <2>1
<1>5. events \in 0 .. 1
      /\ (btn.debounced_state /\ ~btn.long_press_detected => events = 0)
  BY DEF EventInv
<1> HIDE DEF new, long, short, settled
<1>6. CASE new
  BY <1>1, <1>3, <1>4, <1>6 DEF EventInv
<1>7. CASE ~new /\ short
  <2>1. btn'.debounced_state = l /\ ~l
    BY <1>2, <1>3, <1>7
  <2>2. ~long /\ events = 0
    BY <1>2, <1>3, <1>5, <1>7, <2>1
  <2> QED
    BY <1>1, <1>7, <2>1, <2>2 DEF EventInv
<1>8. CASE ~new /\ ~short /\ long
  <2>1. btn'.debounced_state /\ btn'.long_press_detected
    BY <1>2, <1>8
  <2>2. btn.debounced_state /\ ~btn.long_press_detected
    BY <1>2, <1>3, <1>8
  <2> QED
    BY <1>1, <1>5, <1>8, <2>1, <2>2 DEF EventInv
<1>9. CASE ~new /\ ~short /\ ~long
  <2>1. events' = events
    BY <1>1, <1>5, <1>9
  <2>2. btn'.debounced_state => btn.debounced_state
    BY <1>2, <1>3, <1>9
  <2> QED
    BY <1>2, <1>5, <1>9, <2>1, <2>2 DEF EventInv
<1> QED
  BY <1>6, <1>7, <1>8, <1>9

\* Every step preserves EventInv.
LEMMA EventStep ==
  ButtonInv /\ EventInv /\ [ButtonNext]_buttonVars => EventInv'
<1> SUFFICES ASSUME ButtonInv, EventInv, [ButtonNext]_buttonVars
             PROVE  EventInv'
  OBVIOUS
<1>1. ASSUME NEW d \in 0 .. MaxStall, NEW l \in BOOLEAN, Round(d, l)
      PROVE  EventInv'
  BY <1>1, EventRound
<1>2. ASSUME NEW d \in 0 .. MaxStall, NEW l \in BOOLEAN, Restart(d, l)
      PROVE  EventInv'
  BY <1>2 DEF Restart, EventInv
<1>3. CASE UNCHANGED <<btn, events>>
  BY <1>3 DEF EventInv
<1> QED
  BY <1>1, <1>2, <1>3 DEF ButtonNext, buttonVars, WaitRelease

\* A press toggles iperf once or arms the reset, never both and never twice,
\* in whatever order release, long press and reset sequence meet.
THEOREM OneConsequence ==
  ButtonSpec => []OneEventPerPress
<1>1. ButtonInit => EventInv
  BY DEF ButtonInit, EventInv
<1>2. EventInv => OneEventPerPress
  BY DEF EventInv, OneEventPerPress
<1> QED
  BY <1>1, <1>2, ButtonInvInit, ButtonStep, EventStep, PTL DEF ButtonSpec

\* The press is as old as the clock says, until it is long; it was seen down
\* at the last sample, or no longer ago than the gap before the first sample
\* that was up and the debounce interval that this one has started.
HoldInv ==
  /\ armed \in Nat
  /\ btn.debounced_state /\ since < Hold =>
       Minus(now, btn.press_start_time) = since
  /\ btn.debounced_state /\ btn.last_state => down = since
  /\ btn.debounced_state /\ ~btn.last_state /\ Debounce + MaxStall < W =>
       /\ Minus(now, btn.last_debounce_time) <= Debounce
       /\ since <= down + MaxStall + Minus(now, btn.last_debounce_time)
  /\ GenuineLongPress

\* A step that leaves the button released and the reset alone.
LEMMA HoldReleased ==
  ASSUME ~btn'.debounced_state, armed' \in Nat,
         reset_state' = "idle"
  PROVE  HoldInv'
  BY DEF HoldInv, GenuineLongPress

\* An iteration preserves HoldInv.
LEMMA HoldRound ==
  ASSUME ButtonInv, HoldInv, NEW d \in 0 .. MaxStall, NEW l \in BOOLEAN,
         Round(d, l)
  PROVE  HoldInv'
<1>0. /\ now \in Int /\ d \in Nat /\ d <= MaxStall
      /\ since \in 0 .. Cap /\ since \in Nat /\ down \in Nat
      /\ btn.press_start_time \in Int /\ btn.last_debounce_time \in Int
      /\ btn.debounced_state \in BOOLEAN /\ btn.last_state \in BOOLEAN
  BY NextSample DEF ButtonInv, Btns
<1> USE ButtonConstantTypes, <1>0
<1>1. PICK t \in 0 .. (W - 1) : t = (now + d) % W
  BY NextSample
<1> DEFINE new   == PressStarts(btn, l, t)
           long  == LongFires(l, t)
           settled == Settled(btn, l, t)
<1>2. /\ now' = t
      /\ since' = IF new \/ ~btn'.debounced_state THEN 0 ELSE Later(since, d)
      /\ down'  = IF new \/ ~btn'.debounced_state THEN 0
                  ELSE IF l THEN since' ELSE down
      /\ armed' = IF long THEN down' ELSE armed
      /\ reset_state' # "idle" => reset_state # "idle" \/ long
  <2>1. /\ now' = t
        /\ armed' = IF long THEN down' ELSE armed
        /\ reset_state' # "idle" => reset_state # "idle" \/ long
    BY <1>1 DEF Round, LongFires
  <2> DEFINE c == AfterWasPressed(debounce_button(btn, l, t))
  <2>2. /\ since' = IF new \/ ~c.debounced_state THEN 0 ELSE Later(since, d)
        /\ down'  = IF new \/ ~c.debounced_state THEN 0
                    ELSE IF l THEN since' ELSE down
    BY <1>1 DEF Round
  <2>3. c.debounced_state = btn'.debounced_state
    <3>1. c.debounced_state = IF settled THEN l ELSE btn.debounced_state
      BY DEF AfterWasPressed, debounce_button
    <3>2. btn'.debounced_state = IF settled THEN l ELSE btn.debounced_state
      BY <1>1, BtnAfter
    <3> QED BY <3>1, <3>2
  <2> HIDE DEF c
  <2> QED BY <2>1, <2>2, <2>3
<1>3. /\ btn'.last_state = l
      /\ btn'.last_debounce_time = DebounceTime(btn, l, t)
      /\ btn'.debounced_state = IF settled THEN l ELSE btn.debounced_state
      /\ btn'.press_start_time = IF new THEN t ELSE btn.press_start_time
      /\ long => /\ btn'.debounced_state
                 /\ Minus(t, btn'.press_start_time) >= Hold
  BY <1>1, BtnAfter
<1>4. /\ new => settled /\ ~btn.debounced_state /\ l
      /\ settled /\ ~btn.debounced_state /\ l => new
  BY DEF PressStarts
<1>5. Minus(t, t) = 0
  BY MinusZero
<1>6. /\ Later(since, d) \in Nat /\ Later(since, d) <= since + d
      /\ Later(since, d) < Hold => Later(since, d) = since + d
  <2>1. /\ Later(since, d) \in 0 .. Cap
        /\ Later(since, d) = since + d
             \/ (Later(since, d) = Cap /\ since + d > Cap)
        /\ Cap \in Nat /\ Cap > Hold
    BY LaterFacts
  <2> QED
    BY <2>1
<1> HIDE DEF new, long, settled
<1>7. ASSUME btn'.debounced_state, since' < Hold
      PROVE  Minus(t, btn'.press_start_time) = since'
  <2>1. CASE new
    BY <1>2, <1>3, <1>5, <2>1
  <2>2. CASE ~new
    <3>1. /\ btn.debounced_state /\ since' = since + d
          /\ btn'.press_start_time = btn.press_start_time
      BY <1>2, <1>3, <1>4, <1>6, <1>7, <2>2
    <3>2. Minus(now, btn.press_start_time) = since
      BY <1>7, <3>1 DEF HoldInv
    <3>3. since + d < W
      BY <1>7, <3>1
    <3> QED
      BY <1>1, <3>1, <3>2, <3>3, MinusGrows
  <2> QED BY <2>1, <2>2
<1>8. btn'.debounced_state /\ btn'.last_state => down' = since'
  BY <1>2, <1>3
<1>9. ASSUME btn'.debounced_state, ~btn'.last_state, Debounce + MaxStall < W
      PROVE  /\ Minus(t, btn'.last_debounce_time) <= Debounce
             /\ since' <= down' + MaxStall
                            + Minus(t, btn'.last_debounce_time)
  <2>1. ~l /\ ~new /\ ~settled /\ btn.debounced_state
    BY <1>3, <1>4, <1>9
  <2>2. /\ since' = Later(since, d) /\ down' = down
        /\ since' \in Nat /\ since' <= since + d
    BY <1>2, <1>6, <1>9, <2>1
  <2>3. CASE btn.last_state
    <3>1. Minus(t, btn'.last_debounce_time) = 0
      BY <1>3, <1>5, <2>1, <2>3 DEF DebounceTime
    <3>2. down = since
      BY <2>1, <2>3 DEF HoldInv
    <3> QED
      BY <2>2, <3>1, <3>2
  <2>4. CASE ~btn.last_state
    <3>1. btn'.last_debounce_time = btn.last_debounce_time
      BY <1>3, <2>1, <2>4 DEF DebounceTime
    <3>2. PICK m \in 0 .. (W - 1) : m = Minus(now, btn.last_debounce_time)
      BY MinusType
    <3>3. m <= Debounce /\ since <= down + MaxStall + m
      BY <1>9, <2>1, <2>4, <3>2 DEF HoldInv
    <3>4. Minus(t, btn'.last_debounce_time) = m + d
      BY <1>1, <1>9, <3>1, <3>2, <3>3, MinusGrows
    <3>5. ~(m + d > Debounce)
      BY <1>3, <2>1, <3>4 DEF Settled, settled
    <3> QED
      BY <2>2, <3>3, <3>4, <3>5
  <2> QED BY <2>3, <2>4
<1>10. since' \in Nat /\ down' \in Nat
  BY <1>2, <1>6
<1>11. ASSUME long PROVE down' >= Hold - Debounce - MaxStall
  <2>1. ~(since' < Hold)
    BY <1>3, <1>7, <1>10, <1>11
  <2>2. CASE l
    BY <1>3, <1>8, <1>10, <1>11, <2>1, <2>2
  <2>3. CASE ~l /\ Debounce + MaxStall < W
    <3>0. btn'.last_debounce_time \in Int
      BY <1>3 DEF DebounceTime
    <3>1. PICK m \in 0 .. (W - 1) : m = Minus(t, btn'.last_debounce_time)
      BY <3>0, t \in Int, MinusType
    <3>2. m <= Debounce /\ since' <= down' + MaxStall + m
      BY <1>3, <1>9, <1>11, <2>3, <3>1
    <3>3. PICK x \in Nat, y \in Nat : x = since' /\ y = down'
      BY <1>10
    <3>c. Hold \in Nat /\ Debounce \in Nat /\ MaxStall \in Nat
      OBVIOUS
    <3> HIDE <1>0
    <3>4. ~(x < Hold) /\ x <= y + MaxStall + m /\ m <= Debounce
      BY <2>1, <3>2, <3>3, Zenon
    <3>5. y >= Hold - Debounce - MaxStall
      BY <3>c, <3>4
    <3> QED
      BY <3>3, <3>5
  <2>4. CASE ~(Debounce + MaxStall < W)
    BY <1>10, <2>4
  <2> QED BY <2>2, <2>3, <2>4
<1>12. armed' \in Nat
  BY <1>2, <1>10 DEF HoldInv
<1>13. GenuineLongPress'
  <2>1. CASE long
    BY <1>2, <1>11, <2>1 DEF GenuineLongPress
  <2>2. CASE ~long
    BY <1>2, <2>2 DEF GenuineLongPress, HoldInv
  <2> QED BY <2>1, <2>2
<1> QED
  BY <1>2, <1>7, <1>8, <1>9, <1>12, <1>13 DEF HoldInv, Minus

\* Every step preserves HoldInv.
LEMMA HoldStep == ButtonInv /\ HoldInv /\ [ButtonNext]_buttonVars => HoldInv'
<1> SUFFICES ASSUME ButtonInv, HoldInv, [ButtonNext]_buttonVars PROVE HoldInv'
  OBVIOUS
<1>1. ASSUME NEW d \in 0 .. MaxStall, NEW l \in BOOLEAN, Round(d, l)
      PROVE  HoldInv'
  BY <1>1, HoldRound
<1>2. ASSUME NEW d \in 0 .. MaxStall, NEW l \in BOOLEAN, Restart(d, l)
      PROVE  HoldInv'
  <2>1. btn' = Released /\ armed' = 0 /\ reset_state' = "idle"
    BY <1>2 DEF Restart
  <2> QED
    BY <2>1, ReleasedBtn, HoldReleased
<1>3. ASSUME NEW d \in 0 .. MaxStall, NEW l \in BOOLEAN, WaitRelease(d, l)
      PROVE  HoldInv'
  <2>1. btn' = Released /\ armed' = armed /\ reset_state' = "idle"
    BY <1>3 DEF WaitRelease, ButtonInv
  <2> QED
    BY <2>1, ReleasedBtn, HoldReleased DEF HoldInv
<1>4. CASE UNCHANGED buttonVars
  BY <1>4 DEF buttonVars, HoldInv, Minus, GenuineLongPress
<1> QED
  BY <1>1, <1>2, <1>3, <1>4 DEF ButtonNext

\* The reset is armed only by a real long press, for every hold, debounce
\* interval, stall and place of the press on the clock.
THEOREM LongPressGenuine ==
  ButtonSpec => []GenuineLongPress
<1>1. ButtonInit => HoldInv
  <2> SUFFICES ASSUME ButtonInit PROVE HoldInv
    OBVIOUS
  <2>1. btn = Released /\ armed = 0 /\ reset_state = "idle"
    BY DEF ButtonInit
  <2> QED
    BY <2>1, ReleasedBtn DEF HoldInv, GenuineLongPress
<1>2. HoldInv => GenuineLongPress
  BY DEF HoldInv
<1> QED
  BY <1>1, <1>2, ButtonInvInit, ButtonStep, HoldStep, PTL DEF ButtonSpec

\* While the samples differ from the debounced state, they have done so for
\* as long as the debounce interval lasts.
BounceInv ==
  btn.last_state # btn.debounced_state =>
    same >= Minus(now, btn.last_debounce_time) \/ same = Cap

\* An iteration preserves BounceInv, and changes the debounced state only to
\* a level that has lasted.
LEMMA BounceRound ==
  ASSUME ButtonInv, BounceInv, NEW d \in 0 .. MaxStall, NEW l \in BOOLEAN,
         Round(d, l)
  PROVE  /\ BounceInv'
         /\ btn'.debounced_state # btn.debounced_state =>
              same' > Debounce /\ btn'.debounced_state = level'
<1>0. /\ now \in Int /\ d \in Nat
      /\ same \in 0 .. Cap /\ btn.last_debounce_time \in Int
      /\ btn.debounced_state \in BOOLEAN /\ btn.last_state \in BOOLEAN
  BY NextSample DEF ButtonInv, Btns
<1> USE ButtonConstantTypes, <1>0
<1>1. PICK t \in 0 .. (W - 1) : t = (now + d) % W
  BY NextSample
<1> DEFINE settled == Settled(btn, l, t)
<1>2. /\ now' = t /\ level' = l
      /\ same' = IF l = btn.last_state THEN Later(same, d) ELSE 0
  BY <1>1 DEF Round, ButtonInv
<1>3. /\ btn'.last_state = l
      /\ btn'.last_debounce_time = DebounceTime(btn, l, t)
      /\ btn'.debounced_state = IF settled THEN l ELSE btn.debounced_state
  BY <1>1, BtnAfter
<1>4. CASE l # btn.last_state
  <2>1. DebounceTime(btn, l, t) = t /\ Minus(t, t) = 0
    BY <1>4, MinusZero DEF DebounceTime
  <2>2. ~settled
    BY <2>1 DEF Settled
  <2>3. same' >= Minus(now', btn'.last_debounce_time)
    BY <1>2, <1>3, <1>4, <2>1
  <2> QED
    BY <1>3, <2>2, <2>3 DEF BounceInv
<1>5. CASE l = btn.last_state
  <2>1. PICK m \in 0 .. (W - 1), n \in 0 .. (W - 1) :
          /\ m = Minus(now, btn.last_debounce_time)
          /\ n = Minus(t, btn.last_debounce_time)
    <3>1. Minus(now, btn.last_debounce_time) \in 0 .. (W - 1)
      BY MinusType
    <3>2. Minus(t, btn.last_debounce_time) \in 0 .. (W - 1)
      BY t \in Int, MinusType
    <3> QED
      BY <3>1, <3>2
  <2>2. n <= m + d
    BY <1>1, <2>1, MinusAtMost
  <2>3. /\ DebounceTime(btn, l, t) = btn.last_debounce_time
        /\ settled <=> n > Debounce
    BY <1>5, <2>1 DEF DebounceTime, Settled
  <2>4. same' = Later(same, d)
    BY <1>2, <1>5
  <2>5. /\ Later(same, d) \in 0 .. Cap
        /\ Later(same, d) = same + d
             \/ (Later(same, d) = Cap /\ same + d > Cap)
        /\ Cap \in Nat /\ Cap > Debounce
    BY LaterFacts
  <2>6. ASSUME l # btn.debounced_state PROVE same' >= n \/ same' = Cap
    <3>1. same >= m \/ same = Cap
      BY <1>5, <2>1, <2>6 DEF BounceInv
    <3> QED
      BY <2>2, <2>4, <2>5, <3>1
  <2> HIDE DEF settled
  <2>7. BounceInv'
    <3>1. btn'.last_state # btn'.debounced_state => l # btn.debounced_state
      BY <1>3
    <3>2. Minus(now', btn'.last_debounce_time) = n
      BY <1>2, <1>3, <2>1, <2>3
    <3>3. Cap' = Cap
      BY DEF Cap
    <3> QED
      BY <2>6, <3>1, <3>2, <3>3 DEF BounceInv, Minus
  <2>8. ASSUME btn'.debounced_state # btn.debounced_state
        PROVE  same' > Debounce /\ btn'.debounced_state = level'
    <3>1. settled /\ l # btn.debounced_state /\ btn'.debounced_state = l
      BY <1>3, <2>8
    <3>2. n > Debounce /\ (same' >= n \/ same' = Cap)
      BY <2>3, <2>6, <3>1
    <3>3. same' > Debounce
      BY <2>4, <2>5, <3>2
    <3> QED
      BY <1>2, <3>1, <3>3
  <2> QED
    BY <2>7, <2>8
<1> QED
  BY <1>4, <1>5

\* Every step preserves BounceInv and does what NoBounce says.
LEMMA BounceStep ==
  ASSUME ButtonInv, BounceInv, [ButtonNext]_buttonVars
  PROVE  /\ BounceInv'
         /\ [btn'.debounced_state # btn.debounced_state
               => \/ same' > Debounce /\ btn'.debounced_state = level'
                  \/ reset_state = "countdown" /\ reset_state' = "idle"]_buttonVars
<1>1. ASSUME NEW d \in 0 .. MaxStall, NEW l \in BOOLEAN, Round(d, l)
      PROVE  /\ BounceInv'
             /\ btn'.debounced_state # btn.debounced_state =>
                  same' > Debounce /\ btn'.debounced_state = level'
  BY <1>1, BounceRound
<1>2. ASSUME NEW d \in 0 .. MaxStall, NEW l \in BOOLEAN, Restart(d, l)
      PROVE  /\ BounceInv'
             /\ reset_state = "countdown" /\ reset_state' = "idle"
  <2>1. /\ btn' = Released
        /\ reset_state = "countdown" /\ reset_state' = "idle"
    BY <1>2 DEF Restart
  <2>2. btn'.last_state = btn'.debounced_state
    BY <2>1 DEF Released
  <2> QED
    BY <2>1, <2>2 DEF BounceInv
<1>3. ASSUME NEW d \in 0 .. MaxStall, NEW l \in BOOLEAN, WaitRelease(d, l)
      PROVE  BounceInv' /\ btn' = btn
  <2>1. btn = Released /\ btn' = btn
    BY <1>3 DEF WaitRelease, ButtonInv
  <2>2. btn'.last_state = btn'.debounced_state
    BY <2>1 DEF Released
  <2> QED
    BY <2>1, <2>2 DEF BounceInv
<1>4. CASE UNCHANGED buttonVars
  BY <1>4 DEF buttonVars, BounceInv, Minus, Cap
<1> QED
  BY <1>1, <1>2, <1>3, <1>4 DEF ButtonNext

\* A contact bounce is no press and no release: the debounced state changes
\* only to a level that all samples of more than APP_BUTTON_DEBOUNCE_MS have
\* shown, or because the board restarts.
THEOREM BounceFiltered == ButtonSpec => NoBounce
<1>1. ButtonInit => BounceInv
  <2> SUFFICES ASSUME ButtonInit PROVE BounceInv
    OBVIOUS
  <2>1. btn = Released
    BY DEF ButtonInit
  <2> QED
    BY <2>1 DEF BounceInv, Released
<1> QED
  BY <1>1, ButtonInvInit, ButtonStep, BounceStep, PTL DEF ButtonSpec, NoBounce
=============================================================================
