--------------------------- MODULE SysTickProofs ---------------------------
(***************************************************************************)
(* The clock of the firmware is exact, for every timer period, scaling and *)
(* word size, provided it is read more often than the timer restarts.      *)
(*                                                                         *)
(* The invariant that carries the proof, ClockInv, relates what the driver *)
(* remembers (last_raw, ms_offset) to the real instant of the last read.   *)
(***************************************************************************)
EXTENDS SysTick, ModArith

\* The driver's state is that of an ideal clock at the last read, and the
\* next read comes before the timer can restart twice.
ClockInv ==
  /\ ticks \in Nat
  /\ sampled \in Nat
  /\ sampled <= ticks
  /\ ticks - sampled <= MaxGap
  /\ last_raw = sampled % Period
  /\ WrapsDetected

\* Readings kept by callers are exact modulo 2^32.
KeptInv ==
  /\ timeout.at \in Nat
  /\ timeout.at <= sampled
  /\ timeout.count \in Nat
  /\ timeout.start = RealMs(timeout.at) % W
  /\ stamp.at \in Nat
  /\ stamp.val \in Nat
  /\ stamp.val % W = RealUs(stamp.at) % W

\* The verdict of a timeout check is the comparison of real milliseconds.
VerdictInv ==
  ret.op = "reached" =>
    /\ ret.at \in Nat
    /\ ret.from = timeout.at
    /\ ret.from <= ret.at
    /\ ret.val =
         ((RealMs(ret.at) - RealMs(ret.from)) % W >= timeout.count)

IInv == ClockInv /\ KeptInv /\ VerdictInv /\ MsExact /\ RttExact

-----------------------------------------------------------------------------
\* The derived constants are positive.
LEMMA PeriodPositive == Period \in Nat \ {0}
  BY ClockConstants, ScalersAgree

\* The typing of the constants, fact by fact.
LEMMA PosConstants ==
  /\ W \in Nat \ {0}
  /\ ScalerMs \in Nat \ {0}
  /\ ScalerUs \in Nat \ {0}
  /\ PeriodMs \in Nat \ {0}
  /\ UsPerMs \in Nat \ {0}
  BY ClockConstants

\* Wrap detection counts the restarts since the last read exactly.
LEMMA OffsetExact ==
  ASSUME MaxGap < Period, ClockInv
  PROVE  OffsetAfterRead = ((ticks \div Period) * PeriodMs) % W
<1> DEFINE q == sampled \div Period
<1>1. /\ q \in Int
      /\ q * PeriodMs \in Int
      /\ ticks - sampled < Period
      /\ MaxGap \in Nat
  BY PeriodPositive, DivModDef, ClockConstants DEF ClockInv
<1>2. CASE Raw < last_raw
  <2>1. ticks \div Period = q + 1
    BY <1>1, <1>2, QuotientStep, PeriodPositive DEF ClockInv, Raw
  <2>2. (q + 1) * PeriodMs = q * PeriodMs + PeriodMs
    BY <1>1, ClockConstants
  <2>3. (((q * PeriodMs) % W) + PeriodMs) % W = (q * PeriodMs + PeriodMs) % W
    BY <1>1, ModAdd, ClockConstants
  <2>4. OffsetAfterRead = (((q * PeriodMs) % W) + PeriodMs) % W
    BY <1>2 DEF OffsetAfterRead, ClockInv, WrapsDetected
  <2> QED
    BY <2>1, <2>2, <2>3, <2>4
<1>3. CASE ~(Raw < last_raw)
  <2>1. ticks \div Period = q
    BY <1>1, <1>3, QuotientStep, PeriodPositive DEF ClockInv, Raw
  <2> QED
    BY <2>1, <1>3 DEF OffsetAfterRead, ClockInv, WrapsDetected
<1> QED
  BY <1>2, <1>3

\* SysTick_GetTickMs returns the real milliseconds modulo 2^32.
LEMMA TickMsExact ==
  ASSUME MaxGap < Period, ClockInv
  PROVE  TickMs = RealMs(ticks) % W
<1> DEFINE X == (ticks \div Period) * PeriodMs
           Y == (ticks % Period) \div ScalerMs
<1>1. ticks \in Nat
  BY DEF ClockInv
<1>2. X \in Int /\ Y \in Int
  BY <1>1, PeriodPositive, DivModDef, ClockConstants
<1>3. ticks \div ScalerMs = X + Y
  <2>1. Period = PeriodMs * ScalerMs
    BY ScalersAgree
  <2> QED
    BY <1>1, <2>1, DivSplit, PosConstants, Zenon
<1>4. TickMs = ((X % W) + Y) % W
  BY OffsetExact DEF TickMs, Raw
<1>5. ((X % W) + Y) % W = (X + Y) % W
  BY <1>2, ModAdd, ClockConstants
<1> QED
  BY <1>3, <1>4, <1>5 DEF RealMs

\* SysTick_GetTickUs agrees with the real microseconds modulo 2^32.
LEMMA TickUsExact ==
  ASSUME MaxGap < Period, ClockInv
  PROVE  TickUs \in Nat /\ TickUs % W = RealUs(ticks) % W
<1> DEFINE X == (ticks \div Period) * PeriodMs
           Y == (ticks % Period) \div ScalerUs
<1>1. ticks \in Nat
  BY DEF ClockInv
<1>2. X \in Int /\ ticks \div Period \in Int
  BY <1>1, PeriodPositive, DivModDef, ClockConstants
<1>3. Y \in Nat
  <2>1. ticks % Period \in Nat
    BY <1>1, PeriodPositive, DivModDef
  <2> QED BY <2>1, ClockConstants
<1>4. PICK k \in Int : X = W * k + (X % W)
  <2>1. X \div W \in Int /\ X = W * (X \div W) + (X % W)
    BY <1>2, DivModDef, PosConstants
  <2> QED BY <2>1
<1>5. X % W \in Nat
  <2>1. X % W \in 0 .. (W - 1)
    BY <1>2, DivModDef, PosConstants, Zenon
  <2> QED BY <2>1, PosConstants
<1>6. TickUs = (X % W) * UsPerMs + Y
  BY OffsetExact DEF TickUs, Raw
<1>7. TickUs \in Nat
  BY <1>3, <1>5, <1>6, ClockConstants
<1>8. Period = (PeriodMs * UsPerMs) * ScalerUs
  BY ClockConstants, ScalersAgree
<1>9. PeriodMs * UsPerMs \in Nat \ {0}
  BY ClockConstants
<1>10. ticks \div ScalerUs = (ticks \div Period) * (PeriodMs * UsPerMs) + Y
  BY <1>1, <1>8, <1>9, DivSplit, PeriodPositive, PosConstants, Zenon
<1>11. (ticks \div Period) * (PeriodMs * UsPerMs) = X * UsPerMs
  BY <1>2, ClockConstants
<1>12. RealUs(ticks) = TickUs + W * (k * UsPerMs)
  <2> HIDE DEF X, Y
  <2>1. RealUs(ticks) = X * UsPerMs + Y
    BY <1>10, <1>11 DEF RealUs
  <2>2. X * UsPerMs = (X % W) * UsPerMs + W * (k * UsPerMs)
    BY <1>2, <1>4, <1>5, ClockConstants
  <2> QED
    BY <2>1, <2>2, <1>3, <1>5, <1>6, ClockConstants
<1>13. k * UsPerMs \in Int /\ TickUs \in Int
  BY <1>4, <1>7, ClockConstants
<1>14. (TickUs + W * (k * UsPerMs)) % W = TickUs % W
  BY <1>13, ModShift, PosConstants, Zenon
<1> QED
  BY <1>7, <1>12, <1>14

\* A read of the clock establishes ClockInv at the instant of the read.
LEMMA ReadKeepsClock ==
  ASSUME MaxGap < Period, ClockInv, read_tick_with_wrap_detect
  PROVE  ClockInv' /\ sampled' = ticks /\ ticks' = ticks /\ sampled <= ticks
  BY OffsetExact, ClockConstants
     DEF ClockInv, read_tick_with_wrap_detect, WrapsDetected, Raw

-----------------------------------------------------------------------------
LEMMA InitInv == Init => IInv
<1> SUFFICES ASSUME Init PROVE IInv
  OBVIOUS
<1>1. 0 % Period = 0 /\ 0 \div Period = 0
  BY DivModUnique, PeriodPositive, 0 = Period * 0 + 0
<1>2. 0 % W = 0
  BY ModSmall, ClockConstants
<1>3. 0 \div ScalerMs = 0 /\ 0 \div ScalerUs = 0
  BY DivModUnique, ClockConstants, 0 = ScalerMs * 0 + 0, 0 = ScalerUs * 0 + 0
<1>4. ClockInv
  BY <1>1, <1>2, ClockConstants DEF Init, ClockInv, WrapsDetected
<1>5. KeptInv
  BY <1>2, <1>3 DEF Init, KeptInv, RealMs, RealUs
<1>6. VerdictInv /\ MsExact /\ RttExact
  BY <1>2, <1>3 DEF Init, VerdictInv, MsExact, RttExact, RealMs
<1> QED
  BY <1>4, <1>5, <1>6 DEF IInv

LEMMA StepInv ==
  ASSUME MaxGap < Period, IInv, [Next]_vars
  PROVE  IInv'
<1> USE DEF IInv
<1>1. ASSUME read_tick_with_wrap_detect
      PROVE  /\ ClockInv'
             /\ TickMs = RealMs(ticks) % W
             /\ TickUs \in Nat
             /\ TickUs % W = RealUs(ticks) % W
             /\ ticks \in Nat
             /\ ticks' = ticks
             /\ sampled' = ticks
             /\ sampled <= ticks
             /\ timeout.at <= ticks
  BY <1>1, ReadKeepsClock, TickMsExact, TickUsExact DEF ClockInv, KeptInv
<1>2. CASE Tick
  BY <1>2 DEF Tick, ClockInv, KeptInv, VerdictInv, MsExact, RttExact,
              WrapsDetected, RealMs, RealUs
<1>3. CASE SysTick_GetTickMs
  BY <1>1, <1>3 DEF SysTick_GetTickMs, Ret, KeptInv, VerdictInv, MsExact,
                    RttExact, RealMs, RealUs
<1>4. CASE SysTick_GetTickUs
  BY <1>1, <1>4 DEF SysTick_GetTickUs, Ret, KeptInv, VerdictInv, MsExact,
                    RttExact, RealMs, RealUs
<1>5. ASSUME NEW c \in Counts, SysTick_StartTimeOut(c)
      PROVE  IInv'
  BY <1>1, <1>5, ClockConstants
     DEF SysTick_StartTimeOut, Ret, KeptInv, VerdictInv, MsExact,
         RttExact, RealMs, RealUs
<1>6. CASE SysTick_ResetTimeOut
  BY <1>1, <1>6 DEF SysTick_ResetTimeOut, Ret, KeptInv, VerdictInv, MsExact,
                    RttExact, RealMs, RealUs
<1>7. CASE SysTick_IsTimeoutReached
  <2>1. read_tick_with_wrap_detect
    BY <1>7 DEF SysTick_IsTimeoutReached
  <2>2. RealMs(ticks) \in Int /\ RealMs(timeout.at) \in Int
    <3>1. ticks \in Int /\ timeout.at \in Int
      BY <1>1, <2>1 DEF KeptInv
    <3> QED BY <3>1, DivModDef, PosConstants, Zenon DEF RealMs
  <2>3. Minus32(TickMs, timeout.start)
          = (RealMs(ticks) - RealMs(timeout.at)) % W
    BY <1>1, <2>1, <2>2, ModSub, PosConstants DEF Minus32, KeptInv
  <2>4. VerdictInv'
    BY <1>1, <1>7, <2>1, <2>3
       DEF SysTick_IsTimeoutReached, Ret, VerdictInv, RealMs
  <2>5. KeptInv' /\ MsExact' /\ RttExact'
    BY <1>1, <1>7, <2>1
       DEF SysTick_IsTimeoutReached, Ret, KeptInv, MsExact, RttExact,
           RealMs, RealUs
  <2> QED
    BY <1>1, <2>1, <2>4, <2>5
<1>8. CASE SendStamp
  BY <1>1, <1>8 DEF SendStamp, Ret, KeptInv, VerdictInv, MsExact,
                    RttExact, RealMs, RealUs
<1>9. CASE AckRtt
  <2>1. read_tick_with_wrap_detect
    BY <1>9 DEF AckRtt
  <2>2. /\ RealUs(ticks) \in Int
        /\ RealUs(stamp.at) \in Int
        /\ TickUs \in Int
        /\ stamp.val \in Int
    <3>1. /\ ticks \in Int /\ stamp.at \in Int
          /\ TickUs \in Int /\ stamp.val \in Int
      BY <1>1, <2>1 DEF KeptInv
    <3> QED BY <3>1, DivModDef, PosConstants, Zenon DEF RealUs
  <2>3. (TickUs - stamp.val) % W = ((TickUs % W) - (stamp.val % W)) % W
    BY <2>2, ModSub, PosConstants
  <2>4. (RealUs(ticks) - RealUs(stamp.at)) % W
          = ((RealUs(ticks) % W) - (RealUs(stamp.at) % W)) % W
    BY <2>2, ModSub, PosConstants
  <2>5. Minus32(TickUs, stamp.val) = (RealUs(ticks) - RealUs(stamp.at)) % W
    BY <1>1, <2>1, <2>3, <2>4 DEF Minus32, KeptInv
  <2>6. RttExact'
    BY <1>1, <1>9, <2>1, <2>5 DEF AckRtt, Ret, RttExact, RealUs
  <2>7. KeptInv' /\ MsExact' /\ VerdictInv'
    BY <1>1, <1>9, <2>1
       DEF AckRtt, Ret, KeptInv, MsExact, VerdictInv, RealMs, RealUs
  <2> QED
    BY <1>1, <2>1, <2>6, <2>7
<1>10. CASE UNCHANGED vars
  BY <1>10 DEF vars, ClockInv, KeptInv, VerdictInv, MsExact, RttExact,
               WrapsDetected, RealMs, RealUs
<1> QED
  BY <1>2, <1>3, <1>4, <1>5, <1>6, <1>7, <1>8, <1>9, <1>10 DEF Next

\* What the invariant says about timeouts, in ticks of real time.
LEMMA VerdictSound ==
  ASSUME IInv
  PROVE  TimeoutNotEarly /\ TimeoutNotLate
<1> SUFFICES ASSUME ret.op = "reached"
             PROVE  /\ ret.val => ret.at - ret.from > (timeout.count - 1) * ScalerMs
                    /\ ~ret.val =>
                         \/ ret.at - ret.from < timeout.count * ScalerMs
                         \/ ret.at - ret.from > (W - 1) * ScalerMs
  BY DEF TimeoutNotEarly, TimeoutNotLate
<1> DEFINE a == RealMs(ret.from)
           b == RealMs(ret.at)
<1>1. /\ ret.at \in Int /\ ret.from \in Int /\ ret.from <= ret.at
      /\ timeout.count \in Nat
      /\ ret.val = ((b - a) % W >= timeout.count)
  BY DEF IInv, VerdictInv, KeptInv
<1>v. /\ ret.val  => (b - a) % W >= timeout.count
      /\ ~ret.val => ~((b - a) % W >= timeout.count)
  BY <1>1, Zenon
<1>2. a \in Int /\ b \in Int /\ ScalerMs \in Nat \ {0} /\ W \in Nat \ {0}
  BY <1>1, DivModDef, PosConstants DEF RealMs
<1>3. ASSUME NEW d \in Int
      PROVE  /\ b - a >= d => ret.at - ret.from > (d - 1) * ScalerMs
             /\ b - a < d  => ret.at - ret.from < d * ScalerMs
  BY <1>1, <1>2, QuotientGap DEF RealMs
<1>4. b - a >= 0
  <2> SUFFICES ASSUME b - a < 0 PROVE FALSE
    BY <1>2
  <2>1. ret.at - ret.from < 0 * ScalerMs
    BY <1>3
  <2> QED BY <2>1, <1>1, <1>2
<1> HIDE DEF a, b
<1>5. CASE b - a < W
  <2>1. (b - a) % W = b - a
    BY <1>2, <1>4, <1>5, ModSmall
  <2>2. /\ b - a >= timeout.count =>
             ret.at - ret.from > (timeout.count - 1) * ScalerMs
        /\ b - a < timeout.count =>
             ret.at - ret.from < timeout.count * ScalerMs
    BY <1>1, <1>3
  <2>3. ~(b - a >= timeout.count) => b - a < timeout.count
    BY <1>1, <1>2
  <2> QED
    BY <1>v, <2>1, <2>2, <2>3, Zenon
<1>6. CASE b - a >= W
  <2>1. ret.at - ret.from > (W - 1) * ScalerMs
    BY <1>2, <1>3, <1>6
  <2>2. (b - a) % W <= W - 1 /\ (b - a) % W \in Int
    BY <1>2, DivModDef
  <2>3. ASSUME (b - a) % W >= timeout.count
        PROVE  ret.at - ret.from > (timeout.count - 1) * ScalerMs
    <3>1. timeout.count - 1 <= W - 1
      BY <1>1, <1>2, <2>2, <2>3
    <3>2. (timeout.count - 1) * ScalerMs <= (W - 1) * ScalerMs
      BY <1>1, <1>2, <3>1
    <3> QED
      BY <1>1, <1>2, <2>1, <3>2
  <2> QED
    BY <1>v, <2>1, <2>3, Zenon
<1> QED
  BY <1>2, <1>5, <1>6

-----------------------------------------------------------------------------
\* As long as the clock is read more often than TMR1 restarts, its driver
\* (read_tick_with_wrap_detect, SysTick_GetTickMs) misses no restart and the
\* millisecond count is exact modulo 2^32.
THEOREM ClockCorrect ==
  ASSUME MaxGap < Period
  PROVE  Spec => [](WrapsDetected /\ MsExact)
<1>1. Init => IInv
  BY InitInv
<1>2. IInv /\ [Next]_vars => IInv'
  BY StepInv
<1>3. IInv => WrapsDetected /\ MsExact
  BY DEF IInv, ClockInv
<1> QED
  BY <1>1, <1>2, <1>3, PTL DEF Spec

\* SysTick_IsTimeoutReached answers neither early nor late, across any number
\* of restarts of the timer and wraps of the 32-bit millisecond count.
THEOREM TimeoutCorrect ==
  ASSUME MaxGap < Period
  PROVE  Spec => []TimeoutExact
<1>1. Init => IInv
  BY InitInv
<1>2. IInv /\ [Next]_vars => IInv'
  BY StepInv
<1>3. IInv => TimeoutExact
  BY VerdictSound DEF TimeoutExact
<1> QED
  BY <1>1, <1>2, <1>3, PTL DEF Spec

\* The (uint32_t) round trip of the heartbeats is exact modulo 2^32 us, even
\* across the overflow of ms_offset.
THEOREM RttCorrect ==
  ASSUME MaxGap < Period
  PROVE  Spec => []RttExact
<1>1. Init => IInv
  BY InitInv
<1>2. IInv /\ [Next]_vars => IInv'
  BY StepInv
<1>3. IInv => RttExact
  BY DEF IInv
<1> QED
  BY <1>1, <1>2, <1>3, PTL DEF Spec
=============================================================================
