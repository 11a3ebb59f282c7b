------------------------------ MODULE SysTick ------------------------------
(***************************************************************************)
(* The time base of the firmware: src/src/systick/systick.c on top of the  *)
(* free-running hardware timer TMR1.                                       *)
(*                                                                         *)
(* TMR1 counts up and restarts from 0 after Period ticks (PR1 + 1).  The   *)
(* driver keeps no interrupt: it notices a restart only because the raw    *)
(* counter it reads is smaller than the one it read before, and then adds  *)
(* PeriodMs to a uint32_t accumulator.  Everything that measures time in   *)
(* the firmware (LED period, debouncing, long press, reset delay, iperf,   *)
(* heartbeat round trips) subtracts two such readings.                     *)
(*                                                                         *)
(* `ticks' is real time; the driver never sees it.  The model keeps the    *)
(* last result handed to a caller in `ret', with the real instants it is   *)
(* about, so that results can be compared with the truth.                  *)
(***************************************************************************)
EXTENDS Integers

CONSTANTS
  ScalerMs,   \* SYSTICK_TIMER_SCALER_MS: ticks per millisecond
  ScalerUs,   \* SYSTICK_TIMER_SCALER_US: ticks per microsecond
  UsPerMs,    \* the literal 1000UL of SysTick_GetTickUs
  PeriodMs,   \* SYSTICK_PERIOD_MS: milliseconds in one timer period
  Period,     \* PR1 + 1: ticks in one timer period
  W,          \* 2^32, the modulus of uint32_t
  MaxGap,     \* the longest time, in ticks, between two reads of the clock
  Counts,     \* the delays (ms) timeouts are started with
  MaxTicks    \* bound on real time, in ticks

ASSUME ClockConstants ==
  /\ ScalerMs \in Nat \ {0}
  /\ ScalerUs \in Nat \ {0}
  /\ UsPerMs  \in Nat \ {0}
  /\ PeriodMs \in Nat \ {0}
  /\ W        \in Nat \ {0}
  /\ MaxGap   \in Nat
  /\ MaxTicks \in Nat
  /\ Counts \subseteq 1 .. (W - 1)

\* PR1 = 0xFFFEF91F is 42949 ms to the tick, and a millisecond is 1000 us.
ASSUME ScalersAgree ==
  /\ Period = PeriodMs * ScalerMs
  /\ ScalerMs = UsPerMs * ScalerUs

VARIABLES
  ticks,      \* real time in timer ticks since TMR1 was started
  last_raw,   \* static uint32_t last_raw
  ms_offset,  \* static uint32_t ms_offset
  sampled,    \* real time of the last read_tick_with_wrap_detect
  timeout,    \* a SYSTICK_TIMEOUT, and the real time `at' it was (re)started
  stamp,      \* a microsecond reading kept by a caller, and its real time
  ret         \* the last result handed to a caller

vars == <<ticks, last_raw, ms_offset, sampled, timeout, stamp, ret>>

-----------------------------------------------------------------------------
\* SysTick_hal_GetTick: the TMR1 counter.
Raw == ticks % Period

\* Mutant of the wrap detection: the restart test off by one.
OffsetAfterRead_LessEq ==
  IF Raw <= last_raw THEN (ms_offset + PeriodMs) % W ELSE ms_offset

\* ms_offset after the wrap detection of this read.
OffsetAfterRead ==
  IF Raw < last_raw THEN (ms_offset + PeriodMs) % W ELSE ms_offset

read_tick_with_wrap_detect ==
  /\ ms_offset' = OffsetAfterRead
  /\ last_raw' = Raw
  /\ sampled' = ticks
  /\ UNCHANGED ticks

\* Mutant: the offset is taken before the wrap detection of this read.
TickUs_Stale == ms_offset * UsPerMs + Raw \div ScalerUs

\* What SysTick_GetTickMs and SysTick_GetTickUs return at this read.  The
\* microsecond value is a uint64_t and does not wrap.
TickMs == (OffsetAfterRead + Raw \div ScalerMs) % W
TickUs == OffsetAfterRead * UsPerMs + Raw \div ScalerUs

\* Unsigned subtraction of two readings, as (uint32_t)(a - b).
Minus32(a, b) == (a - b) % W

\* Real milliseconds and microseconds at an instant.
RealMs(t) == t \div ScalerMs
RealUs(t) == t \div ScalerUs

Ret(op, val, from) == [op |-> op, val |-> val, from |-> from, at |-> ticks]

-----------------------------------------------------------------------------
Init ==
  /\ ticks = 0
  /\ last_raw = 0
  /\ ms_offset = 0
  /\ sampled = 0
  /\ timeout = [start |-> 0, count |-> 0, at |-> 0]
  /\ stamp = [val |-> 0, at |-> 0]
  /\ ret = [op |-> "ms", val |-> 0, from |-> 0, at |-> 0]

\* Real time passes; the main loop reads the clock at least every MaxGap.
Tick ==
  /\ ticks < MaxTicks
  /\ ticks + 1 - sampled <= MaxGap
  /\ ticks' = ticks + 1
  /\ UNCHANGED <<last_raw, ms_offset, sampled, timeout, stamp, ret>>

SysTick_GetTickMs ==
  /\ read_tick_with_wrap_detect
  /\ ret' = Ret("ms", TickMs, ticks)
  /\ UNCHANGED <<timeout, stamp>>

SysTick_GetTickUs ==
  /\ read_tick_with_wrap_detect
  /\ ret' = Ret("us", TickUs, ticks)
  /\ UNCHANGED <<timeout, stamp>>

SysTick_StartTimeOut(delay_ms) ==
  /\ read_tick_with_wrap_detect
  /\ timeout' = [start |-> TickMs, count |-> delay_ms, at |-> ticks]
  /\ ret' = Ret("ms", TickMs, ticks)
  /\ UNCHANGED stamp

SysTick_ResetTimeOut ==
  /\ read_tick_with_wrap_detect
  /\ timeout' = [timeout EXCEPT !.start = TickMs, !.at = ticks]
  /\ ret' = Ret("ms", TickMs, ticks)
  /\ UNCHANGED stamp

\* Mutant of the timeout test: comparing with the end time instead of
\* subtracting.
IsTimeoutReached_EndTime ==
  /\ read_tick_with_wrap_detect
  /\ ret' = Ret("reached", TickMs >= (timeout.start + timeout.count) % W,
                timeout.at)
  /\ UNCHANGED <<timeout, stamp>>

SysTick_IsTimeoutReached ==
  /\ read_tick_with_wrap_detect
  /\ ret' = Ret("reached", Minus32(TickMs, timeout.start) >= timeout.count,
                timeout.at)
  /\ UNCHANGED <<timeout, stamp>>

\* heartbeat_send and eth_heartbeat_send note when they send ...
SendStamp ==
  /\ read_tick_with_wrap_detect
  /\ stamp' = [val |-> TickUs, at |-> ticks]
  /\ ret' = Ret("us", TickUs, ticks)
  /\ UNCHANGED timeout

\* ... and the receive callbacks compute the round trip from it.
AckRtt ==
  /\ read_tick_with_wrap_detect
  /\ ret' = Ret("rtt", Minus32(TickUs, stamp.val), stamp.at)
  /\ UNCHANGED <<timeout, stamp>>

Next ==
  \/ Tick
  \/ SysTick_GetTickMs
  \/ SysTick_GetTickUs
  \/ \E c \in Counts : SysTick_StartTimeOut(c)
  \/ SysTick_ResetTimeOut
  \/ SysTick_IsTimeoutReached
  \/ SendStamp
  \/ AckRtt

Spec == Init /\ [][Next]_vars

-----------------------------------------------------------------------------
(***************************************************************************)
(* Properties                                                              *)
(***************************************************************************)

\* The accumulator has counted every restart of the timer up to the last
\* read: no wrap is missed and none is counted twice.
WrapsDetected ==
  ms_offset = ((sampled \div Period) * PeriodMs) % W

\* SysTick_GetTickMs returns the real number of milliseconds modulo 2^32,
\* whatever number of timer restarts lies between the reads.
MsExact ==
  ret.op = "ms" => ret.val = RealMs(ret.at) % W

\* SysTick_IsTimeoutReached never says yes before (to the millisecond) the
\* delay has really passed since the (re)start, even when both the timer and
\* the 32-bit millisecond count have wrapped in between.
TimeoutNotEarly ==
  (ret.op = "reached" /\ ret.val) =>
    ret.at - ret.from > (timeout.count - 1) * ScalerMs

\* ... and it says yes on every check made once the delay has passed, unless
\* a whole 2^32 ms went by since the (re)start.
TimeoutNotLate ==
  (ret.op = "reached" /\ ~ret.val) =>
    \/ ret.at - ret.from < timeout.count * ScalerMs
    \/ ret.at - ret.from > (W - 1) * ScalerMs

\* A timeout is exact to the millisecond, across all wraps.
TimeoutExact == TimeoutNotEarly /\ TimeoutNotLate

\* The round trip the heartbeats compute with (uint32_t)(now_us - stamp) is
\* the real one modulo 2^32 us, even when ms_offset overflowed in between and
\* the 64-bit microsecond count itself jumped back.
RttExact ==
  ret.op = "rtt" =>
    ret.val = (RealUs(ret.at) - RealUs(ret.from)) % W
=============================================================================
