------------------------------- MODULE Iperf -------------------------------
(***************************************************************************)
(* The throughput test of the server: main's iperf_running flag, toggled   *)
(* by a short press, and the application behind it, udp_perf_client.c,     *)
(* which starts after a delay, stops itself when its time is over or a     *)
(* send fails, and keeps its own running flag.                             *)
(*                                                                         *)
(* MaxStall is the longest time between two iterations.  External:         *)
(* lwIP and TC6 decide the outcome of a send: "full" (no transmit buffer   *)
(* or no pbuf, nothing is tried), "ok", "block" (ERR_WOULDBLOCK, ERR_MEM)  *)
(* or "error" (anything else).                                             *)
(***************************************************************************)
EXTENDS MsClock

CONSTANTS
  StartDelay, \* START_DELAY (10)
  EndTime,    \* END_TIME (300 000)
  PressGap,   \* least time between two short presses (> 2 debounce intervals)
  IdMod       \* 2^32, modulus of packet_id

ASSUME IperfConstants ==
  /\ StartDelay \in Nat /\ EndTime \in Nat \ {0} /\ MaxStall \in Nat \ {0}
  /\ PressGap \in Nat /\ PressGap > StartDelay
  /\ W \in Nat /\ EndTime + MaxStall < W /\ StartDelay + MaxStall < W
  /\ IdMod \in Nat \ {0, 1}

VARIABLES
  iperf_running,  \* main's view
  startDelay,     \* time of the start, 0 if it is over
  running,
  start_time,     \* client.start_time
  packet_id,
  \* Auxiliary:
  gap,            \* real ms since the last short press, up to PressGap
  age,            \* real ms since start_time, up to EndTime
  prev,           \* last id sent in this session, or -1
  skipped,        \* an id was left out or sent twice
  outcome         \* how the last session ended by itself: "none",
                  \* "over", "early" (over before EndTime), "failed"

iperfVars ==
  <<now, iperf_running, startDelay, running, start_time, packet_id, gap, age,
    prev, skipped, outcome>>

Outcomes == {"full", "ok", "block", "error"}
AtMost(x, y) == IF x > y THEN y ELSE x

IperfInit ==
  /\ now = 1   \* T1S_init has waited for the MAC-PHY's reset
  /\ iperf_running = FALSE
  /\ startDelay = 0 /\ running = FALSE /\ start_time = 0 /\ packet_id = 0
  /\ gap = PressGap /\ age = 0 /\ prev = -1 /\ skipped = FALSE
  /\ outcome = "none"

-----------------------------------------------------------------------------
NextId(id) == (id + 1) % IdMod

\* Mutant: an id whose send was put off is not taken back.
IdAfterSend_Kept(id, o) == IF o = "full" THEN id ELSE NextId(id)

\* udp_packet_send(!FINISH): packet_id afterwards.
IdAfterSend(id, o) == IF o \in {"ok", "error"} THEN NextId(id) ELSE id

\* udp_packet_send(FINISH): the id is -1 as soon as it is tried.
IdAfterFinish(id, o) == IF o = "full" THEN id ELSE IdMod - 1

\* udp_packet_send(!FINISH), with run and p the values of running and prev
\* before it: a failure terminates the application.
SendData(o, run, p) ==
  /\ packet_id' = IdAfterSend(packet_id, o)
  /\ running' = (run /\ o # "error")
  /\ prev' = IF o = "ok" THEN packet_id' ELSE p
  /\ skipped' = (skipped \/ (o = "ok" /\ p # -1 /\ packet_id' # NextId(p)))
  /\ outcome' = IF o = "error" THEN "failed" ELSE outcome

\* Mutant: the end of the session is computed and compared.
TimeOver_End(t) == t >= (start_time + EndTime) % W

\* Mutant: the elapsed time is compared for equality.
TimeOver_Equal(t) == Minus(t, start_time) = EndTime

TimeOver(t) == Minus(t, start_time) >= EndTime

\* The part of transfer_data that ends a session.
Finish(o) ==
  /\ running' = FALSE
  /\ packet_id' = IdAfterFinish(packet_id, o)
  /\ outcome' = IF o = "error" THEN "failed"
                ELSE IF age' < EndTime THEN "early" ELSE "over"
  /\ UNCHANGED <<prev, skipped>>

\* Is it time to start?
DelayOver(t) == startDelay # 0 /\ Minus(t, startDelay) > StartDelay

\* iperf_service, once per iteration of the main loop.
iperf_service(d, o) ==
  LET t   == (now + d) % W
      run == running \/ DelayOver(t)
  IN
  /\ now' = t
  /\ gap' = AtMost(gap + d, PressGap)
  /\ age' = AtMost(age + d, EndTime)
  /\ startDelay' = IF DelayOver(t) THEN 0 ELSE startDelay
  /\ \/ /\ ~run
        /\ UNCHANGED <<running, packet_id, prev, skipped, outcome>>
     \/ /\ run /\ TimeOver(t)
        /\ Finish(o)
     \/ /\ run /\ ~TimeOver(t)
        /\ SendData(o, TRUE, prev)
  /\ UNCHANGED <<iperf_running, start_time>>

\* Short press while main believes iperf is off: iperf_start_application,
\* whose first datagram is sent at once.
StartIperf(o) ==
  /\ gap = PressGap /\ ~iperf_running
  /\ iperf_running' = TRUE
  /\ startDelay' = now
  /\ start_time' = now
  /\ packet_id' = IdAfterSend(packet_id, o)
  /\ running' = FALSE
  /\ prev' = IF o = "ok" THEN packet_id' ELSE -1
  /\ outcome' = IF o = "error" THEN "failed" ELSE "none"
  /\ gap' = 0 /\ age' = 0
  /\ UNCHANGED <<now, skipped>>

\* Mutant: forgets to stop the application.
StopIperf_FlagOnly ==
  /\ gap = PressGap /\ iperf_running
  /\ iperf_running' = FALSE
  /\ gap' = 0
  /\ UNCHANGED <<now, startDelay, running, start_time, packet_id, age, prev,
                 skipped, outcome>>

\* Short press while main believes iperf is on: iperf_stop_application.
StopIperf ==
  /\ gap = PressGap /\ iperf_running
  /\ iperf_running' = FALSE
  /\ running' = FALSE
  /\ gap' = 0
  /\ UNCHANGED <<now, startDelay, start_time, packet_id, age, prev, skipped,
                 outcome>>

Service == \E d \in 0 .. MaxStall, o \in Outcomes : iperf_service(d, o)

IperfNext == Service \/ StopIperf \/ \E o \in Outcomes : StartIperf(o)

IperfSpec == IperfInit /\ [][IperfNext]_iperfVars

\* The main loop goes round and time passes.  Nothing is assumed of the user.
IperfTick == \E d \in 1 .. MaxStall, o \in Outcomes : iperf_service(d, o)
FairIperf == IperfSpec /\ WF_iperfVars(IperfTick)

-----------------------------------------------------------------------------
(***************************************************************************)
(* Properties                                                              *)
(***************************************************************************)
\* When main has stopped iperf and resumed the heartbeat, the application is
\* at rest and no delayed start is pending that would bring it back:
\* iperf_stop_application does not cancel startDelay, so this depends on the
\* debounce time between two presses being longer than START_DELAY.
StopIsFinal == ~iperf_running => ~running /\ startDelay = 0

\* The ids of a session's datagrams are consecutive, whatever sends are
\* refused, put off or fail: the receiver counts a missing id as a loss.
IdsConsecutive == ~skipped

\* A session that ends by itself has lasted END_TIME, also when the
\* millisecond counter wraps during it.
NotEndedEarly == outcome # "early"

\* Every session ends.
SessionEnds == running ~> ~running

\* main.c on the heartbeat: "Suspended during iperf and reset sequence".
\* While iperf_running suspends it, iperf_get_running_state is true.
SuspendedOnlyDuringIperf == iperf_running => running \/ startDelay # 0
=============================================================================
