------------------------------- MODULE Board -------------------------------
(***************************************************************************)
(* The main loop as the composition of the button (AppButton), the iperf   *)
(* application, the pause flags of the heartbeats and the reset sequence.  *)
(* Iperf takes for granted that two presses are far enough apart for a     *)
(* delayed start to be over; here the distance is what debouncing makes of *)
(* arbitrary samples.                                                      *)
(*                                                                         *)
(* An iteration is two actions: Execute (T1S_execute, of which only        *)
(* iperf_service matters here) and Buttons (the rest, with the iteration's *)
(* sample of the button) or Restart.  Time passes before each of them, and *)
(* within Buttons between the sample and what main does about it: printing *)
(* and SPI transfers take milliseconds.                                    *)
(***************************************************************************)
EXTENDS AppButton

CONSTANTS
  Delay,      \* RESET_DELAY_MS (1000)
  StartDelay  \* START_DELAY (10)

ASSUME BoardConstants ==
  /\ Debounce \in Nat /\ Hold \in Nat \ {0} /\ Delay \in Nat \ {0}
  /\ StartDelay \in Nat /\ StartDelay <= Debounce
  /\ MaxStall \in Nat \ {0}
  /\ W \in Nat /\ Hold + 3 * MaxStall < W /\ Delay + 3 * MaxStall < W
  /\ StartDelay + 3 * MaxStall < W

VARIABLES
  phase,          \* what comes next in the iteration
  board_role,
  btn,            \* sw1_btn
  reset_state, reset_release_time,
  iperf_running,  \* main's view of the application
  startDelay,     \* time of its start, 0 if the delay is over
  running,        \* the application sends
  m_paused        \* of both heartbeat modules, which main sets together

vars == <<now, phase, board_role, btn, reset_state, reset_release_time,
          iperf_running, startDelay, running, m_paused>>

Roles == {"server", "client"}

Init ==
  /\ now = 1   \* T1S_init has waited for the MAC-PHY's reset
  /\ phase = "execute"
  /\ board_role \in Roles
  /\ btn = Released
  /\ reset_state = "idle" /\ reset_release_time = 0
  /\ iperf_running = FALSE
  /\ startDelay = 0 /\ running = FALSE
  /\ m_paused = FALSE

-----------------------------------------------------------------------------
\* Is it time to start?
DelayOver(t) == startDelay # 0 /\ Minus(t, startDelay) > StartDelay

\* iperf_service.  The session may end in any call: its time is over or a
\* send fails.
Execute(d, goesOn) ==
  LET t == (now + d) % W IN
  /\ phase = "execute" /\ phase' = "buttons"
  /\ now' = t
  /\ startDelay' = IF DelayOver(t) THEN 0 ELSE startDelay
  /\ running' = ((running \/ DelayOver(t)) /\ goesOn)
  /\ UNCHANGED <<board_role, btn, reset_state, reset_release_time,
                 iperf_running, m_paused>>

\* iperf_start_application and iperf_stop_application, at time t.
StartApplication(t) == startDelay' = t /\ running' = FALSE
StopApplication     == UNCHANGED startDelay /\ running' = FALSE

\* Short press on a server, at time t.
ShortPress(t) ==
  /\ iperf_running' = ~iperf_running
  /\ IF iperf_running THEN StopApplication ELSE StartApplication(t)

\* Mutant: the pause is not lifted.
PausedAfter_Kept(short, long) == long \/ short \/ m_paused

\* The calls of heartbeat_set_paused and eth_heartbeat_set_paused.
PausedAfter(short, long) ==
  long \/ (IF short THEN ~iperf_running ELSE m_paused)

\* Has the countdown expired?
CountdownOver(t) == Minus(t, reset_release_time) >= Delay

\* The rest of an iteration in which the board does not restart: the button
\* is sampled at t, main acts on it at u.
Buttons(d, e, l) ==
  LET t     == (now + d) % W
      u     == (t + e) % W
      b     == debounce_button(btn, l, t)
      c     == AfterWasPressed(b)
      short == b.was_pressed /\ board_role = "server"
      long  == reset_state = "idle" /\ APP_Button_LongPress(c, u)
  IN
  /\ phase = "buttons" /\ phase' = "execute"
  /\ ~(reset_state = "countdown" /\ CountdownOver(u))
  /\ now' = u
  /\ btn' = IF long THEN [c EXCEPT !.long_press_detected = TRUE] ELSE c
  /\ IF short THEN ShortPress(u)
     ELSE UNCHANGED <<iperf_running, startDelay, running>>
  /\ m_paused' = PausedAfter(short, long)
  /\ \/ /\ reset_state = "idle"
        /\ reset_state' = IF long THEN "waiting" ELSE "idle"
        /\ UNCHANGED reset_release_time
     \/ /\ reset_state = "waiting"
        /\ IF c.debounced_state
             THEN UNCHANGED <<reset_state, reset_release_time>>
             ELSE reset_state' = "countdown" /\ reset_release_time' = u
     \/ /\ reset_state = "countdown"
        /\ UNCHANGED <<reset_state, reset_release_time>>
  /\ UNCHANGED board_role

\* The reset instruction, and the way back to the loop in either role.
Restart(d, r) ==
  /\ phase = "buttons" /\ phase' = "execute"
  /\ reset_state = "countdown" /\ CountdownOver((now + d) % W)
  /\ now' = 1
  /\ board_role' = r
  /\ btn' = Released
  /\ reset_state' = "idle" /\ reset_release_time' = 0
  /\ iperf_running' = FALSE
  /\ startDelay' = 0 /\ running' = FALSE
  /\ m_paused' = FALSE

Stalls == 0 .. MaxStall

Next ==
  \/ \E d \in Stalls, g \in BOOLEAN : Execute(d, g)
  \/ \E d, e \in Stalls, l \in BOOLEAN : Buttons(d, e, l)
  \/ \E d \in Stalls, r \in Roles : Restart(d, r)

Spec == Init /\ [][Next]_vars

-----------------------------------------------------------------------------
(***************************************************************************)
(* Properties                                                              *)
(***************************************************************************)
\* Times fit the counter, states are those of the enumerations.
TypeOK ==
  /\ now \in 0 .. (W - 1) /\ phase \in {"execute", "buttons"}
  /\ board_role \in Roles
  /\ btn \in [last_state : BOOLEAN, debounced_state : BOOLEAN,
              last_debounce_time : 0 .. (W - 1), was_pressed : BOOLEAN,
              press_start_time : 0 .. (W - 1), long_press_detected : BOOLEAN]
  /\ reset_state \in {"idle", "waiting", "countdown"}
  /\ reset_release_time \in 0 .. (W - 1)
  /\ iperf_running \in BOOLEAN
  /\ startDelay \in 0 .. (W - 1) /\ running \in BOOLEAN
  /\ m_paused \in BOOLEAN

\* Heartbeat and throughput test exclude each other, however the user
\* presses the button and the loop stalls: once main has stopped iperf, the
\* application does not come back by a start that was still delayed
\* (iperf_stop_application does not cancel it), because the debouncing of
\* the second press takes longer than START_DELAY and an iperf_service falls
\* into it.
StopIsFinal == ~iperf_running => ~running /\ startDelay = 0

\* While main's loop sends heartbeats, the heartbeat modules are not paused,
\* and they are paused while iperf runs or the reset is armed.
PauseAgrees ==
  /\ reset_state = "idle" => (m_paused <=> iperf_running)
  /\ reset_state = "waiting" => m_paused
=============================================================================
