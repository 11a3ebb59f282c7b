------------------------------- MODULE Button -------------------------------
(***************************************************************************)
(* What main.c makes of the push button SW0 (AppButton): the role of the   *)
(* board at boot, the iperf toggle (short press, server only) and the      *)
(* reset sequence (long press, release, one second, reset).                *)
(*                                                                         *)
(* One Round is one iteration of the main loop; up to MaxStall ms pass     *)
(* between two of them, and the button may have done anything meanwhile:   *)
(* the firmware sees it only when it samples it.                           *)
(***************************************************************************)
EXTENDS AppButton

CONSTANT ResetDelay \* RESET_DELAY_MS (1000)

ASSUME ButtonConstants ==
  /\ Debounce \in Nat /\ Hold \in Nat \ {0} /\ ResetDelay \in Nat \ {0}
  /\ MaxStall \in Nat \ {0}
  /\ W \in Nat /\ Hold + MaxStall < W /\ ResetDelay + MaxStall < W

VARIABLES
  level,       \* SW0 is down (read_raw_sw1), as last sampled
  pc,          \* "boot": waits for the release in a client; or "loop"
  board_role,
  btn,         \* sw1_btn
  reset_state, reset_release_time,
  iperf_on,    \* iperf_running
  \* Auxiliary, in real ms up to a cap, for the properties only:
  same,        \* how long all samples have shown this level
  since,       \* time since the press was confirmed
  down,        \* of that, until the last sample that was down
  freed,       \* time since the release started the countdown
  events,      \* toggles and long presses that the present press has caused
  armed,       \* the value of down when the reset was armed
  waited       \* the value of freed when the board last restarted

buttonVars ==
  <<now, level, pc, board_role, btn, reset_state, reset_release_time,
    iperf_on, same, since, down, freed, events, armed, waited>>

\* The cap of the auxiliary clocks: past everything they are compared with.
Cap == Hold + ResetDelay + Debounce + MaxStall + 1
Later(t, d) == IF t + d > Cap THEN Cap ELSE t + d

\* What main does before its loop, with the button at position level.
ButtonInit ==
  /\ now = 0
  /\ level \in BOOLEAN
  /\ board_role = IF level THEN "client" ELSE "server"
  /\ pc = IF level THEN "boot" ELSE "loop"
  /\ btn = Released
  /\ reset_state = "idle" /\ reset_release_time = 0
  /\ iperf_on = FALSE
  /\ same = 0 /\ since = 0 /\ down = 0 /\ freed = 0 /\ events = 0 /\ armed = 0
  /\ waited = Cap

\* A client waits until the button is released.
WaitRelease(d, l) ==
  /\ pc = "boot"
  /\ now' = (now + d) % W
  /\ level' = l
  /\ pc' = IF l THEN "boot" ELSE "loop"
  /\ UNCHANGED <<board_role, btn, reset_state, reset_release_time,
                 iperf_on, same, since, down, freed, events, armed,
                 waited>>

-----------------------------------------------------------------------------
(***************************************************************************)
(* The main loop                                                           *)
(***************************************************************************)

\* Mutants: as for the long press.
CountdownOver_End(t) == t >= (reset_release_time + ResetDelay) % W
CountdownOver_Equal(t) == Minus(t, reset_release_time) = ResetDelay

\* Has the countdown expired?
CountdownOver(t) == Minus(t, reset_release_time) >= ResetDelay

\* One iteration in which the board does not restart: sample and debounce,
\* then the short press, then the reset state machine.
Round(d, l) ==
  LET t    == (now + d) % W
      b    == debounce_button(btn, l, t)
      c    == AfterWasPressed(b)
      long == reset_state = "idle" /\ APP_Button_LongPress(c, t)
      new  == PressStarts(btn, l, t)
      short == b.was_pressed /\ board_role = "server"
  IN
  /\ pc = "loop"
  /\ ~(reset_state = "countdown" /\ CountdownOver(t))
  /\ now' = t /\ level' = l
  /\ iperf_on' = IF short THEN ~iperf_on ELSE iperf_on
  /\ btn' = IF long THEN [c EXCEPT !.long_press_detected = TRUE] ELSE c
  /\ \/ /\ reset_state = "idle"
        /\ reset_state' = IF long THEN "waiting" ELSE "idle"
        /\ UNCHANGED reset_release_time
     \/ /\ reset_state = "waiting"
        /\ IF c.debounced_state
             THEN UNCHANGED <<reset_state, reset_release_time>>
             ELSE reset_state' = "countdown" /\ reset_release_time' = t
     \/ /\ reset_state = "countdown"
        /\ UNCHANGED <<reset_state, reset_release_time>>
  /\ same'  = IF l = level THEN Later(same, d) ELSE 0
  /\ since' = IF new \/ ~c.debounced_state THEN 0 ELSE Later(since, d)
  /\ down'  = IF new \/ ~c.debounced_state THEN 0
              ELSE IF l THEN since' ELSE down
  /\ freed' = IF reset_state = "countdown" THEN Later(freed, d) ELSE 0
  /\ events' = (IF new THEN 0 ELSE events)
                 + (IF short THEN 1 ELSE 0) + (IF long THEN 1 ELSE 0)
  /\ armed' = IF long THEN down' ELSE armed
  /\ UNCHANGED <<pc, board_role, waited>>

\* The iteration that executes the reset instruction, and what main does
\* before its loop: the position of the button selects the role.
Restart(d, l) ==
  /\ pc = "loop"
  /\ reset_state = "countdown" /\ CountdownOver((now + d) % W)
  /\ now' = 0 /\ level' = l
  /\ board_role' = IF l THEN "client" ELSE "server"
  /\ pc' = IF l THEN "boot" ELSE "loop"
  /\ btn' = Released
  /\ reset_state' = "idle" /\ reset_release_time' = 0
  /\ iperf_on' = FALSE
  /\ same' = 0 /\ since' = 0 /\ down' = 0 /\ freed' = 0
  /\ events' = 0 /\ armed' = 0
  /\ waited' = Later(freed, d)

ButtonNext ==
  \E d \in 0 .. MaxStall, l \in BOOLEAN :
    WaitRelease(d, l) \/ Round(d, l) \/ Restart(d, l)

ButtonSpec == ButtonInit /\ [][ButtonNext]_buttonVars

\* The loop goes round and time passes.  Nothing is assumed of the user.
ButtonTick ==
  \E d \in 1 .. MaxStall, l \in BOOLEAN :
    WaitRelease(d, l) \/ Round(d, l) \/ Restart(d, l)
FairButton == ButtonSpec /\ WF_buttonVars(ButtonTick)

-----------------------------------------------------------------------------
(***************************************************************************)
(* Properties                                                              *)
(***************************************************************************)
\* A contact bounce is no press and no release: the debounced state changes
\* only to a level that all samples of more than Debounce ms have shown.
NoBounce ==
  [][btn'.debounced_state # btn.debounced_state
       => \/ same' > Debounce /\ btn'.debounced_state = level'
          \/ reset_state = "countdown" /\ reset_state' = "idle"]_buttonVars

\* A press has one consequence at most: it toggles iperf once, or it arms
\* the reset, never both and never twice, in whatever order release, long
\* press and the reset sequence meet.
OneEventPerPress == events <= 1

\* The reset is armed only by a real long press, also when the millisecond
\* counter wraps during it: the button was seen down for Hold ms, less the
\* debounce interval of the release and one gap between two samples.
GenuineLongPress ==
  reset_state # "idle" => armed >= Hold - Debounce - MaxStall

\* The board restarts no earlier than ResetDelay ms after the release.
RestartAfterDelay == waited >= ResetDelay

\* A button that stays down arms the reset in the end, however the loop's
\* samples fall: APP_Button_LongPress does not miss its moment.
HoldArmsReset == <>[](level /\ pc = "loop") => <>[](reset_state = "waiting")

\* A button that stays up lets every armed reset happen: the state machine
\* of main.c gets stuck neither in RESET_WAITING nor in the countdown.
ReleaseCompletes == <>[](~level) => <>[](reset_state = "idle")
=============================================================================
