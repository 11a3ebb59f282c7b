----------------------------- MODULE AppButton -----------------------------
(***************************************************************************)
(* app.c: what APP_Buttons_Task, APP_Button_WasPressed and                 *)
(* APP_Button_LongPress make of the samples of the push button SW0.  The   *)
(* state of the button is the record sw1_btn.                              *)
(***************************************************************************)
EXTENDS MsClock

CONSTANTS
  Debounce,  \* APP_BUTTON_DEBOUNCE_MS (20)
  Hold       \* LONG_PRESS_RESET_MS (3000)

\* APP_Buttons_Init
Released == [last_state |-> FALSE, debounced_state |-> FALSE,
             last_debounce_time |-> 0, was_pressed |-> FALSE,
             press_start_time |-> 0, long_press_detected |-> FALSE]

\* Mutants: the end of the interval is kept instead of its start; only a
\* press restarts it.
DebounceTime_End(b, raw, t) ==
  IF raw # b.last_state THEN t + Debounce ELSE b.last_debounce_time
DebounceTime_Press(b, raw, t) ==
  IF raw /\ ~b.last_state THEN t ELSE b.last_debounce_time

\* debounce_button, first half: a change of the sampled level restarts the
\* debounce interval.
DebounceTime(b, raw, t) ==
  IF raw # b.last_state THEN t ELSE b.last_debounce_time

\* Mutant: settled a millisecond early.
Settled_AtLeast(b, raw, t) == Minus(t, DebounceTime(b, raw, t)) >= Debounce

Settled(b, raw, t) == Minus(t, DebounceTime(b, raw, t)) > Debounce

\* debounce_button, second half: once the level has settled, a new press
\* records its start, a release fires the short press unless the long press
\* has been detected.
PressStarts(b, raw, t) == Settled(b, raw, t) /\ ~b.debounced_state /\ raw
PressEnds(b, raw, t)   == Settled(b, raw, t) /\ b.debounced_state /\ ~raw

debounce_button(b, raw, t) ==
  [last_state          |-> raw,
   last_debounce_time  |-> DebounceTime(b, raw, t),
   debounced_state     |-> IF Settled(b, raw, t) THEN raw
                           ELSE b.debounced_state,
   press_start_time    |-> IF PressStarts(b, raw, t) THEN t
                           ELSE b.press_start_time,
   long_press_detected |-> b.long_press_detected /\ ~PressStarts(b, raw, t),
   was_pressed         |-> \/ b.was_pressed
                           \/ PressEnds(b, raw, t) /\ ~b.long_press_detected]

\* Mutant: the flag stays up.
AfterWasPressed_Kept(b) == b

\* APP_Button_WasPressed clears the flag it returns.
AfterWasPressed(b) == [b EXCEPT !.was_pressed = FALSE]

\* Mutants: the end of the hold is computed and compared; the elapsed time
\* is compared for equality.
LongPress_End(b, t) ==
  /\ b.debounced_state /\ ~b.long_press_detected
  /\ t >= (b.press_start_time + Hold) % W
LongPress_Equal(b, t) ==
  /\ b.debounced_state /\ ~b.long_press_detected
  /\ Minus(t, b.press_start_time) = Hold

\* APP_Button_LongPress, which also sets long_press_detected.
APP_Button_LongPress(b, t) ==
  /\ b.debounced_state /\ ~b.long_press_detected
  /\ Minus(t, b.press_start_time) >= Hold
=============================================================================
