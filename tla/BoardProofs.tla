---------------------------- MODULE BoardProofs ----------------------------
(***************************************************************************)
(* Stopping the throughput test is final and the heartbeat is paused when  *)
(* it should be, for every word size, every debounce interval that is no   *)
(* shorter than the start delay, and every way of pressing the button and  *)
(* stalling the loop.                                                      *)
(***************************************************************************)
EXTENDS Board, ModArith

\* The inductive invariant.  While a start is pending, it is no longer ago
\* than the last iperf_service allowed plus what has passed since; the
\* button can have been seen down only since then (so that its debounce
\* interval lies within the delay), and once the press is confirmed the
\* delay is over and the next iperf_service will see it.
PendingInv ==
  startDelay # 0 =>
    /\ iperf_running
    /\ phase = "buttons" => Minus(now, startDelay) <= StartDelay
    /\ phase = "execute" =>
         Minus(now, startDelay) <= StartDelay + 2 * MaxStall
    /\ ~btn.debounced_state /\ btn.last_state =>
         Minus(now, btn.last_debounce_time) <= Minus(now, startDelay)
    /\ btn.debounced_state =>
         phase = "execute" /\ Minus(now, startDelay) > StartDelay

StopInv ==
  /\ TypeOK /\ PendingInv
  /\ ~btn.was_pressed
  /\ ~iperf_running => ~running

-----------------------------------------------------------------------------
\* The constants, fact by fact.
LEMMA BoardConstantTypes ==
  /\ W \in Nat \ {0, 1} /\ StartDelay \in Nat /\ MaxStall \in Nat
  /\ Debounce \in Nat /\ StartDelay <= Debounce
  /\ StartDelay + 3 * MaxStall < W
  BY BoardConstants

\* The time since s grows with the clock, across its wraps.
LEMMA ClockElapsed ==
  ASSUME NEW t \in 0 .. (W - 1), NEW s \in 0 .. (W - 1), NEW d \in Nat,
         Minus(t, s) + d < W
  PROVE  Minus((t + d) % W, s) = Minus(t, s) + d
<1>1. W \in Nat \ {0} /\ t \in Int /\ s \in Int /\ ((t - s) % W) + d < W
  BY BoardConstantTypes DEF Minus
<1> QED
  BY <1>1, ElapsedMod, Zenon DEF Minus

\* Readings of the clock and their differences are in its range.
LEMMA ClockTypes ==
  ASSUME NEW t \in Int, NEW s \in Int
  PROVE  t % W \in 0 .. (W - 1) /\ Minus(t, s) \in 0 .. (W - 1)
<1> USE BoardConstantTypes
<1>1. t - s \in Int
  OBVIOUS
<1> QED
  BY <1>1, DivModDef DEF Minus

LEMMA ElapsedType == \A t, s \in 0 .. (W - 1) : Minus(t, s) \in 0 .. (W - 1)
<1> TAKE t, s \in 0 .. (W - 1)
<1>1. t \in Int /\ s \in Int
  BY BoardConstantTypes
<1> QED
  BY <1>1, ClockTypes

\* No time has passed between two equal readings.
LEMMA ClockSame == ASSUME NEW t \in Int PROVE Minus(t, t) = 0
<1>1. t - t = 0
  OBVIOUS
<1> QED
  BY <1>1, BoardConstantTypes, ModSmall DEF Minus

Btns == [last_state : BOOLEAN, debounced_state : BOOLEAN,
         last_debounce_time : 0 .. (W - 1), was_pressed : BOOLEAN,
         press_start_time : 0 .. (W - 1), long_press_detected : BOOLEAN]

\* debounce_button, field by field.
LEMMA DebounceTypes ==
  ASSUME NEW b \in Btns, NEW l \in BOOLEAN, NEW t \in 0 .. (W - 1)
  PROVE  debounce_button(b, l, t) \in Btns
<1> USE BoardConstantTypes
<1>1. /\ b.last_debounce_time \in 0 .. (W - 1)
      /\ b.press_start_time \in 0 .. (W - 1)
      /\ b.debounced_state \in BOOLEAN /\ b.was_pressed \in BOOLEAN
      /\ b.long_press_detected \in BOOLEAN
  BY DEF Btns
<1>2. DebounceTime(b, l, t) \in 0 .. (W - 1)
  BY <1>1 DEF DebounceTime
<1>3. (IF Settled(b, l, t) THEN l ELSE b.debounced_state) \in BOOLEAN
  BY <1>1
<1>4. (IF PressStarts(b, l, t) THEN t ELSE b.press_start_time) \in 0 .. (W - 1)
  BY <1>1
<1>5. (b.long_press_detected /\ ~PressStarts(b, l, t)) \in BOOLEAN
  BY Zenon
<1>6. (\/ b.was_pressed
       \/ PressEnds(b, l, t) /\ ~b.long_press_detected) \in BOOLEAN
  BY Zenon
<1> QED
  BY <1>2, <1>3, <1>4, <1>5, <1>6, Zenon DEF debounce_button, Btns

\* The initial state, which a restart comes back to.
LEMMA StopInvInit == Init => StopInv
<1> SUFFICES ASSUME Init PROVE StopInv
  OBVIOUS
<1> USE BoardConstantTypes
<1>1. btn \in Btns /\ ~btn.was_pressed
  BY DEF Init, Released, Btns
<1>2. iperf_running \in BOOLEAN /\ running \in BOOLEAN /\ m_paused \in BOOLEAN
      /\ ~running
  BY Zenon DEF Init
<1> QED
  BY <1>1, <1>2 DEF Init, StopInv, PendingInv, TypeOK, Btns

\* iperf_service.
LEMMA ExecuteStep ==
  ASSUME StopInv, NEW d \in Stalls, NEW g \in BOOLEAN, Execute(d, g)
  PROVE  StopInv'
<1> USE BoardConstantTypes
<1> DEFINE t == (now + d) % W
<1>1. /\ phase = "execute" /\ phase' = "buttons" /\ now' = t
      /\ startDelay' = IF DelayOver(t) THEN 0 ELSE startDelay
      /\ UNCHANGED <<board_role, btn, reset_state, reset_release_time,
                     iperf_running, m_paused>>
  BY DEF Execute
<1>2. /\ now \in 0 .. (W - 1) /\ startDelay \in 0 .. (W - 1)
      /\ btn \in Btns /\ d \in Nat /\ d <= MaxStall
      /\ iperf_running \in BOOLEAN
  BY DEF StopInv, TypeOK, Btns, Stalls
<1>3. t \in 0 .. (W - 1)
  <2>1. now + d \in Int
    BY <1>2
  <2> QED BY <2>1, ClockTypes
<1>4. running' \in BOOLEAN
  BY Zenon DEF Execute
<1>5. TypeOK'
  <2>1. startDelay' \in 0 .. (W - 1)
    BY <1>1, <1>2
  <2> QED
    BY <1>1, <1>3, <1>4, <2>1 DEF StopInv, TypeOK
<1>6. ~iperf_running' => ~running'
  <2>1. CASE DelayOver(t)
    BY <1>1, <2>1 DEF DelayOver, StopInv, PendingInv
  <2>2. CASE ~DelayOver(t)
    <3>1. running' => running
      BY <2>2, Zenon DEF Execute
    <3> QED BY <1>1, <3>1 DEF StopInv
  <2> QED BY <2>1, <2>2
<1>7. ASSUME startDelay' # 0 PROVE PendingInv'
  <2> HIDE DEF t
  <2>1. startDelay # 0 /\ startDelay' = startDelay
        /\ Minus(t, startDelay) <= StartDelay
    <3>1. ~DelayOver(t) /\ startDelay # 0 /\ startDelay' = startDelay
      BY <1>1, <1>7
    <3>2. Minus(t, startDelay) \in Int
      BY <1>2, <1>3, ClockTypes
    <3> QED BY <3>1, <3>2 DEF DelayOver
  <2>2. PICK m \in 0 .. (W - 1) :
          m = Minus(now, startDelay) /\ m <= StartDelay + 2 * MaxStall
    <3>1. Minus(now, startDelay) \in 0 .. (W - 1)
      BY <1>2, ElapsedType
    <3>2. Minus(now, startDelay) <= StartDelay + 2 * MaxStall
      BY <1>1, <2>1 DEF StopInv, PendingInv
    <3> QED BY <3>1, <3>2
  <2>3. Minus(t, startDelay) = m + d
    BY <1>2, <2>2, ClockElapsed DEF t
  <2>4. ~btn.debounced_state
    <3>1. btn.debounced_state => m > StartDelay
      BY <2>1, <2>2 DEF StopInv, PendingInv
    <3> QED BY <1>2, <2>1, <2>2, <2>3, <3>1
  <2>5. ASSUME btn.last_state
        PROVE  Minus(t, btn.last_debounce_time) <= Minus(t, startDelay)
    <3>1. PICK s \in 0 .. (W - 1) : s = btn.last_debounce_time
      BY <1>2 DEF Btns
    <3>2. PICK k \in 0 .. (W - 1) : k = Minus(now, s) /\ k <= m
      <4>1. Minus(now, s) \in 0 .. (W - 1)
        BY <1>2, ElapsedType
      <4>2. Minus(now, s) <= m
        BY <2>1, <2>2, <2>4, <2>5, <3>1 DEF StopInv, PendingInv
      <4> QED BY <4>1, <4>2
    <3>3. Minus(t, s) = k + d
      <4>1. k + d < W
        BY <1>2, <2>2, <3>2
      <4> QED BY <1>2, <3>2, <4>1, ClockElapsed DEF t
    <3> QED BY <1>2, <2>2, <2>3, <3>1, <3>2, <3>3
  <2>6. iperf_running
    BY <2>1 DEF StopInv, PendingInv
  <2> QED
    BY <1>1, <2>1, <2>4, <2>5, <2>6 DEF PendingInv
<1>8. PendingInv'
  BY <1>7 DEF PendingInv
<1> QED
  BY <1>1, <1>5, <1>6, <1>8 DEF StopInv

\* The button after the rest of an iteration.
LEMMA BtnAfter ==
  ASSUME StopInv, NEW d \in Stalls, NEW e \in Stalls, NEW l \in BOOLEAN,
         Buttons(d, e, l), NEW t \in 0 .. (W - 1), t = (now + d) % W
  PROVE  /\ btn' \in Btns /\ ~btn'.was_pressed
         /\ btn'.last_state = l
         /\ btn'.last_debounce_time = DebounceTime(btn, l, t)
         /\ btn'.debounced_state
              = IF Settled(btn, l, t) THEN l ELSE btn.debounced_state
         /\ debounce_button(btn, l, t).was_pressed => PressEnds(btn, l, t)
<1> USE BoardConstantTypes
<1> DEFINE b == debounce_button(btn, l, t)
           c == AfterWasPressed(b)
<1>1. btn \in Btns /\ ~btn.was_pressed
  BY DEF StopInv, TypeOK, Btns
<1>2. b \in Btns
  BY <1>1, DebounceTypes
<1>3. btn' = [c EXCEPT !.long_press_detected = TRUE] \/ btn' = c
  BY DEF Buttons
<1>4. /\ b.last_state = l
      /\ b.last_debounce_time = DebounceTime(btn, l, t)
      /\ b.debounced_state
           = IF Settled(btn, l, t) THEN l ELSE btn.debounced_state
  BY DEF debounce_button
<1>5. b.was_pressed => PressEnds(btn, l, t)
  BY <1>1, Zenon DEF debounce_button
<1> HIDE DEF b
<1>6. /\ c \in Btns /\ c.was_pressed = FALSE
      /\ c.last_state = b.last_state
      /\ c.last_debounce_time = b.last_debounce_time
      /\ c.debounced_state = b.debounced_state
  BY <1>2 DEF AfterWasPressed, Btns
<1> HIDE DEF c
<1>7. /\ btn' \in Btns /\ btn'.was_pressed = FALSE
      /\ btn'.last_state = c.last_state
      /\ btn'.last_debounce_time = c.last_debounce_time
      /\ btn'.debounced_state = c.debounced_state
  BY <1>3, <1>6 DEF Btns
<1> QED
  BY <1>4, <1>5, <1>6, <1>7 DEF b

\* The rest of an iteration.
LEMMA ButtonsStep ==
  ASSUME StopInv, NEW d \in Stalls, NEW e \in Stalls, NEW l \in BOOLEAN,
         Buttons(d, e, l)
  PROVE  StopInv'
<1> USE BoardConstantTypes
<1>1. /\ now \in 0 .. (W - 1) /\ startDelay \in 0 .. (W - 1)
      /\ d \in Nat /\ d <= MaxStall /\ e \in Nat /\ e <= MaxStall
  BY DEF StopInv, TypeOK, Stalls
<1>2. PICK t \in 0 .. (W - 1) : t = (now + d) % W
  <2>1. now + d \in Int
    BY <1>1
  <2> QED BY <2>1, ClockTypes
<1>3. PICK u \in 0 .. (W - 1) : u = (t + e) % W
  <2>1. t + e \in Int
    BY <1>1
  <2> QED BY <2>1, ClockTypes
<1> DEFINE short == /\ debounce_button(btn, l, t).was_pressed
                    /\ board_role = "server"
<1>4. /\ phase = "buttons" /\ phase' = "execute" /\ now' = u
      /\ IF short THEN ShortPress(u)
         ELSE UNCHANGED <<iperf_running, startDelay, running>>
      /\ board_role' = board_role
  BY <1>2, <1>3 DEF Buttons
<1>5. /\ btn' \in Btns /\ ~btn'.was_pressed
      /\ btn'.last_state = l
      /\ btn'.last_debounce_time = DebounceTime(btn, l, t)
      /\ btn'.debounced_state
           = IF Settled(btn, l, t) THEN l ELSE btn.debounced_state
      /\ debounce_button(btn, l, t).was_pressed => PressEnds(btn, l, t)
  BY <1>2, BtnAfter
<1>6. short => btn.debounced_state /\ ~l /\ Settled(btn, l, t)
  BY <1>5 DEF PressEnds
<1>7. /\ iperf_running \in BOOLEAN /\ running \in BOOLEAN
      /\ iperf_running' \in BOOLEAN /\ running' \in BOOLEAN
      /\ startDelay' \in 0 .. (W - 1)
      /\ ~iperf_running' => ~running'
  <2>1. iperf_running \in BOOLEAN /\ running \in BOOLEAN
    BY DEF StopInv, TypeOK
  <2>2. CASE short
    <3>1. ShortPress(u)
      BY <1>4, <2>2
    <3>2. running' = FALSE /\ iperf_running' = ~iperf_running
      BY <3>1 DEF ShortPress, StartApplication, StopApplication
    <3>3. startDelay' = u \/ startDelay' = startDelay
      BY <3>1 DEF ShortPress, StartApplication, StopApplication
    <3> QED BY <1>1, <2>1, <3>2, <3>3
  <2>3. CASE ~short
    BY <1>1, <1>4, <2>1, <2>3 DEF StopInv
  <2> QED BY <2>1, <2>2, <2>3
<1>8. TypeOK'
  <2>1. m_paused' \in BOOLEAN
    BY Zenon DEF Buttons, PausedAfter
  <2>2. /\ reset_state' \in {"idle", "waiting", "countdown"}
        /\ reset_release_time' \in 0 .. (W - 1)
    <3>1. reset_release_time' = reset_release_time \/ reset_release_time' = u
      BY <1>2, <1>3 DEF Buttons
    <3>2. reset_state' \in {"idle", "waiting", "countdown"}
      BY Zenon DEF Buttons
    <3> QED BY <3>1, <3>2 DEF StopInv, TypeOK
  <2> QED
    BY <1>4, <1>5, <1>7, <2>1, <2>2 DEF StopInv, TypeOK, Btns
<1>9. ASSUME startDelay' # 0 PROVE PendingInv'
  <2>1. CASE startDelay # 0
    <3>1. PICK m \in 0 .. (W - 1) :
            m = Minus(now, startDelay) /\ m <= StartDelay
      <4>1. Minus(now, startDelay) \in 0 .. (W - 1)
        BY <1>1, ElapsedType
      <4>2. Minus(now, startDelay) <= StartDelay
        BY <1>4, <2>1 DEF StopInv, PendingInv
      <4> QED BY <4>1, <4>2
    <3>2. ~btn.debounced_state /\ iperf_running
      BY <1>4, <2>1 DEF StopInv, PendingInv
    <3>3. ~short /\ startDelay' = startDelay /\ iperf_running'
      BY <1>4, <1>6, <3>2
    <3>4. Minus(t, startDelay) = m + d
      BY <1>1, <1>2, <3>1, ClockElapsed
    <3>5. Minus(u, startDelay) = m + d + e
      BY <1>1, <1>3, <3>1, <3>4, ClockElapsed
    <3>6. Minus(u, startDelay) <= StartDelay + 2 * MaxStall
      BY <1>1, <3>1, <3>5
    <3>7. CASE ~l
      <4>1. ~btn'.debounced_state /\ ~btn'.last_state
        BY <1>5, <3>2, <3>7
      <4> QED BY <1>4, <3>3, <3>6, <4>1 DEF PendingInv
    <3>8. CASE l /\ ~btn.last_state
      <4>1. DebounceTime(btn, l, t) = t
        BY <3>8 DEF DebounceTime
      <4>2. Minus(t, t) = 0
        BY ClockSame, t \in Int
      <4>3. ~Settled(btn, l, t)
        BY <4>1, <4>2 DEF Settled
      <4>4. ~btn'.debounced_state
        BY <1>5, <3>2, <4>3
      <4>5. Minus(u, t) = e
        BY <1>1, <1>3, <4>2, ClockElapsed
      <4>6. Minus(u, btn'.last_debounce_time) <= Minus(u, startDelay)
        BY <1>1, <1>5, <3>1, <3>5, <4>1, <4>5
      <4> QED BY <1>4, <3>3, <3>6, <4>4, <4>6 DEF PendingInv
    <3>9. CASE l /\ btn.last_state
      <4>1. PICK s \in 0 .. (W - 1) : s = btn.last_debounce_time
        BY DEF StopInv, TypeOK
      <4>2. DebounceTime(btn, l, t) = s
        BY <3>9, <4>1 DEF DebounceTime
      <4>3. PICK k \in 0 .. (W - 1) : k = Minus(now, s) /\ k <= m
        <5>1. Minus(now, s) \in 0 .. (W - 1)
          BY <1>1, ElapsedType
        <5>2. Minus(now, s) <= m
          BY <2>1, <3>1, <3>2, <3>9, <4>1 DEF StopInv, PendingInv
        <5> QED BY <5>1, <5>2
      <4>4. Minus(t, s) = k + d
        <5>1. k + d < W
          BY <1>1, <3>1, <4>3
        <5> QED BY <1>1, <1>2, <4>3, <5>1, ClockElapsed
      <4>5. Minus(u, s) = k + d + e
        <5>1. (k + d) + e < W
          BY <1>1, <3>1, <4>3
        <5> QED BY <1>1, <1>3, <4>3, <4>4, <5>1, ClockElapsed
      <4>6. Minus(u, btn'.last_debounce_time) <= Minus(u, startDelay)
        BY <1>1, <1>5, <3>1, <3>5, <4>2, <4>3, <4>5
      <4>7. btn'.debounced_state => Minus(u, startDelay) > StartDelay
        <5>1. btn'.debounced_state => Settled(btn, l, t)
          BY <1>5, <3>2
        <5>2. Settled(btn, l, t) => k + d > Debounce
          BY <4>2, <4>4 DEF Settled
        <5> QED BY <1>1, <3>1, <3>5, <4>3, <5>1, <5>2
      <4> QED BY <1>4, <3>3, <3>6, <4>6, <4>7 DEF PendingInv
    <3> QED BY <3>7, <3>8, <3>9
  <2>2. CASE startDelay = 0
    <3>1. short /\ ShortPress(u) /\ ~iperf_running /\ startDelay' = u
      BY <1>4, <1>9, <2>2 DEF ShortPress, StartApplication, StopApplication
    <3>2. iperf_running'
      BY <3>1 DEF ShortPress
    <3>3. ~btn'.debounced_state /\ ~btn'.last_state
      BY <1>5, <1>6, <3>1
    <3>4. Minus(u, u) = 0
      BY ClockSame, u \in Int
    <3> QED BY <1>4, <3>1, <3>2, <3>3, <3>4 DEF PendingInv
  <2> QED BY <2>1, <2>2
<1>10. PendingInv'
  BY <1>9 DEF PendingInv
<1> QED
  BY <1>5, <1>7, <1>8, <1>10 DEF StopInv

LEMMA StopInvStep == StopInv /\ [Next]_vars => StopInv'
<1> SUFFICES ASSUME StopInv, [Next]_vars PROVE StopInv'
  OBVIOUS
<1>1. ASSUME NEW d \in Stalls, NEW g \in BOOLEAN, Execute(d, g)
      PROVE  StopInv'
  BY <1>1, ExecuteStep
<1>2. ASSUME NEW d \in Stalls, NEW e \in Stalls, NEW l \in BOOLEAN,
             Buttons(d, e, l)
      PROVE  StopInv'
  BY <1>2, ButtonsStep
<1>3. ASSUME NEW d \in Stalls, NEW r \in Roles, Restart(d, r)
      PROVE  StopInv'
  <2>1. btn' \in Btns /\ ~btn'.was_pressed
    BY <1>3, BoardConstantTypes DEF Restart, Released, Btns
  <2>2. /\ iperf_running' \in BOOLEAN /\ running' \in BOOLEAN
        /\ m_paused' \in BOOLEAN /\ ~running'
    BY <1>3, Zenon DEF Restart
  <2> QED
    BY <1>3, <2>1, <2>2, BoardConstantTypes
    DEF Restart, StopInv, PendingInv, TypeOK, Btns
<1>4. CASE UNCHANGED vars
  BY <1>4 DEF vars, StopInv, TypeOK, PendingInv
<1> QED BY <1>1, <1>2, <1>3, <1>4 DEF Next

\* Once main has stopped iperf the application is at rest and no start is
\* pending, for every timing of presses, samples, stalls and wraps.
THEOREM BoardStopFinal == Spec => []StopIsFinal
<1>1. StopInv => StopIsFinal
  BY DEF StopInv, PendingInv, StopIsFinal
<1> QED
  BY <1>1, StopInvInit, StopInvStep, PTL DEF Spec

\* The variables of the main loop keep their types.
THEOREM BoardTypes == Spec => []TypeOK
<1>1. StopInv => TypeOK
  BY DEF StopInv
<1> QED
  BY <1>1, StopInvInit, StopInvStep, PTL DEF Spec

-----------------------------------------------------------------------------
(***************************************************************************)
(* The pause flags                                                         *)
(***************************************************************************)
\* While the reset is armed the long press is not over, so that its release
\* is not taken for a short press, which would lift the pause.
PauseInv ==
  /\ PauseAgrees
  /\ reset_state = "waiting" => btn.debounced_state /\ btn.long_press_detected

\* The rest of an iteration keeps the flags in step.
LEMMA PauseButtons ==
  ASSUME StopInv, PauseInv,
         NEW d \in Stalls, NEW e \in Stalls, NEW l \in BOOLEAN,
         Buttons(d, e, l)
  PROVE  PauseInv'
<1> USE BoardConstantTypes
<1> DEFINE t == (now + d) % W
           u == (t + e) % W
           b == debounce_button(btn, l, t)
           c == AfterWasPressed(b)
           short == b.was_pressed /\ board_role = "server"
           long == reset_state = "idle" /\ APP_Button_LongPress(c, u)
<1>1. btn \in Btns /\ ~btn.was_pressed
  BY DEF StopInv, TypeOK, Btns
<1>2. t \in 0 .. (W - 1)
  <2>1. now + d \in Int
    BY DEF StopInv, TypeOK, Stalls
  <2> QED BY <2>1, ClockTypes
<1>3. b \in Btns
  BY <1>1, <1>2, DebounceTypes
<1>4. /\ b.long_press_detected
           = (btn.long_press_detected /\ ~PressStarts(btn, l, t))
      /\ b.was_pressed => ~btn.long_press_detected
      /\ btn.debounced_state => ~PressStarts(btn, l, t)
  BY <1>1, Zenon DEF debounce_button, PressStarts
<1>5. /\ btn' = IF long THEN [c EXCEPT !.long_press_detected = TRUE] ELSE c
      /\ IF short THEN ShortPress(u)
         ELSE UNCHANGED <<iperf_running, startDelay, running>>
      /\ m_paused' = PausedAfter(short, long)
  BY Zenon DEF Buttons
<1>6. \/ /\ reset_state = "idle"
         /\ reset_state' = IF long THEN "waiting" ELSE "idle"
      \/ /\ reset_state = "waiting"
         /\ \/ c.debounced_state /\ reset_state' = "waiting"
            \/ ~c.debounced_state /\ reset_state' = "countdown"
      \/ reset_state = "countdown" /\ reset_state' = "countdown"
  BY Zenon DEF Buttons
<1>7. iperf_running' = (IF short THEN ~iperf_running ELSE iperf_running)
  BY <1>5, Zenon DEF ShortPress
<1>8. long => c.debounced_state
  BY Zenon DEF APP_Button_LongPress
<1> HIDE DEF b
<1>9. /\ c \in Btns /\ c.debounced_state = b.debounced_state
      /\ c.long_press_detected = b.long_press_detected
  BY <1>3 DEF AfterWasPressed, Btns
<1> HIDE DEF c, t, u
<1>10. /\ btn'.debounced_state = c.debounced_state
       /\ long => btn'.long_press_detected
       /\ ~long => btn'.long_press_detected = c.long_press_detected
  BY <1>5, <1>9 DEF Btns
<1>11. /\ iperf_running \in BOOLEAN /\ m_paused \in BOOLEAN
       /\ btn.long_press_detected \in BOOLEAN
  BY <1>1 DEF StopInv, TypeOK, Btns
<1> HIDE DEF short
<1>12. m_paused' = (long \/ (IF short THEN ~iperf_running ELSE m_paused))
  BY <1>5, Zenon DEF PausedAfter
<1>13. CASE reset_state = "idle"
  <2>1. m_paused <=> iperf_running
    BY <1>13 DEF PauseInv, PauseAgrees
  <2>2. CASE long
    <3>1. reset_state' = "waiting" /\ m_paused'
      BY <1>6, <1>12, <1>13, <2>2
    <3> QED BY <1>8, <1>10, <2>2, <3>1 DEF PauseInv, PauseAgrees
  <2>3. CASE ~long
    <3>1. reset_state' = "idle"
      BY <1>6, <1>13, <2>3
    <3>2. m_paused' <=> iperf_running'
      BY <1>7, <1>12, <2>1, <2>3, Zenon
    <3> QED BY <3>1, <3>2 DEF PauseInv, PauseAgrees
  <2> QED BY <2>2, <2>3
<1>14. CASE reset_state # "idle"
  <2>1. ~long
    BY <1>14
  <2>2. ASSUME reset_state' = "waiting"
        PROVE  m_paused' /\ btn'.debounced_state /\ btn'.long_press_detected
    <3>1. reset_state = "waiting" /\ c.debounced_state
      BY <1>6, <1>14, <2>2
    <3>2. m_paused /\ btn.debounced_state /\ btn.long_press_detected
      BY <3>1 DEF PauseInv, PauseAgrees
    <3>3. ~short
      BY <1>4, <3>2 DEF short
    <3>4. m_paused'
      BY <1>12, <3>2, <3>3, Zenon
    <3> QED BY <1>4, <1>9, <1>10, <2>1, <3>1, <3>2, <3>4
  <2>3. reset_state' # "idle"
    BY <1>6, <1>14
  <2> QED BY <2>2, <2>3 DEF PauseInv, PauseAgrees
<1> QED
  BY <1>13, <1>14

\* The pause flags of the heartbeat modules follow main's state, for every
\* timing of presses, samples, stalls and wraps.
THEOREM BoardPauseAgrees == Spec => []PauseAgrees
<1>1. Init => StopInv /\ PauseInv
  <2>1. Init => PauseInv
    BY DEF Init, PauseInv, PauseAgrees
  <2> QED BY <2>1, StopInvInit
<1>2. (StopInv /\ PauseInv) /\ [Next]_vars => (StopInv /\ PauseInv)'
  <2> SUFFICES ASSUME StopInv, PauseInv, [Next]_vars
               PROVE  StopInv' /\ PauseInv'
    OBVIOUS
  <2>1. StopInv'
    BY StopInvStep
  <2>2. ASSUME NEW d \in Stalls, NEW g \in BOOLEAN, Execute(d, g)
        PROVE  PauseInv'
    <3>1. UNCHANGED <<reset_state, m_paused, iperf_running, btn>>
      BY <2>2 DEF Execute
    <3> QED BY <3>1 DEF PauseInv, PauseAgrees
  <2>3. ASSUME NEW d \in Stalls, NEW e \in Stalls, NEW l \in BOOLEAN,
               Buttons(d, e, l)
        PROVE  PauseInv'
    BY <2>3, PauseButtons
  <2>4. ASSUME NEW d \in Stalls, NEW r \in Roles, Restart(d, r)
        PROVE  PauseInv'
    BY <2>4 DEF Restart, PauseInv, PauseAgrees
  <2>5. CASE UNCHANGED vars
    <3>1. UNCHANGED <<reset_state, m_paused, iperf_running, btn>>
      BY <2>5 DEF vars
    <3>2. UNCHANGED PauseAgrees
      BY <3>1, Zenon DEF PauseAgrees
    <3> QED BY <2>1, <3>1, <3>2, Zenon DEF PauseInv
  <2> QED BY <2>1, <2>2, <2>3, <2>4, <2>5 DEF Next
<1>3. PauseInv => PauseAgrees
  BY DEF PauseInv
<1> QED
  BY <1>1, <1>2, <1>3, PTL DEF Spec
=============================================================================
