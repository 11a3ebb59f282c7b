-------------------------- MODULE HeartbeatProofs --------------------------
(***************************************************************************)
(* Three results about the two boards.  ACKs carry no sequence number, yet *)
(* a reported round trip is never of another mode period: clearing the     *)
(* stamps at a mode change is enough, as long as no message is later than  *)
(* a whole period or than the countdown of a restart.  A board in its      *)
(* reset sequence keeps its LED on.  And outside of it the two LEDs agree  *)
(* once the newest heartbeat has reached the client.                       *)
(***************************************************************************)
EXTENDS Heartbeat, TLAPS

\* A message of the present mode was sent in the present period, or would
\* have to be later than MaxLag before an ACK for it can be taken; one of
\* the other mode is older than the present period.
Placed(x, mode, count) ==
  /\ x.mode = mode => x.lag < count \/ x.lag >= MaxLag + count
  /\ x.mode # mode => x.lag >= count

AllPlaced(q, mode, count) == \A i \in DOMAIN q : Placed(q[i], mode, count)

\* The messages under way.
QueueTypes ==
  /\ txq \in Seq(Frames) /\ down \in Seq(Frames) /\ up \in Seq(Acks)
  /\ m_tx_frame \in BOOLEAN /\ LED \in [Boards -> BOOLEAN]

CountType ==
  /\ hb_mode \in Modes /\ hb_exchange_count \in 0 .. (PerMode - 1)

\* Where the messages are in time.
PlaceInv ==
  /\ AllPlaced(txq, hb_mode, hb_exchange_count)
  /\ AllPlaced(down, hb_mode, hb_exchange_count)
  /\ AllPlaced(up, hb_mode, hb_exchange_count)

\* A stamp is pending only in the present mode, and only after a send.
StampInv ==
  /\ m_send_timestamp_us \in [Modes -> BOOLEAN]
  /\ \A m \in Modes : m_send_timestamp_us[m] =>
                        m = hb_mode /\ hb_exchange_count >= 1

HbInv == QueueTypes /\ CountType /\ PlaceInv /\ StampInv /\ SamePeriod

-----------------------------------------------------------------------------
\* Taking the first message from a queue.
LEMMA TakeFirst ==
  ASSUME NEW S, NEW q \in Seq(S), q # <<>>
  PROVE  /\ Head(q) \in S /\ Tail(q) \in Seq(S)
         /\ 1 \in DOMAIN q /\ Head(q) = q[1]
         /\ \A i \in DOMAIN Tail(q) : /\ i + 1 \in DOMAIN q
                                      /\ Tail(q)[i] = q[i + 1]
  OBVIOUS

\* Adding a message to a queue.
LEMMA AddLast ==
  ASSUME NEW S, NEW q \in Seq(S), NEW e \in S
  PROVE  /\ Append(q, e) \in Seq(S)
         /\ \A i \in DOMAIN Append(q, e) :
              \/ i \in DOMAIN q /\ Append(q, e)[i] = q[i]
              \/ Append(q, e)[i] = e
  OBVIOUS

\* What ageing does to one message, of each kind.
LEMMA Later ==
  ASSUME NEW n \in Nat, NEW x \in Frames \cup Acks,
         x.lag + n <= MaxLag
  PROVE  /\ [x EXCEPT !.lag = @ + n].lag = x.lag + n
         /\ [x EXCEPT !.lag = @ + n].mode = x.mode
         /\ x \in Frames => [x EXCEPT !.lag = @ + n] \in Frames
         /\ x \in Acks => [x EXCEPT !.lag = @ + n] \in Acks
<1> USE HeartbeatConstants
<1>1. CASE x \in Frames
  BY <1>1 DEF Frames, Acks
<1>2. CASE x \in Acks
  BY <1>2 DEF Frames, Acks
<1> QED
  BY <1>1, <1>2

\* What ageing does to a queue.
LEMMA AgedQueue ==
  ASSUME NEW S \in {Frames, Acks}, NEW q \in Seq(S), NEW n \in Nat,
         InTime(q, n)
  PROVE  /\ Aged(q, n) \in Seq(S) /\ DOMAIN Aged(q, n) = DOMAIN q
         /\ \A i \in DOMAIN q : /\ Aged(q, n)[i].lag = q[i].lag + n
                                /\ Aged(q, n)[i].mode = q[i].mode
<1>1. ASSUME NEW i \in DOMAIN q
      PROVE  /\ [q[i] EXCEPT !.lag = @ + n] \in S
             /\ [q[i] EXCEPT !.lag = @ + n].lag = q[i].lag + n
             /\ [q[i] EXCEPT !.lag = @ + n].mode = q[i].mode
  <2>1. q[i] \in S /\ q[i].lag + n <= MaxLag
    BY DEF InTime
  <2> QED
    BY <2>1, Later, Zenon
<1>2. /\ DOMAIN Aged(q, n) = DOMAIN q
      /\ \A i \in DOMAIN q : Aged(q, n)[i] = [q[i] EXCEPT !.lag = @ + n]
  BY Zenon DEF Aged
<1>3. Aged(q, n) \in Seq(S)
  <2>1. Aged(q, n) \in [1 .. Len(q) -> S]
    BY <1>1 DEF Aged
  <2> QED
    BY <2>1
<1> QED
  BY <1>1, <1>2, <1>3, Zenon

-----------------------------------------------------------------------------
\* The messages have lags and modes.
LEMMA MessageTypes ==
  ASSUME NEW S \in {Frames, Acks}, NEW q \in Seq(S), NEW i \in DOMAIN q
  PROVE  q[i].lag \in 0 .. MaxLag /\ q[i].mode \in Modes
<1>1. q[i] \in S
  OBVIOUS
<1>2. CASE S = Frames
  BY <1>1, <1>2 DEF Frames
<1>3. CASE S = Acks
  BY <1>1, <1>3 DEF Acks
<1> QED
  BY <1>2, <1>3

\* The mode and the count after a heartbeat.
Advance ==
  /\ hb_exchange_count' = IF LastOfMode THEN 0 ELSE hb_exchange_count + 1
  /\ hb_mode' = IF LastOfMode THEN OtherMode ELSE hb_mode

\* A heartbeat keeps a queue placed.
LEMMA BeatPlaces ==
  ASSUME CountType, Advance, NEW S \in {Frames, Acks},
         NEW q \in Seq(S), InTime(q, 1),
         AllPlaced(q, hb_mode, hb_exchange_count)
  PROVE  AllPlaced(Aged(q, 1), hb_mode', hb_exchange_count')
<1>1. ASSUME NEW i \in DOMAIN q
      PROVE  Placed(Aged(q, 1)[i], hb_mode', hb_exchange_count')
  <2>1. /\ Aged(q, 1)[i].lag = q[i].lag + 1
        /\ Aged(q, 1)[i].mode = q[i].mode
    BY AgedQueue
  <2>2. q[i].lag \in 0 .. MaxLag /\ q[i].mode \in Modes
    BY MessageTypes
  <2>3. Placed(q[i], hb_mode, hb_exchange_count)
    BY DEF AllPlaced
  <2>4. CASE LastOfMode
    <3>1. hb_exchange_count = PerMode - 1 /\ hb_exchange_count' = 0
      BY <2>4, HeartbeatConstants DEF LastOfMode, CountType, Advance
    <3>2. q[i].mode = hb_mode' => q[i].mode # hb_mode
      BY <2>4 DEF Advance, OtherMode, CountType, Modes
    <3> QED
      BY <2>1, <2>2, <2>3, <3>1, <3>2, HeartbeatConstants DEF Placed
  <2>5. CASE ~LastOfMode
    BY <2>1, <2>2, <2>3, <2>5, HeartbeatConstants
       DEF Placed, Advance, CountType
  <2> QED
    BY <2>4, <2>5
<1>2. DOMAIN Aged(q, 1) = DOMAIN q
  BY AgedQueue
<1> QED
  BY <1>1, <1>2 DEF AllPlaced

\* So does a restart: everything left over is as late as can be.
LEMMA ResetPlaces ==
  ASSUME NEW S \in {Frames, Acks}, NEW q \in Seq(S),
         InTime(q, CountdownBeats)
  PROVE  AllPlaced(Aged(q, CountdownBeats), "udp", 0)
<1> USE HeartbeatConstants
<1>1. ASSUME NEW i \in DOMAIN q
      PROVE  Placed(Aged(q, CountdownBeats)[i], "udp", 0)
  <2>1. Aged(q, CountdownBeats)[i].lag = q[i].lag + CountdownBeats
    BY AgedQueue
  <2>2. q[i].lag \in 0 .. MaxLag
    BY MessageTypes
  <2> QED
    BY <2>1, <2>2 DEF Placed
<1>2. DOMAIN Aged(q, CountdownBeats) = DOMAIN q
  BY AgedQueue
<1> QED
  BY <1>1, <1>2 DEF AllPlaced

\* Taking a message away and adding a placed one keep a queue placed.
LEMMA TailPlaced ==
  ASSUME NEW S, NEW q \in Seq(S), q # <<>>, NEW m, NEW c, AllPlaced(q, m, c)
  PROVE  AllPlaced(Tail(q), m, c) /\ Placed(Head(q), m, c)
  BY TakeFirst, Zenon DEF AllPlaced

LEMMA AppendPlaced ==
  ASSUME NEW S, NEW q \in Seq(S), NEW e \in S, NEW m, NEW c,
         AllPlaced(q, m, c), Placed(e, m, c)
  PROVE  AllPlaced(Append(q, e), m, c)
  BY AddLast, Zenon DEF AllPlaced

-----------------------------------------------------------------------------
\* The heartbeat itself: it is placed, and its stamp is of the present mode
\* or has been cleared again.
LEMMA BeatStep == HbInv /\ Beat => HbInv'
<1> SUFFICES ASSUME HbInv, Beat PROVE HbInv'
  OBVIOUS
<1> USE HeartbeatConstants
<1> DEFINE led == ~LED["server"]
           frame == [mode |-> hb_mode, led |-> led, lag |-> 0]
<1>1. Advance /\ InTime(txq, 1) /\ InTime(down, 1) /\ InTime(up, 1)
  BY DEF Beat, Advance
<1>2. /\ txq' = Queued(led) /\ down' = Aged(down, 1) /\ up' = Aged(up, 1)
      /\ m_send_timestamp_us' = StampsAfterSend
      /\ ack' = ack
  BY DEF Beat
<1>3. QueueTypes /\ CountType /\ PlaceInv /\ StampInv /\ SamePeriod
  BY DEF HbInv
<1>4. frame \in Frames
  <2>1. led \in BOOLEAN
    BY Zenon
  <2>2. hb_mode \in Modes
    BY <1>3 DEF CountType
  <2> HIDE DEF led
  <2> QED
    BY <2>1, <2>2 DEF Frames
<1>5. CountType'
  BY <1>1, <1>3 DEF Advance, CountType, LastOfMode, OtherMode, Modes
<1>6. /\ Aged(txq, 1) \in Seq(Frames)
      /\ Aged(down, 1) \in Seq(Frames)
      /\ Aged(up, 1) \in Seq(Acks)
  BY <1>1, <1>3, AgedQueue DEF QueueTypes
<1>7. /\ AllPlaced(Aged(txq, 1), hb_mode', hb_exchange_count')
      /\ AllPlaced(Aged(down, 1), hb_mode', hb_exchange_count')
      /\ AllPlaced(Aged(up, 1), hb_mode', hb_exchange_count')
  BY <1>1, <1>3, BeatPlaces DEF QueueTypes, PlaceInv
<1>8. Placed(frame, hb_mode', hb_exchange_count')
  BY <1>1, <1>3
     DEF Placed, Advance, CountType, LastOfMode, OtherMode, Modes
<1>9. QueueTypes'
  <2>1. txq' \in Seq(Frames)
    BY <1>2, <1>4, <1>6, AddLast DEF Queued
  <2>2. m_tx_frame' \in BOOLEAN /\ LED' \in [Boards -> BOOLEAN]
    <3>1. LED' = [LED EXCEPT !["server"] = ~LED["server"]]
      BY DEF Beat
    <3>2. LED' \in [Boards -> BOOLEAN]
      BY <1>3, <3>1 DEF QueueTypes, Boards
    <3>3. m_tx_frame' = IF hb_mode = "eth" THEN led ELSE m_tx_frame
      BY DEF Beat
    <3>4. m_tx_frame' \in BOOLEAN
      BY <1>3, <3>3, Zenon DEF QueueTypes
    <3> QED
      BY <3>2, <3>4
  <2> QED
    BY <1>2, <1>6, <2>1, <2>2 DEF QueueTypes
<1>10. PlaceInv'
  <2>1. AllPlaced(txq', hb_mode', hb_exchange_count')
    <3>1. CASE Len(txq) < TxSlots
      <4> HIDE DEF frame
      <4>1. txq' = Append(Aged(txq, 1), frame)
        BY <1>2, <3>1 DEF Queued, frame
      <4> QED
        BY <1>4, <1>6, <1>7, <1>8, <4>1, AppendPlaced
    <3>2. CASE ~(Len(txq) < TxSlots)
      BY <1>2, <1>7, <3>2 DEF Queued
    <3> QED
      BY <3>1, <3>2
  <2> QED
    BY <1>2, <1>7, <2>1 DEF PlaceInv
<1>11. StampInv'
  BY <1>1, <1>2, <1>3
     DEF StampInv, StampsAfterSend, Both, Advance, CountType, LastOfMode
<1>12. SamePeriod'
  BY <1>2, <1>3 DEF SamePeriod
<1> QED
  BY <1>5, <1>9, <1>10, <1>11, <1>12 DEF HbInv

\* An ACK is reported only if a stamp is pending, and then it is of the
\* present period.
LEMMA AckStep == HbInv /\ ReceiveAck => HbInv'
<1> SUFFICES ASSUME HbInv, ReceiveAck PROVE HbInv'
  OBVIOUS
<1> USE HeartbeatConstants
<1> DEFINE a == Head(up)
<1>1. QueueTypes /\ CountType /\ PlaceInv /\ StampInv /\ SamePeriod
  BY DEF HbInv
<1>2. /\ up # <<>> /\ up' = Tail(up)
      /\ m_send_timestamp_us' = [m_send_timestamp_us EXCEPT ![a.mode] = FALSE]
      /\ ack' = [what  |-> IF m_send_timestamp_us[a.mode] THEN "reported"
                           ELSE "discarded",
                 lag   |-> a.lag,
                 count |-> hb_exchange_count]
      /\ UNCHANGED <<LED, hb_mode, hb_exchange_count, m_tx_frame, txq, down>>
  BY DEF ReceiveAck
<1>3. up' \in Seq(Acks) /\ a \in Acks
  BY <1>1, <1>2, TakeFirst DEF QueueTypes
<1>4. /\ AllPlaced(up', hb_mode, hb_exchange_count)
      /\ Placed(a, hb_mode, hb_exchange_count)
  BY <1>1, <1>2, TailPlaced DEF QueueTypes, PlaceInv
<1>5. StampInv'
  BY <1>1, <1>2 DEF StampInv
<1>6. ASSUME m_send_timestamp_us[a.mode] PROVE a.lag < hb_exchange_count
  <2>1. a.mode \in Modes /\ a.lag \in 0 .. MaxLag
    BY <1>3 DEF Acks
  <2>2. a.mode = hb_mode /\ hb_exchange_count >= 1
    BY <1>1, <1>6, <2>1 DEF StampInv
  <2> QED
    BY <1>1, <1>4, <2>1, <2>2 DEF Placed, CountType
<1>7. SamePeriod'
  BY <1>2, <1>6 DEF SamePeriod
<1> QED
  BY <1>1, <1>2, <1>3, <1>4, <1>5, <1>7
     DEF HbInv, QueueTypes, CountType, PlaceInv

\* A frame goes from the queue to the wire.
LEMMA TransmitStep == HbInv /\ TransmitFrame => HbInv'
<1> SUFFICES ASSUME HbInv, TransmitFrame PROVE HbInv'
  OBVIOUS
<1> DEFINE f == Head(txq)
           w == [mode |-> f.mode, lag |-> f.lag,
                 led |-> IF f.mode = "eth" THEN m_tx_frame ELSE f.led]
<1>1. QueueTypes /\ CountType /\ PlaceInv /\ StampInv /\ SamePeriod
  BY DEF HbInv
<1>2. /\ txq # <<>> /\ txq' = Tail(txq) /\ down' = Append(down, w)
      /\ UNCHANGED <<LED, hb_mode, hb_exchange_count, m_send_timestamp_us,
                     m_tx_frame, up, ack>>
  BY DEF TransmitFrame, sending
<1>3. txq' \in Seq(Frames) /\ f \in Frames
  BY <1>1, <1>2, TakeFirst DEF QueueTypes
<1>4. w \in Frames
  BY <1>1, <1>3 DEF QueueTypes, Frames
<1>5. /\ AllPlaced(txq', hb_mode, hb_exchange_count)
      /\ Placed(f, hb_mode, hb_exchange_count)
  BY <1>1, <1>2, TailPlaced DEF QueueTypes, PlaceInv
<1>6. Placed(w, hb_mode, hb_exchange_count)
  BY <1>5 DEF Placed
<1>7. /\ down' \in Seq(Frames)
      /\ AllPlaced(down', hb_mode, hb_exchange_count)
  <2> HIDE DEF w
  <2> QED
    BY <1>1, <1>2, <1>4, <1>6, AddLast, AppendPlaced DEF QueueTypes, PlaceInv
<1> QED
  BY <1>1, <1>2, <1>3, <1>5, <1>7
     DEF HbInv, QueueTypes, CountType, PlaceInv, StampInv, SamePeriod

\* The client answers a heartbeat.
LEMMA ReceiveStep == HbInv /\ ReceiveHeartbeat => HbInv'
<1> SUFFICES ASSUME HbInv, ReceiveHeartbeat PROVE HbInv'
  OBVIOUS
<1> DEFINE h == Head(down)
           a == [mode |-> h.mode, lag |-> h.lag]
<1>1. QueueTypes /\ CountType /\ PlaceInv /\ StampInv /\ SamePeriod
  BY DEF HbInv
<1>2. /\ down # <<>> /\ down' = Tail(down) /\ up' = Append(up, a)
      /\ LED' = ShowLed(h)
      /\ UNCHANGED <<hb_mode, hb_exchange_count, m_send_timestamp_us,
                     m_tx_frame, txq, ack>>
  BY DEF ReceiveHeartbeat, sending
<1>3. down' \in Seq(Frames) /\ h \in Frames
  BY <1>1, <1>2, TakeFirst DEF QueueTypes
<1>4. a \in Acks /\ h.led \in BOOLEAN
  BY <1>3 DEF Frames, Acks
<1>5. /\ AllPlaced(down', hb_mode, hb_exchange_count)
      /\ Placed(h, hb_mode, hb_exchange_count)
  BY <1>1, <1>2, TailPlaced DEF QueueTypes, PlaceInv
<1>6. Placed(a, hb_mode, hb_exchange_count)
  BY <1>5 DEF Placed
<1>7. /\ up' \in Seq(Acks)
      /\ AllPlaced(up', hb_mode, hb_exchange_count)
  <2> HIDE DEF a
  <2> QED
    BY <1>1, <1>2, <1>4, <1>6, AddLast, AppendPlaced DEF QueueTypes, PlaceInv
<1>8. LED' \in [Boards -> BOOLEAN]
  BY <1>1, <1>2, <1>4 DEF QueueTypes, ShowLed, Boards
<1> QED
  BY <1>1, <1>2, <1>3, <1>5, <1>7, <1>8
     DEF HbInv, QueueTypes, CountType, PlaceInv, StampInv, SamePeriod

\* A restart of the server: what is left over of its former life is late.
LEMMA ResetStep == HbInv /\ ResetServer => HbInv'
<1> SUFFICES ASSUME HbInv, ResetServer PROVE HbInv'
  OBVIOUS
<1> USE HeartbeatConstants
<1>1. QueueTypes /\ SamePeriod
  BY DEF HbInv
<1>2. /\ InTime(down, CountdownBeats) /\ InTime(up, CountdownBeats)
      /\ down' = Aged(down, CountdownBeats) /\ up' = Aged(up, CountdownBeats)
      /\ txq' = <<>> /\ ack' = ack
      /\ hb_mode' = "udp" /\ hb_exchange_count' = 0
      /\ LED' = [LED EXCEPT !["server"] = FALSE]
      /\ m_send_timestamp_us' = Both(FALSE)
  BY DEF ResetServer
<1>3. down' \in Seq(Frames) /\ up' \in Seq(Acks)
  BY <1>1, <1>2, AgedQueue DEF QueueTypes
<1>4. m_tx_frame' \in BOOLEAN
  BY Zenon DEF ResetServer
<1>5. QueueTypes'
  BY <1>1, <1>2, <1>3, <1>4 DEF QueueTypes, Boards
<1>6. PlaceInv'
  <2>1. AllPlaced(down', "udp", 0) /\ AllPlaced(up', "udp", 0)
    BY <1>1, <1>2, ResetPlaces DEF QueueTypes
  <2>2. AllPlaced(<<>>, "udp", 0)
    BY DEF AllPlaced
  <2> QED
    BY <1>2, <2>1, <2>2 DEF PlaceInv
<1>7. CountType' /\ StampInv'
  BY <1>2 DEF CountType, StampInv, Both, Modes
<1> QED
  BY <1>1, <1>2, <1>5, <1>6, <1>7 DEF HbInv, SamePeriod

\* The other steps do no more than lose a message or change an LED.
LEMMA OtherSteps ==
  HbInv /\ (\/ LoseHeartbeat \/ LoseAck \/ ToggleIperf \/ ResetClient
            \/ \E b \in Boards : ArmReset(b) \/ Release(b)
            \/ UNCHANGED vars) => HbInv'
<1> USE DEF HbInv, sending, net
<1>1. ASSUME HbInv, LoseHeartbeat PROVE HbInv'
  <2>1. down' \in Seq(Frames) /\ AllPlaced(down', hb_mode, hb_exchange_count)
    BY <1>1, TakeFirst, TailPlaced DEF LoseHeartbeat, QueueTypes, PlaceInv
  <2> QED
    BY <1>1, <2>1 DEF LoseHeartbeat, QueueTypes, CountType, PlaceInv,
                      StampInv, SamePeriod
<1>2. ASSUME HbInv, LoseAck PROVE HbInv'
  <2>1. up' \in Seq(Acks) /\ AllPlaced(up', hb_mode, hb_exchange_count)
    BY <1>2, TakeFirst, TailPlaced DEF LoseAck, QueueTypes, PlaceInv
  <2> QED
    BY <1>2, <2>1 DEF LoseAck, QueueTypes, CountType, PlaceInv, StampInv,
                      SamePeriod
<1>3. ASSUME HbInv, LED' \in [Boards -> BOOLEAN],
             UNCHANGED <<txq, down, up, m_tx_frame, hb_mode,
                         hb_exchange_count, m_send_timestamp_us, ack>>
      PROVE  HbInv'
  BY <1>3 DEF QueueTypes, CountType, PlaceInv, StampInv, SamePeriod
<1>4. ASSUME HbInv, ToggleIperf PROVE HbInv'
  BY <1>3, <1>4 DEF ToggleIperf, QueueTypes
<1>5. ASSUME HbInv, ResetClient PROVE HbInv'
  BY <1>3, <1>5 DEF ResetClient, QueueTypes, Boards
<1>6. ASSUME HbInv, NEW b \in Boards, ArmReset(b) PROVE HbInv'
  BY <1>3, <1>6 DEF ArmReset, QueueTypes
<1>7. ASSUME HbInv, NEW b \in Boards, Release(b) PROVE HbInv'
  BY <1>3, <1>7 DEF Release, QueueTypes
<1>8. ASSUME HbInv, UNCHANGED vars PROVE HbInv'
  BY <1>3, <1>8 DEF vars, QueueTypes
<1> QED
  BY <1>1, <1>2, <1>4, <1>5, <1>6, <1>7, <1>8

\* HbInv holds initially.
LEMMA HbInit == Init => HbInv
<1> SUFFICES ASSUME Init PROVE HbInv
  OBVIOUS
<1>1. QueueTypes
  <2>1. m_tx_frame \in BOOLEAN
    BY Zenon DEF Init
  <2> QED
    BY <2>1 DEF Init, QueueTypes
<1>2. CountType
  BY HeartbeatConstants DEF Init, CountType, Modes
<1>3. PlaceInv
  BY DEF Init, PlaceInv, AllPlaced
<1>4. StampInv
  BY DEF Init, StampInv, Both
<1>5. SamePeriod
  BY DEF Init, SamePeriod, NoAck
<1> QED
  BY <1>1, <1>2, <1>3, <1>4, <1>5 DEF HbInv

\* Every step preserves HbInv.
LEMMA HbStep == HbInv /\ [Next]_vars => HbInv'
  BY BeatStep, AckStep, TransmitStep, ReceiveStep, ResetStep, OtherSteps
     DEF Next, Network, Button

\* A reported round trip is of the present mode period, for every number of
\* heartbeats per mode and every queue size, if no message is later than a
\* period or than the countdown of a restart.
THEOREM RoundTripsOfThisPeriod == Spec => []SamePeriod
<1>1. HbInv => SamePeriod
  BY DEF HbInv
<1> QED
  BY <1>1, HbInit, HbStep, PTL DEF Spec

-----------------------------------------------------------------------------
\* A client in its reset sequence has both receive modules paused.
LedInv ==
  /\ reset_state \in [Boards -> {"idle", "waiting", "countdown"}]
  /\ m_paused \in [Boards -> [Modes -> BOOLEAN]]
  /\ LedSolidDuringReset
  /\ reset_state["client"] # "idle" => \A m \in Modes : m_paused["client"][m]

\* LedInv holds initially.
LEMMA LedInit == Init => LedInv
  BY DEF Init, LedInv, LedSolidDuringReset, Both, Boards

\* Every step preserves LedInv.
LEMMA LedStep == HbInv /\ LedInv /\ [Next]_vars => LedInv'
<1> SUFFICES ASSUME HbInv, LedInv, [Next]_vars PROVE LedInv'
  OBVIOUS
<1> USE DEF LedInv, LedSolidDuringReset, Boards
<1>0. LED \in [Boards -> BOOLEAN]
  BY DEF HbInv, QueueTypes
<1>1. CASE Beat
  BY <1>0, <1>1 DEF Beat
<1>2. CASE ReceiveHeartbeat
  <2> DEFINE h == Head(down)
  <2>1. h.mode \in Modes
    <3>1. down \in Seq(Frames) /\ down # <<>>
      BY <1>2 DEF ReceiveHeartbeat, HbInv, QueueTypes
    <3>2. h \in Frames
      BY <3>1, TakeFirst
    <3> QED
      BY <3>2 DEF Frames
  <2>2. /\ LED' = ShowLed(h)
        /\ UNCHANGED <<m_paused, reset_state>>
    BY <1>2 DEF ReceiveHeartbeat
  <2>3. CASE m_paused["client"][h.mode]
    BY <2>2, <2>3 DEF ShowLed
  <2>4. CASE ~m_paused["client"][h.mode]
    <3>1. reset_state["client"] = "idle"
      BY <2>1, <2>4
    <3>2. LED'["server"] = LED["server"]
      BY <1>0, <2>2, <2>4 DEF ShowLed
    <3> QED
      BY <2>2, <3>1, <3>2
  <2> QED
    BY <2>3, <2>4
<1>3. CASE ToggleIperf
  BY <1>3 DEF ToggleIperf, Both
<1>4. ASSUME NEW b \in Boards, ArmReset(b) PROVE LedInv'
  BY <1>0, <1>4 DEF ArmReset, Both
<1>5. ASSUME NEW b \in Boards, Release(b) PROVE LedInv'
  BY <1>5 DEF Release
<1>6. CASE ResetServer
  BY <1>0, <1>6 DEF ResetServer, Both
<1>7. CASE ResetClient
  BY <1>0, <1>7 DEF ResetClient, Both
<1>8. CASE \/ ReceiveAck \/ Network \/ UNCHANGED vars
  BY <1>8 DEF ReceiveAck, Network, TransmitFrame, LoseHeartbeat, LoseAck, vars
<1> QED
  BY <1>1, <1>2, <1>3, <1>4, <1>5, <1>6, <1>7, <1>8 DEF Next, Button

\* A board in its reset sequence keeps its LED on, whatever arrives and
\* whatever else the button does.
THEOREM LedSolid == Spec => []LedSolidDuringReset
<1>1. Init => LedInv
  BY LedInit
<1>2. LedInv => LedSolidDuringReset
  BY DEF LedInv
<1> QED
  BY <1>1, <1>2, HbInit, HbStep, LedStep, PTL DEF Spec

-----------------------------------------------------------------------------
(***************************************************************************)
(* The client's LED                                                        *)
(***************************************************************************)
\* What the client will be told by a queued frame: all raw frames share one
\* buffer.
Shows(f) == IF f.mode = "eth" THEN m_tx_frame ELSE f.led

\* The newest heartbeat, which alone has no lag, is the last one under way,
NewestLast ==
  /\ \A i \in DOMAIN txq : txq[i].lag = 0 => i = Len(txq)
  /\ \A i \in DOMAIN down : down[i].lag = 0 => i = Len(down) /\ txq = <<>>

\* and tells the present state of the server's LED.
NewestRight ==
  reset_state["server"] = "idle" =>
    /\ \A i \in DOMAIN txq : txq[i].lag = 0 => Shows(txq[i]) = LED["server"]
    /\ \A i \in DOMAIN down : down[i].lag = 0 => down[i].led = LED["server"]

\* Nothing can come after it.
NothingBehind == newest = "shown" => txq = <<>> /\ down = <<>>

MirrorInv ==
  NewestLast /\ NewestRight /\ NothingBehind /\ ClientMirrorsServer

\* The heartbeat.
LEMMA MirrorBeat == HbInv /\ MirrorInv /\ Beat => MirrorInv'
<1> SUFFICES ASSUME HbInv, Beat PROVE MirrorInv'
  OBVIOUS
<1> DEFINE led == ~LED["server"]
           frame == [mode |-> hb_mode, led |-> led, lag |-> 0]
           old == Aged(txq, 1)
<1>1. /\ txq \in Seq(Frames) /\ down \in Seq(Frames)
      /\ InTime(txq, 1) /\ InTime(down, 1)
      /\ LED \in [Boards -> BOOLEAN] /\ led \in BOOLEAN
  BY DEF Beat, HbInv, QueueTypes
<1>2. /\ LED' = [LED EXCEPT !["server"] = led]
      /\ m_tx_frame' = IF hb_mode = "eth" THEN led ELSE m_tx_frame
      /\ down' = Aged(down, 1)
      /\ newest' # "shown"
      /\ txq' = IF Len(txq) < TxSlots THEN Append(old, frame) ELSE old
  BY DEF Beat, Queued
<1>3. LED'["server"] = led
  BY <1>1, <1>2 DEF Boards
<1>4. /\ old \in Seq(Frames)
      /\ \A i \in DOMAIN old : old[i].lag # 0
  <2>1. ASSUME NEW i \in DOMAIN old PROVE old[i].lag # 0
    <3>1. i \in DOMAIN txq /\ old[i].lag = txq[i].lag + 1
      BY <1>1, AgedQueue
    <3>2. txq[i].lag \in 0 .. MaxLag
      BY <1>1, <3>1, MessageTypes
    <3> QED BY <3>1, <3>2, HeartbeatConstants
  <2>2. old \in Seq(Frames)
    BY <1>1, AgedQueue
  <2> QED BY <2>1, <2>2
<1>5. \A i \in DOMAIN down' : down'[i].lag # 0
  <2> SUFFICES ASSUME NEW i \in DOMAIN down' PROVE down'[i].lag # 0
    OBVIOUS
  <2>1. i \in DOMAIN down /\ down'[i].lag = down[i].lag + 1
    BY <1>1, <1>2, AgedQueue
  <2>2. down[i].lag \in 0 .. MaxLag
    BY <1>1, <2>1, MessageTypes
  <2> QED BY <2>1, <2>2, HeartbeatConstants
<1> HIDE DEF led, old
<1>6. (IF frame.mode = "eth" THEN m_tx_frame' ELSE frame.led) = led
  BY <1>2
<1>7. /\ frame.lag = 0
      /\ \A i \in DOMAIN Append(old, frame) :
           \/ i \in DOMAIN old /\ Append(old, frame)[i] = old[i]
           \/ i = Len(Append(old, frame)) /\ Append(old, frame)[i] = frame
  BY <1>4
<1> HIDE DEF frame
<1>8. \A i \in DOMAIN txq' : txq'[i].lag = 0 =>
        i = Len(txq') /\ txq'[i] = frame
  <2>1. CASE Len(txq) < TxSlots
    <3>1. txq' = Append(old, frame)
      BY <1>2, <2>1
    <3> QED BY <1>4, <1>7, <3>1
  <2>2. CASE ~(Len(txq) < TxSlots)
    BY <1>2, <1>4, <2>2
  <2> QED BY <2>1, <2>2
<1>9. NewestLast'
  BY <1>5, <1>8 DEF NewestLast
<1>10. NewestRight'
  <2>1. \A i \in DOMAIN txq' : txq'[i].lag = 0 =>
          (IF txq'[i].mode = "eth" THEN m_tx_frame' ELSE txq'[i].led)
            = LED'["server"]
    BY <1>3, <1>6, <1>8
  <2> QED BY <1>5, <2>1 DEF NewestRight, Shows
<1> QED
  BY <1>2, <1>9, <1>10 DEF MirrorInv, NothingBehind, ClientMirrorsServer

\* A frame goes onto the wire.
LEMMA MirrorTransmit == HbInv /\ MirrorInv /\ TransmitFrame => MirrorInv'
<1> SUFFICES ASSUME HbInv, MirrorInv, TransmitFrame PROVE MirrorInv'
  OBVIOUS
<1> DEFINE f == Head(txq)
           w == [mode |-> f.mode, lag |-> f.lag, led |-> Shows(f)]
<1>1. /\ txq \in Seq(Frames) /\ down \in Seq(Frames) /\ txq # <<>>
      /\ txq' = Tail(txq) /\ down' = Append(down, w)
      /\ UNCHANGED <<LED, m_tx_frame, reset_state, newest>>
  BY DEF TransmitFrame, HbInv, QueueTypes, sending, Shows
<1>2. /\ 1 \in DOMAIN txq /\ f = txq[1]
      /\ Len(txq') = Len(txq) - 1 /\ Len(txq) \in Nat
      /\ \A i \in DOMAIN txq' : i \in Nat /\ i + 1 \in DOMAIN txq
                                /\ txq'[i] = txq[i + 1]
  BY <1>1
<1>3. newest # "shown"
  BY <1>1 DEF MirrorInv, NothingBehind
<1>4. \A i \in DOMAIN down : down[i].lag # 0
  BY <1>1 DEF MirrorInv, NewestLast
<1>5. w.lag = f.lag /\ w.led = Shows(f)
  OBVIOUS
<1> HIDE DEF f, w
<1>6. /\ Len(down') = Len(down) + 1
      /\ \A i \in DOMAIN down' : down'[i].lag = 0 =>
           i = Len(down') /\ down'[i] = w
  BY <1>1, <1>4
<1>7. f.lag = 0 => txq' = <<>>
  <2> SUFFICES ASSUME f.lag = 0 PROVE txq' = <<>>
    OBVIOUS
  <2>1. Len(txq) = 1
    BY <1>2 DEF MirrorInv, NewestLast
  <2> QED BY <1>1, <1>2, <2>1
<1>8. NewestLast'
  <2>1. \A i \in DOMAIN txq' : txq'[i].lag = 0 => i = Len(txq')
    BY <1>2 DEF MirrorInv, NewestLast
  <2>2. \A i \in DOMAIN down' : down'[i].lag = 0 =>
          i = Len(down') /\ txq' = <<>>
    BY <1>5, <1>6, <1>7
  <2> QED BY <2>1, <2>2 DEF NewestLast
<1>9. NewestRight'
  <2> SUFFICES ASSUME reset_state["server"] = "idle"
               PROVE  /\ \A i \in DOMAIN txq' : txq'[i].lag = 0 =>
                           Shows(txq[i])' = LED'["server"]
                      /\ \A i \in DOMAIN down' : down'[i].lag = 0 =>
                           down'[i].led = LED'["server"]
    BY <1>1 DEF NewestRight
  <2>1. \A i \in DOMAIN txq : txq[i].lag = 0 => Shows(txq[i]) = LED["server"]
    BY DEF MirrorInv, NewestRight
  <2>2. \A i \in DOMAIN txq' : txq'[i].lag = 0 =>
          Shows(txq[i])' = LED'["server"]
    BY <1>1, <1>2, <2>1 DEF Shows
  <2>3. f.lag = 0 => Shows(f) = LED["server"]
    BY <1>2, <2>1
  <2> QED BY <1>1, <1>5, <1>6, <2>2, <2>3
<1> QED
  BY <1>1, <1>3, <1>8, <1>9 DEF MirrorInv, NothingBehind, ClientMirrorsServer

\* Taking the oldest heartbeat from the wire keeps the order.
LEMMA MirrorTake ==
  ASSUME HbInv, MirrorInv, down # <<>>, down' = Tail(down),
         UNCHANGED <<txq, m_tx_frame, reset_state>>,
         LED'["server"] = LED["server"]
  PROVE  /\ NewestLast' /\ NewestRight' /\ newest # "shown"
         /\ Head(down).lag = 0 => txq' = <<>> /\ down' = <<>>
         /\ Head(down).lag = 0 /\ reset_state["server"] = "idle" =>
              Head(down).led = LED["server"]
<1>1. /\ down \in Seq(Frames)
      /\ 1 \in DOMAIN down /\ Head(down) = down[1]
      /\ Len(down') = Len(down) - 1 /\ Len(down) \in Nat
      /\ \A i \in DOMAIN down' : i \in Nat /\ i + 1 \in DOMAIN down
                                 /\ down'[i] = down[i + 1]
  BY DEF HbInv, QueueTypes
<1>2. NewestLast'
  BY <1>1 DEF MirrorInv, NewestLast
<1>3. NewestRight'
  BY <1>1 DEF MirrorInv, NewestRight, Shows
<1>4. ASSUME Head(down).lag = 0 PROVE txq' = <<>> /\ down' = <<>>
  <2>1. Len(down) = 1 /\ txq = <<>>
    BY <1>1, <1>4 DEF MirrorInv, NewestLast
  <2> QED BY <1>1, <2>1
<1>5. newest # "shown"
  BY DEF MirrorInv, NothingBehind
<1>6. Head(down).lag = 0 /\ reset_state["server"] = "idle" =>
        Head(down).led = LED["server"]
  BY <1>1 DEF MirrorInv, NewestRight
<1> QED
  BY <1>2, <1>3, <1>4, <1>5, <1>6

\* The client handles a heartbeat.
LEMMA MirrorReceive == HbInv /\ MirrorInv /\ ReceiveHeartbeat => MirrorInv'
<1> SUFFICES ASSUME HbInv, MirrorInv, ReceiveHeartbeat PROVE MirrorInv'
  OBVIOUS
<1> DEFINE h == Head(down)
<1>1. /\ down # <<>> /\ down' = Tail(down)
      /\ UNCHANGED <<txq, m_tx_frame, reset_state>>
      /\ LED' = ShowLed(h)
      /\ newest' = IF h.lag # 0 THEN newest
                   ELSE IF m_paused["client"][h.mode] THEN "lost"
                   ELSE "shown"
      /\ LED \in [Boards -> BOOLEAN]
  BY DEF ReceiveHeartbeat, sending, HbInv, QueueTypes
<1>2. LED'["server"] = LED["server"]
  BY <1>1 DEF ShowLed, Boards
<1>3. /\ NewestLast' /\ NewestRight' /\ newest # "shown"
      /\ h.lag = 0 => txq' = <<>> /\ down' = <<>>
      /\ h.lag = 0 /\ reset_state["server"] = "idle" => h.led = LED["server"]
  BY <1>1, <1>2, MirrorTake
<1> HIDE DEF h
<1>4. ASSUME newest' = "shown"
      PROVE  h.lag = 0 /\ LED'["client"] = h.led
  BY <1>1, <1>3, <1>4 DEF ShowLed, Boards
<1>5. NothingBehind'
  BY <1>3, <1>4 DEF NothingBehind
<1>6. ClientMirrorsServer'
  <2> SUFFICES ASSUME newest' = "shown", reset_state["server"] = "idle"
               PROVE  LED'["client"] = LED'["server"]
    BY <1>1 DEF ClientMirrorsServer, Boards
  <2> QED BY <1>2, <1>3, <1>4
<1> QED
  BY <1>3, <1>5, <1>6 DEF MirrorInv

\* A restart of the server: nothing under way is new.
LEMMA MirrorReset == HbInv /\ MirrorInv /\ ResetServer => MirrorInv'
<1> SUFFICES ASSUME HbInv, ResetServer PROVE MirrorInv'
  OBVIOUS
<1>1. /\ down \in Seq(Frames) /\ InTime(down, CountdownBeats)
      /\ down' = Aged(down, CountdownBeats)
      /\ txq' = <<>> /\ newest' = "none"
  BY DEF ResetServer, HbInv, QueueTypes
<1>2. \A i \in DOMAIN down' : down'[i].lag # 0
  <2> SUFFICES ASSUME NEW i \in DOMAIN down' PROVE down'[i].lag # 0
    OBVIOUS
  <2>1. i \in DOMAIN down /\ down'[i].lag = down[i].lag + CountdownBeats
    BY <1>1, AgedQueue, HeartbeatConstants
  <2>2. down[i].lag \in 0 .. MaxLag
    BY <1>1, <2>1, MessageTypes
  <2> QED BY <2>1, <2>2, HeartbeatConstants
<1> QED
  BY <1>1, <1>2
  DEF MirrorInv, NewestLast, NewestRight, NothingBehind, ClientMirrorsServer

\* Every step preserves MirrorInv.
LEMMA MirrorStep == HbInv /\ LedInv /\ MirrorInv /\ [Next]_vars => MirrorInv'
<1> SUFFICES ASSUME HbInv, LedInv, MirrorInv, [Next]_vars PROVE MirrorInv'
  OBVIOUS
<1>0. /\ LED \in [Boards -> BOOLEAN]
      /\ reset_state \in [Boards -> {"idle", "waiting", "countdown"}]
  BY DEF HbInv, QueueTypes, LedInv
<1>1. CASE LoseHeartbeat
  <2>1. /\ down # <<>> /\ down' = Tail(down)
        /\ UNCHANGED <<txq, m_tx_frame, reset_state, LED>>
        /\ newest' = IF Head(down).lag = 0 THEN "lost" ELSE newest
    BY <1>1 DEF LoseHeartbeat, sending
  <2>2. NewestLast' /\ NewestRight' /\ newest # "shown"
    BY <2>1, MirrorTake
  <2> QED
    BY <2>1, <2>2 DEF MirrorInv, NothingBehind, ClientMirrorsServer
<1>2. ASSUME NEW b \in Boards, ArmReset(b) PROVE MirrorInv'
  <2>1. /\ UNCHANGED <<txq, down, m_tx_frame, newest>>
        /\ reset_state' = [reset_state EXCEPT ![b] = "waiting"]
        /\ LED' = [LED EXCEPT ![b] = TRUE]
    BY <1>2 DEF ArmReset, net, sending
  <2> QED
    BY <1>0, <2>1
    DEF MirrorInv, NewestLast, NewestRight, NothingBehind,
        ClientMirrorsServer, Shows, Boards
<1>3. ASSUME NEW b \in Boards, Release(b) PROVE MirrorInv'
  <2>1. /\ UNCHANGED <<txq, down, m_tx_frame, newest, LED>>
        /\ reset_state' = [reset_state EXCEPT ![b] = "countdown"]
    BY <1>3 DEF Release, net, sending
  <2> QED
    BY <1>0, <2>1
    DEF MirrorInv, NewestLast, NewestRight, NothingBehind,
        ClientMirrorsServer, Shows, Boards
<1>4. CASE ResetClient
  <2>1. /\ UNCHANGED <<txq, down, m_tx_frame>>
        /\ newest' = IF newest = "shown" THEN "lost" ELSE newest
        /\ reset_state' = [reset_state EXCEPT !["client"] = "idle"]
        /\ LED' = [LED EXCEPT !["client"] = FALSE]
    BY <1>4 DEF ResetClient, net, sending
  <2> QED
    BY <1>0, <2>1
    DEF MirrorInv, NewestLast, NewestRight, NothingBehind,
        ClientMirrorsServer, Shows, Boards
<1>5. CASE ReceiveAck \/ LoseAck \/ ToggleIperf \/ UNCHANGED vars
  <2>1. UNCHANGED <<txq, down, m_tx_frame, newest, LED, reset_state>>
    BY <1>5 DEF ReceiveAck, LoseAck, ToggleIperf, vars, sending, net
  <2> QED
    BY <2>1 DEF MirrorInv, NewestLast, NewestRight, NothingBehind,
                ClientMirrorsServer, Shows
<1> QED
  BY <1>1, <1>2, <1>3, <1>4, <1>5, MirrorBeat, MirrorTransmit, MirrorReceive,
     MirrorReset DEF Next, Network, Button

\* Once the newest heartbeat has reached the client its LED agrees with the
\* server's, for every number of slots, lag and heartbeats per mode, although
\* all raw frames share m_tx_frame and the two transports alternate.
THEOREM LedsAgree == Spec => []ClientMirrorsServer
<1>1. Init => MirrorInv
  BY DEF Init, MirrorInv, NewestLast, NewestRight, NothingBehind,
         ClientMirrorsServer
<1>2. MirrorInv => ClientMirrorsServer
  BY DEF MirrorInv
<1> QED
  BY <1>1, <1>2, HbInit, HbStep, LedInit, LedStep, MirrorStep, PTL DEF Spec
=============================================================================
