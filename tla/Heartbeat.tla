----------------------------- MODULE Heartbeat -----------------------------
(***************************************************************************)
(* The two boards: the server's main loop blinks its LED every 500 ms and  *)
(* sends the new state as a heartbeat, by UDP or as a raw Ethernet frame,  *)
(* changing the transport every PerMode heartbeats; the client copies the  *)
(* state to its own LED and acknowledges; the server pairs the ACK with    *)
(* the time stamp of its last send and reports the round trip.             *)
(* udp_heartbeat.c and eth_heartbeat.c are the same protocol twice, so     *)
(* their private variables are functions of the mode.                      *)
(*                                                                         *)
(* Time is counted in heartbeats: lag is how many heartbeats were sent     *)
(* after the one a message belongs to.  External: the TC6 transmit queue   *)
(* (holds a reference to the raw frame, a copy of the UDP one) and the     *)
(* T1S segment, which keeps the order but may lose any frame.              *)
(***************************************************************************)
EXTENDS Naturals, Sequences

CONSTANTS
  PerMode,        \* HB_EXCHANGES_PER_MODE (10)
  TxSlots,        \* TC6_TX_ETH_QSIZE (4)
  MaxLag,         \* how late, in heartbeats, a message may be
  CountdownBeats  \* RESET_DELAY_MS in heartbeat intervals (2)

ASSUME HeartbeatConstants ==
  /\ PerMode \in Nat \ {0} /\ TxSlots \in Nat \ {0}
  /\ MaxLag \in Nat /\ CountdownBeats \in Nat \ {0}
  /\ MaxLag <= PerMode /\ MaxLag <= CountdownBeats

VARIABLES
  LED,                 \* is the LED of each board on?
  hb_mode,             \* transport of the next heartbeat
  hb_exchange_count,   \* heartbeats sent in this mode
  m_send_timestamp_us, \* per mode: is it non-zero, an ACK awaited?
  m_tx_frame,          \* payload in the server's only raw frame buffer
  m_paused,            \* per board and mode
  reset_state,         \* per board
  iperf_running,       \* on the server
  txq,                 \* the server's TC6 transmit queue
  down, up,            \* heartbeats and ACKs under way
  ack,                 \* auxiliary: what became of the last ACK
  newest               \* auxiliary: what became of the newest heartbeat

vars == <<LED, hb_mode, hb_exchange_count, m_send_timestamp_us, m_tx_frame,
          m_paused, reset_state, iperf_running, txq, down, up, ack, newest>>
net  == <<txq, down, up>>
sending == <<hb_mode, hb_exchange_count, m_send_timestamp_us, m_tx_frame>>

Boards == {"server", "client"}
Modes  == {"udp", "eth"}
Both(x) == [m \in Modes |-> x]
NoAck == [what |-> "none", lag |-> 0, count |-> 0]

Init ==
  /\ LED = [b \in Boards |-> FALSE]
  /\ hb_mode = "udp" /\ hb_exchange_count = 0
  /\ m_send_timestamp_us = Both(FALSE)
  /\ m_tx_frame = FALSE
  /\ m_paused = [b \in Boards |-> Both(FALSE)]
  /\ reset_state = [b \in Boards |-> "idle"]
  /\ iperf_running = FALSE
  /\ txq = <<>> /\ down = <<>> /\ up = <<>>
  /\ ack = NoAck /\ newest = "none"

-----------------------------------------------------------------------------
(***************************************************************************)
(* The server's heartbeat                                                  *)
(***************************************************************************)

\* n more heartbeat intervals have passed for the messages in q.
Aged(q, n) == [i \in DOMAIN q |-> [q[i] EXCEPT !.lag = @ + n]]

\* The timing assumption: nothing in q would become later than MaxLag.
InTime(q, n) == \A i \in DOMAIN q : q[i].lag + n <= MaxLag

\* heartbeat_send and eth_heartbeat_send hand a frame to TC6, which refuses
\* it when the queue is full.
Queued(led) ==
  IF Len(txq) < TxSlots
    THEN Append(Aged(txq, 1), [mode |-> hb_mode, led |-> led, lag |-> 0])
    ELSE Aged(txq, 1)

LastOfMode == hb_exchange_count + 1 >= PerMode

\* Mutant: a mode change leaves the stamps alone.
StampsAfterSend_Kept == [m_send_timestamp_us EXCEPT ![hb_mode] = TRUE]

\* The stamps after a send: set by the send, and both cleared again by
\* heartbeat_reset_rtt and eth_heartbeat_reset_rtt when the mode changes.
StampsAfterSend ==
  IF LastOfMode THEN Both(FALSE)
                ELSE [m_send_timestamp_us EXCEPT ![hb_mode] = TRUE]

\* Mutant: only ever changes to raw Ethernet.
OtherMode_OneWay == "eth"

OtherMode == IF hb_mode = "udp" THEN "eth" ELSE "udp"

\* led_toggle has expired: toggle the LED, send, count, change the mode.
Beat ==
  /\ reset_state["server"] = "idle" /\ ~iperf_running
  /\ InTime(txq, 1) /\ InTime(down, 1) /\ InTime(up, 1)
  /\ LET led == ~LED["server"] IN
       /\ LED' = [LED EXCEPT !["server"] = led]
       /\ m_tx_frame' = IF hb_mode = "eth" THEN led ELSE m_tx_frame
       /\ txq' = Queued(led)
  /\ m_send_timestamp_us' = StampsAfterSend
  /\ hb_exchange_count' = IF LastOfMode THEN 0 ELSE hb_exchange_count + 1
  /\ hb_mode' = IF LastOfMode THEN OtherMode ELSE hb_mode
  /\ down' = Aged(down, 1) /\ up' = Aged(up, 1)
  /\ newest' = IF Len(txq) < TxSlots THEN "underway" ELSE "lost"
  /\ UNCHANGED <<m_paused, reset_state, iperf_running, ack>>

\* TC6 puts the oldest frame on the wire.  A UDP frame is its own pbuf, a
\* raw frame is read from m_tx_frame now.
TransmitFrame ==
  /\ txq # <<>>
  /\ LET f == Head(txq) IN
       down' = Append(down, [mode |-> f.mode, lag |-> f.lag,
                 led |-> IF f.mode = "eth" THEN m_tx_frame ELSE f.led])
  /\ txq' = Tail(txq)
  /\ UNCHANGED <<LED, sending, m_paused, reset_state, iperf_running, up, ack,
                 newest>>

-----------------------------------------------------------------------------
(***************************************************************************)
(* Receiving                                                               *)
(***************************************************************************)

\* Mutant: the LED is written during the reset sequence too.
ShowLed_Always(h) == [LED EXCEPT !["client"] = h.led]

\* Mutant: an active-high LED.
ShowLed_Inverted(h) ==
  IF m_paused["client"][h.mode] THEN LED
  ELSE [LED EXCEPT !["client"] = ~h.led]

\* The client's LED after heartbeat h, unless h's module is paused.
ShowLed(h) ==
  IF m_paused["client"][h.mode] THEN LED
  ELSE [LED EXCEPT !["client"] = h.led]

\* Client: heartbeat_recv_cb or eth_heartbeat_rx_handler.
ReceiveHeartbeat ==
  /\ down # <<>>
  /\ LET h == Head(down) IN
       /\ LED' = ShowLed(h)
       /\ up' = Append(up, [mode |-> h.mode, lag |-> h.lag])
       /\ newest' = IF h.lag # 0 THEN newest
                    ELSE IF m_paused["client"][h.mode] THEN "lost"
                    ELSE "shown"
  /\ down' = Tail(down)
  /\ UNCHANGED <<sending, m_paused, reset_state, iperf_running, txq, ack>>

\* Server: an ACK is discarded if no stamp is pending in its module, and
\* otherwise consumes the stamp and is reported.
ReceiveAck ==
  /\ up # <<>>
  /\ LET a == Head(up) IN
       /\ ack' = [what  |-> IF m_send_timestamp_us[a.mode] THEN "reported"
                            ELSE "discarded",
                  lag   |-> a.lag,
                  count |-> hb_exchange_count]
       /\ m_send_timestamp_us' = [m_send_timestamp_us EXCEPT ![a.mode] = FALSE]
  /\ up' = Tail(up)
  /\ UNCHANGED <<LED, hb_mode, hb_exchange_count, m_tx_frame, m_paused,
                 reset_state, iperf_running, txq, down, newest>>

LoseHeartbeat ==
  /\ down # <<>>
  /\ down' = Tail(down)
  /\ newest' = IF Head(down).lag = 0 THEN "lost" ELSE newest
  /\ UNCHANGED <<LED, sending, m_paused, reset_state, iperf_running, txq, up,
                 ack>>

LoseAck ==
  /\ up # <<>>
  /\ up' = Tail(up)
  /\ UNCHANGED <<LED, sending, m_paused, reset_state, iperf_running, txq,
                 down, ack, newest>>

-----------------------------------------------------------------------------
(***************************************************************************)
(* The button                                                              *)
(***************************************************************************)

\* Short press on the server: the iperf test starts or stops.
ToggleIperf ==
  /\ iperf_running' = ~iperf_running
  /\ m_paused' = [m_paused EXCEPT !["server"] = Both(~iperf_running)]
  /\ UNCHANGED <<LED, sending, reset_state, net, ack, newest>>

\* Long press: LED on, LED updates paused in both modules.
ArmReset(b) ==
  /\ reset_state[b] = "idle"
  /\ reset_state' = [reset_state EXCEPT ![b] = "waiting"]
  /\ m_paused' = [m_paused EXCEPT ![b] = Both(TRUE)]
  /\ LED' = [LED EXCEPT ![b] = TRUE]
  /\ UNCHANGED <<sending, iperf_running, net, ack, newest>>

Release(b) ==
  /\ reset_state[b] = "waiting"
  /\ reset_state' = [reset_state EXCEPT ![b] = "countdown"]
  /\ UNCHANGED <<LED, sending, m_paused, iperf_running, net, ack, newest>>

\* The countdown has expired: the board restarts in the same role.  The LED
\* pin comes up off and everything in RAM is lost.
ResetServer ==
  /\ reset_state["server"] = "countdown"
  /\ InTime(down, CountdownBeats) /\ InTime(up, CountdownBeats)
  /\ reset_state' = [reset_state EXCEPT !["server"] = "idle"]
  /\ LED' = [LED EXCEPT !["server"] = FALSE]
  /\ m_paused' = [m_paused EXCEPT !["server"] = Both(FALSE)]
  /\ hb_mode' = "udp" /\ hb_exchange_count' = 0
  /\ m_send_timestamp_us' = Both(FALSE)
  /\ m_tx_frame' = FALSE
  /\ iperf_running' = FALSE
  /\ txq' = <<>>
  /\ down' = Aged(down, CountdownBeats) /\ up' = Aged(up, CountdownBeats)
  /\ newest' = "none"
  /\ UNCHANGED ack

ResetClient ==
  /\ reset_state["client"] = "countdown"
  /\ reset_state' = [reset_state EXCEPT !["client"] = "idle"]
  /\ LED' = [LED EXCEPT !["client"] = FALSE]
  /\ m_paused' = [m_paused EXCEPT !["client"] = Both(FALSE)]
  /\ newest' = IF newest = "shown" THEN "lost" ELSE newest
  /\ UNCHANGED <<sending, iperf_running, net, ack>>

-----------------------------------------------------------------------------
Network == TransmitFrame \/ LoseHeartbeat \/ LoseAck
Button ==
  \/ ToggleIperf \/ ResetServer \/ ResetClient
  \/ \E b \in Boards : ArmReset(b) \/ Release(b)

Next == Beat \/ ReceiveHeartbeat \/ ReceiveAck \/ Network \/ Button

Spec == Init /\ [][Next]_vars

\* The timer expires, the queue is transmitted, frames arrive or are lost,
\* and received ones are handled.  Nothing is assumed of the user.
FairSpec ==
  /\ Spec
  /\ WF_vars(Beat) /\ WF_vars(TransmitFrame)
  /\ WF_vars(ReceiveHeartbeat \/ LoseHeartbeat)
  /\ WF_vars(ReceiveAck \/ LoseAck)
-----------------------------------------------------------------------------
(***************************************************************************)
(* Properties                                                              *)
(***************************************************************************)
Frames == [mode : Modes, led : BOOLEAN, lag : 0 .. MaxLag]
Acks   == [mode : Modes, lag : 0 .. MaxLag]

\* A reported round trip is of the present mode period: the ACK answers a
\* heartbeat sent since the last mode change or restart, although ACKs carry
\* no sequence number and both boards may restart at any time.
SamePeriod == ack.what = "reported" => ack.lag < ack.count

\* A board in its reset sequence keeps its LED on until it restarts,
\* whatever heartbeats arrive on either transport and whatever the iperf
\* button does.
LedSolidDuringReset ==
  \A b \in Boards : reset_state[b] # "idle" => LED[b]

\* The client mirrors the server: once the newest heartbeat has reached it,
\* the two LEDs agree, even though all raw frames share one buffer and older
\* heartbeats may have been lost or be late.
ClientMirrorsServer ==
  newest = "shown" /\ (\A b \in Boards : reset_state[b] = "idle")
    => LED["client"] = LED["server"]

\* If the user leaves the server alone both transports are used again and
\* again: no lost ACK, full queue or delay stops the heartbeat.
ModesAlternate ==
  <>[](reset_state["server"] = "idle" /\ ~iperf_running)
    => /\ []<>(hb_mode = "udp")
       /\ []<>(hb_mode = "eth")

\* What the comment at the check of m_send_timestamp_us says it does,
\* "Discard stale ACKs": an ACK of the newest heartbeat is not discarded.
OnlyStaleDiscarded == ack.what = "discarded" => ack.lag > 0
=============================================================================
