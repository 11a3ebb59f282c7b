# TLA+ models of the T1S UDP client/server firmware

The repository is the firmware of a dsPIC33AK512MPS506 Curiosity board with a
LAN8651 10BASE-T1S MAC-PHY. The same image runs on both boards; the button
held at boot makes a board a client, otherwise it is a server. The server
blinks its LED every 500 ms and sends the LED state as a heartbeat, over UDP
for ten exchanges, then as raw Ethernet frames for ten, and so on. The client
copies the state to its LED and acknowledges; the server reports the round
trip. A short press on the server starts or stops an iperf-compatible UDP
throughput test; a long press resets either board.

The program is one cooperative main loop (`src/src/main.c`) and three kinds
of interrupt routine (change notification, DMA, I2C). There is no RTOS and no
lock: correctness rests on the order of assignments, on flags shared between
loop and interrupts, on unsigned arithmetic over wrapping clocks, and on
timing. That is what the models are about.

## 1. Inventory

| Component | Source | State | Operations |
|---|---|---|---|
| Time base | `systick/systick.c`, `hal/systick/systick_hal.c` | `last_raw`, `ms_offset`, callers' `SYSTICK_TIMEOUT`s and time stamps | `SysTick_GetTickMs`, `_GetTickUs`, `_StartTimeOut`, `_ResetTimeOut`, `_IsTimeoutReached` |
| MAC-PHY interrupt and SPI/DMA path | `T1S/tc6-stub.c`, `hal/T1S/dmaspi.c`, `tc6-lwip.c` (`TC6LwIP_Service`), `pins.c`, `dma.c` | interrupt counters `intIn/intOut/intReported`, two `busy` flags, `tc6NeedService`, hardware flags | `TC6Stub_IntActive`, `_ReleaseInt`, `_SpiTransaction`, `dmaSpiStartTransaction`, `_CNAInterrupt`, `_DMA0Interrupt`, `_DMA1Interrupt` |
| Heartbeat | `main.c`, `T1S/udp_heartbeat.c`, `T1S/eth_heartbeat.c` | `hb_mode`, `hb_exchange_count`, per transport `m_send_timestamp_us`, `m_paused`, the one `m_tx_frame` | send, receive (both roles), pause/resume, `reset_rtt`, mode switch |
| Button and reset | `app.c`, `main.c` | `sw1_btn`, `reset_state`, `reset_release_time`, `board_role`, `iperf_running` | debounce, `APP_Button_WasPressed`, `APP_Button_LongPress`, reset state machine |
| iperf sender | `T1S/udp_perf_client.c`, `main.c` | `startDelay`, `running`, `client.start_time`, `packet_id`, main's `iperf_running` | start, stop, service, `udp_packet_send`, `transfer_data` |
| TC6 to lwIP glue | `T1S/tc6-lwip.c` | receive pbuf and its fill state, transmit references, init state | `lwIpOut`, `OnRawTx`, `OnRxEthernetSlice/Packet`, `OnEvent`, `OnError` |
| TC6 queues | `T1S/inc/tc6/tc6-queue.h` | staged ring indices | enqueue, stage moves, dequeue |
| Network set-up, PLCA supervision | `T1S/t1s_lwip.c` | `nextBeaconCheck`, PLCA state | `T1S_configure/init/execute` |
| MAC address over I2C | `tc6-stub.c` (`GetMacAddress`), `mcc_generated_files/i2c_host/i2c1.c` | I2C transfer state machine | write-read, ISR, busy/error query |
| UART, SPI, clock, pins, traps | `mcc_generated_files/` | registers | generated set-up |
| libtc6, lwIP | binary archives, headers | - | external |

**How they interact.** `main` calls, in every iteration, the network service
(`T1S_execute` -> `TC6LwIP_Service`, out of which all receive callbacks run),
`iperf_service`, the button functions and the heartbeat. The MAC-PHY signals
by an interrupt pin; the interrupt routine only counts. The loop starts one
SPI/DMA transaction at a time; the DMA interrupt clears the busy flags and
calls `TC6_SpiBufferDone`, which asks the loop for another round. All of them
read the time base, which has no interrupt and is right only because
somebody reads it often enough.

**Hard behaviours.** Interrupts between the two instructions of a
test-and-set (interrupt counters, `tc6NeedService`, CN flags); order of
completion callbacks; frames and ACKs lost, late, or left over from before a
restart, in a protocol without sequence numbers; one static frame buffer for
several queued frames; a stop that does not cancel a delayed start; two
running flags for one test; rings whose stages run in different contexts; a
poll without a time limit on a transfer that interrupts carry on; differences
of clocks that wrap at three different moduli. `PROJECT.json` lists each hazard with its line.

**What makes each component correct.** Time base: readings and timeouts are
exact across wraps. SPI path: no edge, completion or request is lost,
transactions do not overlap, both directions drain. Heartbeat: a reported
round trip belongs to the current mode period, the LEDs agree, the heartbeat
never stops, a resetting board keeps its LED on. Button: one debounced
consequence per press, no early and no stuck reset. iperf: a stop is final,
ids are consecutive, a session lasts its time and ends. Glue: only whole
frames are handed up, a bad frame costs only itself, no pbuf is leaked or
freed while somebody still has it. Queues: a slot has one owner, and the ring
is a FIFO. PLCA supervision: checks go on, spaced, and the state displayed
follows the MAC-PHY. I2C: the bus shows what was requested, the poll ends,
and success is reported exactly for complete transfers.

## 2. Modules

| Module | Models | Used by |
|---|---|---|
| `SysTick` | time base | run `systick` |
| `MsClock` | the millisecond clock as the loop uses it | `AppButton`, `Iperf`, `Plca` |
| `ModArith` | lemmas on `%` and `\div`, proved | the proof modules |
| `SysTickProofs` | theorems on `SysTick` | |
| `Tc6Spi` | service loop, stub, DMA driver, interrupts | run `tc6spi` |
| `Heartbeat` | both boards and the segment between them | runs `heartbeat*` |
| `HeartbeatProofs` | theorems on `Heartbeat` | |
| `AppButton` | the debouncing of `app.c` | `Button`, `Board` |
| `Button` | button and reset sequence of `main.c` | run `button` |
| `Board` | `main`'s loop: button, iperf, pause flags and reset composed | run `board` |
| `BoardProofs` | theorems on `Board` | |
| `Iperf` | test sender and main's toggle | runs `iperf*` |
| `Tc6LwIP` | frames between TC6 and lwIP, errors and resets | run `tc6lwip` |
| `Tc6LwIPProofs` | theorems on `Tc6LwIP` | |
| `StagedFifo` | what a TC6 queue promises (abstract) | `Tc6Queue` |
| `Tc6Queue` | the staged rings of `tc6-queue.h` | run `tc6queue` |
| `Tc6QueueProofs` | theorems on `Tc6Queue`, the refinement among them | |
| `Plca` | periodic PLCA status check of `t1s_lwip.c` | run `plca` |
| `LoopProofs` | theorems on `Iperf`, `Plca` and `Button`, which live by the millisecond clock | |
| `I2cHost` | I2C host driver and `GetMacAddress` | run `i2chost` |
| `StubProofs` | theorems on `Tc6Spi` and `I2cHost`, the two peripherals behind `tc6-stub.c` | |

Definitions keep the source's names where there is one. A definition named
`X_Something` and commented as a mutant is a deliberately wrong variant of
`X`; no specification uses it. It is there to show that a property notices
when `X` is wrong.

### SysTick
`ticks` is real time and invisible to the driver; `Raw` is TMR1. Every reading
goes through `read_tick_with_wrap_detect`, as in the code, and is compared
with real time through `ret`. `ms_offset` is reduced modulo `W` (2^32), the
microsecond count is not, as in C. `MaxGap` bounds the time between two
reads; `MaxTicks` bounds real time for TLC only.

### Tc6Spi
`pc` is the position of `TC6LwIP_Service` and what it calls, cut wherever an
interrupt can make a difference: between reading `intIn` and serving, between
testing, clearing and serving `tc6NeedService`, between the two assignments to
`busy` around `dmaSpiStartTransaction`, between reading the pin and storing
`intOut`. `_CNAInterrupt` has three steps, because a new edge may come while
it runs: count, clear the pin's flag, clear the port's flag. All interrupts
have priority 1 and do not nest, and the loop does not run in an interrupt
(`isr = "none"`). The MAC-PHY, the DMA hardware and `TC6_Service` are
external, modelled from their use. The transmit-only and receive-only
branches of `dmaSpiStartTransaction` are never called by the stub and are
left out. The branch for a busy DMA is there but cannot be reached, which is
the first conjunct of `OneTransaction`.

### Heartbeat
Time is counted in heartbeat intervals: `lag` of a message is the number of
heartbeats sent after the one it belongs to. UDP and raw heartbeats are the
same protocol with separate variables, hence functions of the mode. The
transmit queue holds a copy of a UDP frame but a reference to the raw one,
which is read when it goes out. Frames and ACKs are delivered in order or
lost. Either board may be reset at any time by its button. Clients run no
iperf. The statistics (`tx_count`, moving average, printing) are left out.

### Button
A `Round` is one iteration of the loop: sample, debounce, short press, reset
state machine, in that order; `d` is the time since the previous one and `l`
the sampled level, both arbitrary. `Restart` is the iteration that executes
`reset`, together with the part of `main` that selects the role again. `iperf_on` is
main's `iperf_running`, the name being taken by `Iperf`, about which
`LoopProofs` speaks as well.

### Board
The components that `main` ties together by `iperf_running`, `reset_state`
and the two `..._set_paused` calls. An iteration is `Execute`, of which only
`iperf_service` matters here, and `Buttons` or `Restart`. Time may pass before
each and, within `Buttons`, between the sample of the button and what `main`
does about it. Sends are abstracted to "the session goes on or not", which
includes every way in which `Iperf` lets a session end. There is no
assumption on the time between presses: samples are arbitrary, and what
`Iperf` assumes with `PressGap` comes out of `debounce_button` here.

### Iperf
`iperf_service` is one iteration; `o` is the outcome of the send it may make.
`StartIperf` contains the first send of `iperf_start_application`.
`PressGap` is the least time between two short presses that the debouncing
of `app.c` leaves (press and release must each settle for more than 20 ms);
`Board` derives it. The receiving side and the reports are left out.

### Tc6LwIP
Lengths and offsets are in octets, scaled down; a slice has up to `SliceLen`
of them. One action per callback of `tc6-lwip.c`: a slice, the end of a frame,
an error or serious event (`Reinit`), `Reset_Complete`, `lwIpOut`, and
`OnRawTx`; besides, the raw
heartbeat's `eth_hb_send_frame`, which shares the transmit queue and looks at
nothing. `pbuf_alloc` may fail or return a chain, the stack may refuse a
frame, and TC6 may abandon the frame it is receiving when it is
re-initialised. External, from their use: TC6 hands over the slices of a
frame in order, reports its end once, and calls back once for every frame it
has accepted; lwIP frees what it has taken over; the applications free their
own reference at any time.

`BufLen` is the length of the receive buffer (`TC6LwIP_MTU`, 1518) and
`MaxLen` the length the first test accepts (`TC6LwIP_MTU + ETHARP_FCS_LEN`,
1522). A slice of a frame in between is accepted and copied, partly or wholly,
past the end of the buffer. The model keeps what lies within the buffer in
`wrote` and records the rest in `overrun`, which stays set: `lwipopts.h` has
`MEM_LIBC_MALLOC 1`, so what is overwritten belongs to the C heap and what
follows is undefined. That is not modelled; the properties about the contents
of frames are stated as long as `overrun` is false, and those about buffers
and references count the calls the glue makes. Left out: the PLCA
setting, the getters, and the failures of `TC6LwIP_Init`; the PLCA status
read is in `Plca`.

### Tc6Queue and StagedFifo
The header has three queues made from one template with 2, 3 and 7 stages;
the model has `Last` stages. `index` holds the 8-bit indices (modulo `CMod`),
`Ready`, `Ptr`, `Cap`, `Done` and `Undo` are the five operations of a stage.
What a stage does with its entry takes time, so `Begin` and `Done` are
separate and `work` is the set of stages in between. Who calls the operations
is inside the TC6 library. Its contract is a guard of `Undo`: only an entry
that the next stage has not begun with, and never one of the last stage.
`StagedFifo` is the promise: a queue of at most `Size` entries, and per stage
the number of entries it has handled. The refinement mapping reads the queue
off the ring from the last stage's index on (`Content`), and takes the
modular distance to the last stage (`Lead`) for the number handled.

### Plca
`T1S_CheckPlcaStatus` is called in every iteration, `d` ms after the last.
`T1S_OnPlcaStatus` is the answer to one register read, `StateAfter` what the
two callbacks make of it. External: TC6's register queue, which refuses when
it is full, and the MAC-PHY. Starts after a successful `T1S_init`.

### I2cHost
`Process...` are the cases of `I2C1_HostDataProcess`, `Interrupt` is
`_I2C1Interrupt`, `Request` the three functions that start a transfer.
`GetMacAddress` is `Request`, then `ReadEnableBits` and `ReadStatus` (the two
halves of `I2C1_IsBusy`, between which the interrupt may come) until neither
says busy, then `ErrorGet`. The program itself makes one transfer, 1 byte out
and 6 in; the model makes any transfers up to the bounds, one after the other.
`wire` records what happened on the bus and is compared with `Frame`, the
transfer as the I2C bus defines it. `op` is the operation the module is
carrying out; starting another one meanwhile sets `IWCOL`. The model relies
on interrupts being taken at once (`Runs`): a requested transfer whose
interrupt had not been taken yet would look finished to `I2C1_IsBusy`, since
it does not look at the flag, and `ResultRight` fails if `Runs` is dropped.
A plain read with a 10-bit address is left out: the driver sends the higher
address byte with the read bit at once and never the lower one. So are
`I2C1_Deinitialize` and `I2C1_TransferSetup`, which nothing calls.

## 3. Runs

Passing runs:

| Run | Instance | What it shows |
|---|---|---|
| `systick` | period of 3 ms of 2 ticks, 8 ms word, reads at most 5 ticks apart, 24 ticks | milliseconds exact, so no wrap missed or counted twice; timeouts neither early nor late (`TimeoutExact`); round trips exact |
| `tc6spi` | 2-bit counters, 2 chunks, 2 frames | no lost edge or request, one transaction at a time, and (liveness) both directions drain, so every INT is served |
| `heartbeat` | 3 heartbeats per mode, 2 queue slots, messages up to 2 late | round trips of the present period only, LED solid in reset, LEDs agree, both modes recur |
| `button` | debounce 1, hold 5, delay 2, 8 ms word, stalls of 2 | bounces ignored, one event per press, long press genuine, restart not early, never stuck |
| `iperf` | delay 1, session 6, presses 3 apart, 12 ms word, ids modulo 4 | stop is final, ids consecutive, sessions neither early nor endless |
| `tc6lwip` | buffers of 3 octets, frames of up to 4 accepted, slices of 1 or 2, shorter and longer frames, room for 3 pbufs, 2 queue entries, 2 application pbufs | until a buffer is overrun only whole frames are handed up and bad frames cost only themselves; buffers and references are accounted for |
| `board` | debounce 2, hold 4, delay 1, start delay 2, 12 ms word, stalls of 2 | a stopped test stays stopped; heartbeats are paused exactly when they should be |
| `tc6queue` | 4 stages, ring of 4, 3-bit indices, 2 values | one owner per slot, capacities exact, the ring is a `StagedFifo` |
| `plca` | delay 4, stalls of 3, 20 ms word, 2 register reads | checks in time and spaced, (liveness) the state displayed follows the MAC-PHY; the deadlines just before the wrap are the named exception |
| `i2chost` | up to 2 bytes out and 6 in, 7 and 10 bit addresses | operations do not overlap, the bus follows the request, result right, (liveness) the poll ends unless the bus is held |

Runs that show the code to differ from what its text says:

| Run | Statement | What the code does |
|---|---|---|
| `heartbeat_discard` | "Discard stale ACKs" | the stamp of the last heartbeat of a mode is cleared right after it is sent, so its ACK, not stale at all, is discarded |
| `iperf_suspended` | heartbeat "Suspended during iperf" | stays suspended after the test has ended by itself |

More were met and have no run:
- `tc6-lwip.h:56` calls `TC6LwIP_MTU` (1518) "Max MTU size including FCS", and
  a longer frame is to be refused as "greater than MTU" (`tc6-lwip.c:580`).
  But the test at line 578 adds `ETHARP_FCS_LEN` once more, while the buffer
  allocated at line 587 has 1518 octets. A frame of 1519 to 1522 octets is
  accepted, the `memcpy` at line 609 writes past the buffer, every test of
  `TC6_CB_OnRxEthernetPacket` passes, `pbuf_realloc` ("Shrink a pbuf chain to
  a desired length", line 660) does not lengthen the buffer, and lwIP is given
  the frame cut to 1518. This is a defect of the code. In the model it takes
  three steps: two slices of 2 octets into a buffer of 3, then the end of the
  frame, which is handed up though `last.intact` is false. It is why
  `DeliveredIntact` and `GoodFrameDelivered` are conditioned on `overrun`;
  without the condition TLC reports these three steps as a violation of
  `DeliveredIntact`.
- `systick.c:47` says the clock "Must be called at least once per 60s period
  to detect wraps", but the timer restarts every 42.9 s (`MaxGap < Period`),
  and a longer gap loses a restart for good.
- `SysTick_GetTickUs` is said to be "monotonically increasing"
  (`systick.h:60`) but falls when the 32-bit millisecond accumulator
  overflows after 49.7 days; `RttExact` holds all the same.
- `tc6.h:156` wants the buffer of a raw frame to "stay valid" until it is
  sent, but `eth_hb_send_frame` reuses one buffer: a raw frame still queued
  at the next heartbeat goes out with the newer LED state (`TransmitFrame`).
- A failed send is to "Terminate this app" (`udp_perf_client.c:193`), but if
  it is the very first one the delayed start brings the test up again.
- `TC6LwIP_SendWouldBlock` is documented as "false, sending will be
  successful" but looks at the queue only, and during a re-initialisation
  `lwIpOut` refuses everything.
- A test started in the one millisecond in which the counter is 0 never runs,
  since `startDelay = 0` means that no start is pending.
- The PLCA check compares `now > nextBeaconCheck`: a deadline that falls into
  the last iteration before the wrap is never passed in this period of the
  clock, and the deadline 2^32 - 1 never at all (`Blind`); in the last second
  before the wrap every iteration asks.
- After an I2C collision the module may take the bus for busy with nobody to
  end that (`Held`); `GetMacAddress` then polls for ever. The branch of the
  interrupt for write collisions sets no error; `NoWriteCollision` shows that
  it is not taken.

The properties that meet one of these name it as an exception (`overrun`,
`Blind`, `Held`); the others hold in spite of them: round trips are exact
although the microseconds jump (the 32-bit difference hides it), and the LEDs
agree although the frame buffer is shared (the last frame is right).

### Bounds and why they are enough
- Clock words are small (8 or 12 ms instead of 2^32) so that wraps happen
  several times in each run; the ratios that matter are kept: timeouts
  shorter than the word, the word not a multiple of the timer period, hold
  longer than debounce, start delay shorter than the gap between presses.
- `MaxGap < Period`: the loop reads the clock in every iteration, and no
  iteration lasts 42.9 s.
- `MaxEdges < IntMod`: at most 255 edges between two acknowledgements. Were
  the pin seen low by 256 calls of `TC6Stub_ReleaseInt` in a row, each after
  a new edge, the eight-bit counters would agree again and an edge would be
  lost; nothing in the code rules it out but the time scale does. With
  `IntMod = 4` the counters wrap all the time.
- `MaxLag`: how late a message can be, in heartbeats. It must not exceed
  `PerMode` (10) nor the two intervals of the reset countdown: an ACK more
  than a whole second late could otherwise meet the first heartbeats of the
  restarted server. `MaxLag = 2` is the largest the code tolerates, so the
  run is at the edge.
- Heartbeats per mode: 3 instead of 10, more than `MaxLag`, so that messages
  of the last, the present and the middle of a period all occur.
- `Tc6LwIP`: with slices of 1 and 2 octets a frame has a first, a middle and
  a last slice; it may end below `MinLen`, at the end of the buffer, between
  `BufLen` and `MaxLen`, or be too long; and a slice may lie wholly within the
  buffer, wholly past it, or across its end. `LenMod = 6` lets `rxLen` wrap if
  anything ever counted on across frames; the heap is smaller than everybody's
  wishes.
- `Board`: `StartDelay = Debounce`, the largest start delay for which
  `StopIsFinal` holds (10 ms and 20 ms in the code), so the run is at the
  edge.
- `Tc6Queue`: 4 stages are a first, a last and two in between, one of them
  next to neither end; `CMod = 2 * Size` is the least modulus with which full
  and empty differ at every position (256 and 4 in the code), and the indices
  wrap.
- `Plca`: the word is long enough for deadlines before, in and after the last
  `BeaconDelay` before the wrap, and stalls long enough to step over a deadline.
- `I2cHost`: 6 bytes in are what `GetMacAddress` reads; 2 out are a first and
  a last one.
- Auxiliary clocks are capped above everything they are compared with.

### Fairness and why the code justifies it
Only the processor and the hardware are assumed to go on: the main loop makes
its next step (it has no blocking call in the modelled paths), a flagged
interrupt is taken, a started DMA transfer completes, the 500 ms timer
expires, a frame at the head of a queue is sent, and a frame on the wire is
received or lost. Time passes between iterations in `Button`, `Iperf` and
`Plca`. The I2C module finishes each operation, well or by a collision
(`I2cHost`); that somebody frees a bus left held is not assumed. In `Plca`
status reads that are asked for again and again do not all fail (strong
fairness of a successful answer); this is about the MAC-PHY, and says that it
works. The user, and the arrival of traffic, are never assumed.

Deadlock is checked in every run.

## 4. Proofs

All proofs are checked by TLAPS with Z3, Zenon and LS4. Every invariant of the
passing runs, and every action property, is a theorem for all values of the
constants that the modules' assumptions allow.

- `ModArith`: division and remainder: uniqueness, `(a % n + b) % n`,
  subtraction, splitting a division through a multiple, the step of a
  quotient over less than one period; and the two lemmas every timeout rests
  on: the time elapsed on a wrapping clock grows with the time that passes as
  long as it stays below the word (`ElapsedMod`), and never says more than has
  passed (`ElapsedAtMost`).
- `SysTickProofs`, for every period, scaling and word size, assuming only
  `ClockConstants`, `ScalersAgree` and `MaxGap < Period`:
  `ClockCorrect` (wraps detected, milliseconds exact: `MsExact`),
  `TimeoutCorrect` (neither early nor late: `TimeoutExact`), `RttCorrect`.
  `WrapsDetected` alone is not inductive: a read compares `Raw` with
  `last_raw`, so `ClockInv` adds that `last_raw` is the real instant of the
  last read modulo the period and that this instant is less than a period
  ago; `KeptInv` says the same of readings callers have kept, and `VerdictInv`
  of the last verdict of a timeout.
- `StubProofs`, on `Tc6Spi`, for every counter width and queue size:
  `TransferCorrect` (`TypeOK`, `OneTransaction`, `NoLostService`; their
  conjunction is inductive; `TransferTypes` and `ServiceNotLost` state the
  parts) and `InterruptNotLost`. For the latter `EdgeInv` tracks how far
  `intIn` is ahead of `intOut` and of `intReported`, and that the bound on
  unacknowledged edges keeps these distances below the modulus.
- `StubProofs`, on `I2cHost`, for transfers of every length: `NoCollision`
  (`NoWriteCollision`), `WireRight` (`WireFollowsRequest`) and `MacReadRight`
  (`ResultRight`). `HostInv` ties the state of the driver to the operation
  the module carries out and to the status bits. For the other two one has to
  say at every moment how far the transfer has come: `FrameCorrect` spells out
  place by place what the bus should show, and `ProgressInv` says that the
  transfer is running, with the driver's state and counters being those of its
  place, or cut off by a collision, or being stopped after a refusal, or over,
  and then the error code tells which. `BytesInv` says that the bytes stored
  are those of the client in order.
- `Tc6LwIPProofs`, for every buffer, accepted and slice length, modulus, heap
  and queue size: `ReceiveCorrect` (`DeliveredIntact`), `BuffersAccounted`
  (`NoRxLeak`), `GoodFramesArrive` (`GoodFrameDelivered`) and
  `ReferencesExact` (`TxRefsExact`). The first and the third hold as long as
  no buffer was overrun, which `LwIPConstants` does not rule out: it asks for
  `BufLen <= MaxLen` only, as in the code, and with equality there is no
  overrun. `RxInv` says that, while the MAC-PHY is ready, nothing has been
  refused and nothing overrun, the last `rxLen` octets handed over are in the
  buffer: not always all of them, since `Reset_Complete` sets `rxLen` back in
  the middle of a frame, but when the comparison with TC6's length succeeds
  it is all of them. `GoodInv` is the converse: of a frame that neither a reset nor a lack
  of memory has touched, every slice was accepted, whatever became of the
  frame before. `TxRefsExact` is inductive but for types; its proof is about
  how the number of places of a pbuf in the queue changes
  (`PlacesAppend`, `PlacesTail`).
- `HeartbeatProofs`, for every number of exchanges per mode, queue size and
  lateness that `HeartbeatConstants` allows: `RoundTripsOfThisPeriod`
  (`SamePeriod`), `LedSolid` (`LedSolidDuringReset`) and `LedsAgree`
  (`ClientMirrorsServer`). `HbInv` adds to `SamePeriod` that a set stamp is of
  the present mode with a heartbeat already counted, and that a message of the
  present mode is either younger than the count or so old that it cannot be
  under way; `MaxLag <= PerMode` and `MaxLag <= CountdownBeats` are used here
  and nowhere else. `LedInv` adds that both transports are paused on a client
  in its reset sequence. `MirrorInv` says that the newest heartbeat is the
  last one under way, tells the present state of the LED (this is where the
  shared raw frame does no harm), and has nothing behind it once it is shown.
- `LoopProofs`, on `Iperf`, for every word size, delay and stall: `StopFinal`
  (`StopIsFinal`), `SessionNotCut` (`NotEndedEarly`), `IdsInOrder`
  (`IdsConsecutive`). `StartInv` adds that a pending start is that of the last
  press and no older than the delay, although the clock wraps; since a second
  press comes later than that, nothing is pending when the test is stopped.
  `SessionInv` adds that the session's age on the wrapping clock is its real
  age until it is due to end. `IdInv` adds that the next id follows the last
  one sent even while a start is still pending.
- `LoopProofs`, on `Plca`: `PlcaChecksGoOn` and `PlcaChecksSpaced`. The code
  compares instants and not differences, so `PlcaInv` has to tell four cases
  apart: before the deadline, at a check whose deadline has wrapped, past the
  first deadline after a long start, and past a deadline so close to the wrap
  that it was stepped over, the last being the exception `ChecksGoOn` names.
- `LoopProofs`, on `Button`: `RestartWaits` (`RestartAfterDelay`),
  `OneConsequence` (`OneEventPerPress`), `LongPressGenuine`
  (`GenuineLongPress`), `BounceFiltered` (`NoBounce`). `ButtonInv` has the
  types and what holds between two iterations: the short press has been
  taken, and the last sample is the level;
  `CountdownInv`, `EventInv`, `HoldInv` and `BounceInv` tie the real time of
  the release, the press and the last change of level to what the clock says
  of them. `HoldInv` is the hard one: a press may be sampled up at its end
  without having been released yet, and then the hold time includes what the
  debouncing waits.
- `Tc6QueueProofs`, for every number of stages, ring size and index width
  that is a multiple of it: `QueueSafe` (`OneOwner`, `InOrder`, `CapExact`,
  `TypeOK`; `CapacitiesExact` states `CapExact`) and `QueueRefinesFifo`
  (`ImplementsFifo`). `OneOwner` is not inductive: that two stages at work
  have different slots follows from their distances to the last stage
  differing and being at most `Size`, so the invariant is about these
  distances (`InOrder`) and adds that a stage at work has an entry to work on.
  For the refinement every step is followed through the mapping: `Done` of the
  first stage is `Enter`, of the last `Leave`, of another `Pass`; `Undo` is
  `Withdraw` or `Return`; `Begin` is a stutter.
- `BoardProofs`, for every word size and all timings `BoardConstants` allows:
  `BoardStopFinal` (`StopIsFinal`), `BoardPauseAgrees` (`PauseAgrees`) and
  `BoardTypes` (`TypeOK`). The invariant `StopInv` contains `PendingInv` on a
  pending start: its age, which the clock's wraps do not falsify; a press that
  is being debounced is no older than it; and once the press has settled the
  delay is over and the next thing to come is the `iperf_service` that ends
  it, before `main` can see the release. `StartDelay <= Debounce` is used here
  and nowhere else. `PauseInv` adds that a board waiting for the release still
  has its button debounced as pressed and its long press noted, so that no
  short press lifts the pause.

The proofs rest on the modules' assumptions on their constants, which TLC
evaluates in the runs. `HeartbeatConstants` asks for a countdown of at least
one heartbeat (2 in the code); without one, a frame from before a restart
would count as the newest after it.

Only model-checked: liveness, since fairness and `ENABLED` are beyond the
prover, in `Tc6Spi`, `Heartbeat`, `Button`, `Iperf`, `Plca` and `I2cHost`.

## 5. Plan

1. Done: time base, SPI path, heartbeat, button, iperf sender, TC6 to lwIP
   glue, TC6 queues with their abstract specification, PLCA supervision, I2C
   host, and the composition of button, iperf, pause and reset; theorems on
   all of them.
2. Proofs next: that the button and iperf parts of `Board` take only steps
   `Button` and `Iperf` allow; `Board`'s press gap as a theorem of its own.
3. Model, if it is to grow: the receiving side and the interim reports of
   iperf, the transmit-only and receive-only transfers of `dmaspi.c`.

Not modelled: the generated UART and SPI drivers and register set-up (no
state of their own beyond the hardware; the UART is used by `printf` alone,
and of the SPI driver `dmaspi.c` calls open and close only), printing and
statistics, terminal input, one-time set-up that only passes parameters on
(`T1S_configure`, `iperf_init`), and the libraries themselves, of which only
headers (lwIP, most of them options and declarations of parts not used here)
and binary archives are in the repository.
