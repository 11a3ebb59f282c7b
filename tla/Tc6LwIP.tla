------------------------------ MODULE Tc6LwIP ------------------------------
(***************************************************************************)
(* The glue between the TC6 library and lwIP, tc6-lwip.c: reassembly of    *)
(* received frames, dispatch to the raw callback or to the IP stack, the   *)
(* references that transmitted pbufs are kept alive by, and re-            *)
(* initialisation of the MAC-PHY after an error.                           *)
(*                                                                         *)
(* Lengths and offsets are in octets, of which there are few.  External:   *)
(* TC6, which hands over the slices of a frame in order and then reports   *)
(* its end, except that it may abandon a frame when it is re-initialised,  *)
(* and which calls back once for every frame accepted for transmission;    *)
(* lwIP and its heap; the applications, which free their own reference     *)
(* whenever they like.                                                     *)
(*                                                                         *)
(* A slice is accepted if the frame is no longer than MaxLen, but the      *)
(* buffer has BufLen octets.  What is copied past its end overwrites       *)
(* memory that is not the buffer's (overrun); what the damage does is not  *)
(* modelled, only that those octets are not part of what is handed up.     *)
(***************************************************************************)
EXTENDS Integers, Sequences, FiniteSets

CONSTANTS
  BufLen,   \* length of the receive buffer (TC6LwIP_MTU, 1518)
  MaxLen,   \* longest frame accepted (TC6LwIP_MTU + ETHARP_FCS_LEN, 1522)
  SliceLen, \* longest slice
  MinLen,   \* MIN_HEADER_LEN
  LenMod,   \* 2^16, modulus of rxLen
  Pool,     \* pbufs the heap has room for
  QSize,    \* TC6_TX_ETH_QSIZE (4)
  Pbufs     \* the pbufs of the applications

ASSUME LwIPConstants ==
  /\ BufLen \in Nat \ {0} /\ MaxLen \in Nat /\ BufLen <= MaxLen
  /\ SliceLen \in Nat \ {0} /\ MinLen \in Nat
  /\ LenMod \in Nat /\ LenMod > MaxLen
  /\ Pool \in Nat /\ QSize \in Nat \ {0}
  /\ "raw" \notin Pbufs

VARIABLES
  resetComplete,  \* lw->tc.resetComplete
  pbuf,           \* is there a receive buffer?
  rxLen, rxInvalid,
  txq,            \* TC6: frames accepted for transmission
  ref,            \* reference count of each pbuf of the applications
  rxOff,          \* TC6: octets of the present frame handed over so far
  allocated,      \* lwIP: receive pbufs in existence
  stack,          \* lwIP: of those, how many the stack has taken over
  app,            \* pbufs the applications hold
  \* Auxiliary:
  wrote,          \* octets of the receive buffer filled by the present frame
  overrun,        \* memory past the end of a receive buffer was overwritten
  starved,        \* the present frame met an allocation failure
  disturbed,      \* a reset completed during the present frame, or left
                  \* rxInvalid set before it
  last            \* what became of the last frame

rxVars  == <<pbuf, rxLen, rxInvalid, rxOff, allocated, stack, wrote, overrun,
             starved, disturbed, last>>
txVars  == <<txq, ref, app>>
vars == <<resetComplete, pbuf, rxLen, rxInvalid, txq, ref, rxOff, allocated,
          stack, app, wrote, overrun, starved, disturbed, last>>

\* TC6LwIP_Init, which waits for the first Reset_Complete event.
Init ==
  /\ resetComplete = TRUE
  /\ pbuf = FALSE /\ rxLen = 0 /\ rxInvalid = FALSE
  /\ txq = <<>> /\ ref = [p \in Pbufs |-> 0]
  /\ rxOff = 0 /\ allocated = 0 /\ stack = 0
  /\ app = {}
  /\ wrote = {} /\ overrun = FALSE
  /\ starved = FALSE /\ disturbed = FALSE
  /\ last = [to |-> "none", intact |-> TRUE, good |-> FALSE]

\* lwIP's heap has room for another pbuf.
HeapFree == allocated + Cardinality({p \in Pbufs : ref[p] > 0}) < Pool

-----------------------------------------------------------------------------
(***************************************************************************)
(* Receiving                                                               *)
(***************************************************************************)

\* TC6_CB_OnRxEthernetSlice with the next n octets of the present frame;
\* got is the answer of pbuf_alloc, asked only if there is no buffer: "ok",
\* "none", or "chained", which is given back.
TC6_CB_OnRxEthernetSlice(n, got) ==
  /\ rxOff <= MaxLen
  /\ got = "ok" => pbuf \/ HeapFree
  /\ rxOff' = rxOff + n
  /\ \/ /\ rxInvalid
        /\ UNCHANGED <<pbuf, rxLen, rxInvalid, allocated, wrote, overrun,
                       starved>>
     \/ /\ ~rxInvalid /\ rxOff + n > MaxLen
        /\ rxInvalid' = TRUE
        /\ UNCHANGED <<pbuf, rxLen, allocated, wrote, overrun, starved>>
     \/ /\ ~rxInvalid /\ rxOff + n <= MaxLen
        /\ ~pbuf /\ got # "ok"
        /\ rxInvalid' = TRUE
        /\ starved' = TRUE
        /\ UNCHANGED <<pbuf, rxLen, allocated, wrote, overrun>>
     \/ /\ ~rxInvalid /\ rxOff + n <= MaxLen
        /\ pbuf \/ got = "ok"
        /\ pbuf' = TRUE
        /\ allocated' = IF pbuf THEN allocated ELSE allocated + 1
        /\ wrote' = (IF pbuf THEN wrote ELSE {}) \cup
                      {i \in rxOff .. (rxOff + n - 1) : i < BufLen}
        /\ overrun' = (overrun \/ rxOff + n > BufLen)
        /\ rxLen' = (rxLen + n) % LenMod
        /\ UNCHANGED <<rxInvalid, starved>>
  /\ UNCHANGED <<resetComplete, stack, disturbed, last, txVars>>

\* Mutant: TC6's verdict is taken for granted.
Complete_Trusting(success) == success /\ pbuf /\ rxOff >= MinLen

\* The tests of TC6_CB_OnRxEthernetPacket on the frame that has ended; len
\* is the number of octets TC6 has handed over.
Complete(success) ==
  /\ success /\ ~rxInvalid /\ pbuf /\ rxLen # 0
  /\ rxLen = rxOff
  /\ rxOff >= MinLen

\* Who gets a complete frame of this EtherType: the registered callback
\* (kind "raw"), the IP stack if its input function accepts it, or nobody.
Destination(kind, err) ==
  CASE kind = "raw" -> "raw"
    [] kind = "ip" /\ err = "ERR_OK" -> "stack"
    [] OTHER -> "dropped"

\* Mutant: only frames that were consumed reset the reassembly.
InvalidAfterPacket_Kept(to) == IF to = "dropped" THEN rxInvalid ELSE FALSE

InvalidAfterPacket(to) == FALSE

\* Mutant: a dropped frame's buffer is forgotten.
AllocatedAfterPacket_Forgotten(to) ==
  IF pbuf /\ to = "raw" THEN allocated - 1 ELSE allocated

\* The buffer is freed unless the stack has taken it over.
AllocatedAfterPacket(to) ==
  IF pbuf /\ to # "stack" THEN allocated - 1 ELSE allocated

\* A frame that nothing speaks against: it came whole, fits the buffer, and
\* met neither a reset nor a lack of memory nor memory that is damaged.
Good(success, kind, err) ==
  /\ success /\ rxOff \in MinLen .. BufLen
  /\ ~starved /\ ~disturbed /\ ~overrun
  /\ kind = "raw" \/ (kind = "ip" /\ err = "ERR_OK")

\* TC6_CB_OnRxEthernetPacket: the end of a frame.  While the MAC-PHY is
\* being reset it is ignored altogether.  pbuf_realloc shortens the buffer
\* to the frame and never lengthens it, so the frame is intact if all its
\* octets are in the buffer.
TC6_CB_OnRxEthernetPacket(success, kind, err) ==
  /\ rxOff > 0
  /\ rxOff' = 0 /\ wrote' = {} /\ starved' = FALSE
  /\ \/ /\ ~resetComplete
        /\ last' = [to |-> "dropped", intact |-> TRUE, good |-> FALSE]
        /\ UNCHANGED <<pbuf, rxLen, rxInvalid, allocated, stack, disturbed>>
     \/ /\ resetComplete
        /\ LET to == IF Complete(success) THEN Destination(kind, err)
                     ELSE "dropped" IN
             /\ last' = [to     |-> to,
                         intact |-> wrote = 0 .. (rxOff - 1),
                         good   |-> Good(success, kind, err)]
             /\ stack' = IF to = "stack" THEN stack + 1 ELSE stack
             /\ allocated' = AllocatedAfterPacket(to)
             /\ rxInvalid' = InvalidAfterPacket(to)
        /\ pbuf' = FALSE /\ rxLen' = 0
        /\ disturbed' = FALSE
  /\ UNCHANGED <<resetComplete, overrun, txVars>>

\* The stack is done with a received pbuf.
StackFrees ==
  /\ stack > 0
  /\ stack' = stack - 1 /\ allocated' = allocated - 1
  /\ UNCHANGED <<resetComplete, pbuf, rxLen, rxInvalid, rxOff, wrote, overrun,
                 starved, disturbed, last, txVars>>

-----------------------------------------------------------------------------
(***************************************************************************)
(* Errors and reset                                                        *)
(***************************************************************************)

\* TC6_CB_OnError and TC6Regs_CB_OnEvent on a serious error; TC6 may or may
\* not abandon the frame it is receiving.
Reinit(abandon) ==
  /\ resetComplete' = FALSE
  /\ rxOff' = IF abandon THEN 0 ELSE rxOff
  /\ wrote' = IF abandon THEN {} ELSE wrote
  /\ starved' = (starved /\ ~abandon)
  /\ UNCHANGED <<pbuf, rxLen, rxInvalid, allocated, stack, overrun,
                 disturbed, last, txVars>>

\* TC6Regs_CB_OnEvent, Reset_Complete.  rxInvalid is not cleared.
ResetComplete ==
  /\ resetComplete' = TRUE
  /\ rxLen' = 0
  /\ disturbed' = (disturbed \/ rxInvalid \/ rxOff # 0)
  /\ UNCHANGED <<pbuf, rxInvalid, rxOff, allocated, stack, wrote, overrun,
                 starved, last, txVars>>

-----------------------------------------------------------------------------
(***************************************************************************)
(* Transmitting                                                            *)
(***************************************************************************)

\* TC6_GetRawSegments has no free entry.
TC6LwIP_SendWouldBlock == Len(txq) >= QSize

\* An application allocates a pbuf, and frees its reference to it.
AppAlloc(p) ==
  /\ ref[p] = 0 /\ HeapFree
  /\ ref' = [ref EXCEPT ![p] = 1]
  /\ app' = app \cup {p}
  /\ UNCHANGED <<resetComplete, rxVars, txq>>

AppFree(p) ==
  /\ p \in app
  /\ app' = app \ {p}
  /\ ref' = [ref EXCEPT ![p] = @ - 1]
  /\ UNCHANGED <<resetComplete, rxVars, txq>>

\* Mutant: no reference is taken for the queue.
RefAfterOut_None(p) == ref

\* pbuf_ref for a frame that goes into the queue.
RefAfterOut(p) == [ref EXCEPT ![p] = @ + 1]

\* lwIpOut: a frame of an application is handed to TC6, or refused with
\* ERR_IF during a reset and with ERR_WOULDBLOCK when the queue is full.
lwIpOut(p) ==
  /\ p \in app
  /\ \/ /\ ~resetComplete \/ TC6LwIP_SendWouldBlock
        /\ UNCHANGED <<txq, ref>>
     \/ /\ resetComplete /\ ~TC6LwIP_SendWouldBlock
        /\ txq' = Append(txq, p)
        /\ ref' = RefAfterOut(p)
  /\ UNCHANGED <<resetComplete, rxVars, app>>

\* eth_hb_send_frame: a static buffer, without reference or callback, and
\* without regard to resetComplete.
eth_hb_send_frame ==
  /\ Len(txq) < QSize
  /\ txq' = Append(txq, "raw")
  /\ UNCHANGED <<resetComplete, rxVars, ref, app>>

\* TC6 is done with the oldest frame; OnRawTx frees the queue's reference.
OnRawTx ==
  /\ txq # <<>>
  /\ ref' = IF Head(txq) = "raw" THEN ref
            ELSE [ref EXCEPT ![Head(txq)] = @ - 1]
  /\ txq' = Tail(txq)
  /\ UNCHANGED <<resetComplete, rxVars, app>>

-----------------------------------------------------------------------------
Allocs == {"ok", "none", "chained"}
Kinds  == {"raw", "ip", "other"}
Errs   == {"ERR_OK", "ERR_MEM"}

Receive ==
  \/ \E n \in 1 .. SliceLen, got \in Allocs : TC6_CB_OnRxEthernetSlice(n, got)
  \/ \E success \in BOOLEAN, kind \in Kinds, err \in Errs :
       TC6_CB_OnRxEthernetPacket(success, kind, err)
  \/ StackFrees

Transmit ==
  \/ \E p \in Pbufs : AppAlloc(p) \/ AppFree(p) \/ lwIpOut(p)
  \/ eth_hb_send_frame \/ OnRawTx

Reset == ResetComplete \/ \E abandon \in BOOLEAN : Reinit(abandon)

Next == Receive \/ Transmit \/ Reset

Spec == Init /\ [][Next]_vars

-----------------------------------------------------------------------------
(***************************************************************************)
(* Properties                                                              *)
(***************************************************************************)
\* As long as no frame has overrun its buffer, a frame that is handed up, to
\* the raw callback or to the IP stack, is exactly the frame TC6 has received:
\* no octet is missing or left over from another frame, whatever resets,
\* abandoned frames and allocation failures came before or in between.  The
\* condition is needed: a frame of more than BufLen and at most MaxLen octets
\* passes every test and is handed up cut to BufLen.
DeliveredIntact ==
  ~overrun /\ last.to \in {"raw", "stack"} => last.intact

\* A bad frame costs only itself: a frame that came whole, with a length
\* between the least and that of the buffer, with memory, and not across a
\* reset, is handed up, as long as no frame has overrun its buffer.
GoodFrameDelivered == last.good => last.to \in {"raw", "stack"}

\* No receive buffer is leaked or freed twice: every one in existence is
\* held by the stack or is the one under reassembly.
NoRxLeak == allocated = stack + (IF pbuf THEN 1 ELSE 0)

\* Every pbuf is alive exactly as long as an application holds it or TC6 has
\* it queued: nothing queued is freed, and nothing stays allocated.
TxRefsExact ==
  \A p \in Pbufs :
    ref[p] = (IF p \in app THEN 1 ELSE 0)
               + Cardinality({i \in DOMAIN txq : txq[i] = p})
=============================================================================
