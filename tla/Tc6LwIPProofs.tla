--------------------------- MODULE Tc6LwIPProofs ---------------------------
(***************************************************************************)
(* Reassembly of received frames is sound and keeps account of its         *)
(* buffers, a bad frame costs only itself, and transmitted pbufs are       *)
(* counted exactly, for every frame length, heap and queue size.           *)
(***************************************************************************)
EXTENDS Tc6LwIP, FiniteSetTheorems, FunctionTheorems, TLAPS

\* While the MAC-PHY is ready and nothing has been refused, the last rxLen
\* octets of the present frame, and perhaps more, are in the buffer, unless
\* some frame was longer than its buffer.  After a reset in mid-frame rxLen
\* lags behind rxOff for the rest of the frame, which is how the length test
\* notices.
RxInv ==
  /\ resetComplete \in BOOLEAN /\ pbuf \in BOOLEAN /\ rxInvalid \in BOOLEAN
  /\ overrun \in BOOLEAN
  /\ rxOff \in Nat /\ rxLen \in 0 .. (LenMod - 1)
  /\ \A i \in wrote : i \in 0 .. (rxOff - 1)
  /\ resetComplete /\ ~rxInvalid =>
       /\ rxLen <= rxOff
       /\ ~pbuf => rxLen = 0
       /\ ~overrun =>
            \A i \in (rxOff - rxLen) .. (rxOff - 1) : i \in wrote

\* Every buffer is accounted for.
BufInv ==
  /\ pbuf \in BOOLEAN /\ allocated \in Nat /\ stack \in Nat
  /\ NoRxLeak

\* The variables the two invariants are about.
rxState == <<resetComplete, pbuf, rxLen, rxInvalid, rxOff, wrote, overrun, last,
             allocated, stack>>

\* The transmitting side leaves the receiving side alone.
LEMMA TransmitKeepsRx ==
  ASSUME Transmit PROVE UNCHANGED rxState
  BY DEF Transmit, AppAlloc, AppFree, lwIpOut, eth_hb_send_frame, OnRawTx,
         rxVars, rxState

\* A slice extends what is in the buffer, or marks the frame as refused.
LEMMA SliceStep ==
  ASSUME RxInv, NEW n \in 1 .. SliceLen, NEW got \in Allocs,
         TC6_CB_OnRxEthernetSlice(n, got)
  PROVE  /\ RxInv' /\ last' = last
         /\ overrun' \in BOOLEAN /\ (overrun => overrun')
<1> USE LwIPConstants DEF RxInv
<1>0. n \in Nat /\ n > 0
  OBVIOUS
<1>1. rxOff' = rxOff + n /\ resetComplete' = resetComplete /\ last' = last
  BY DEF TC6_CB_OnRxEthernetSlice, txVars
<1>2. CASE rxInvalid
  BY <1>0, <1>1, <1>2 DEF TC6_CB_OnRxEthernetSlice
<1>3. CASE ~rxInvalid /\ (rxOff + n > MaxLen \/ (~pbuf /\ got # "ok"))
  <2>1. rxInvalid' = TRUE /\ UNCHANGED <<pbuf, rxLen, wrote, overrun>>
    BY <1>3 DEF TC6_CB_OnRxEthernetSlice
  <2> QED
    BY <1>0, <1>1, <2>1
<1>4. CASE ~rxInvalid /\ rxOff + n <= MaxLen /\ (pbuf \/ got = "ok")
  <2>1. /\ pbuf' = TRUE /\ rxInvalid' = rxInvalid
        /\ wrote' = (IF pbuf THEN wrote ELSE {}) \cup
                      {i \in rxOff .. (rxOff + n - 1) : i < BufLen}
        /\ overrun' = (overrun \/ rxOff + n > BufLen)
        /\ rxLen' = (rxLen + n) % LenMod
    BY <1>4 DEF TC6_CB_OnRxEthernetSlice
  <2>2. rxLen' \in 0 .. (LenMod - 1)
    BY <1>0, <2>1
  <2>3. \A i \in wrote' : i \in 0 .. (rxOff' - 1)
    BY <1>0, <1>1, <2>1
  <2>4. overrun' \in BOOLEAN /\ (~overrun' => ~overrun /\ rxOff + n <= BufLen)
    <3>1. /\ overrun' \in BOOLEAN
          /\ ~overrun' => ~overrun /\ ~(rxOff + n > BufLen)
      BY <2>1, Zenon
    <3> QED
      BY <1>0, <3>1
  <2>5. ASSUME resetComplete
        PROVE  /\ rxLen' <= rxOff'
               /\ ~overrun' =>
                    \A i \in (rxOff' - rxLen') .. (rxOff' - 1) : i \in wrote'
    <3>1. rxLen + n < LenMod
      BY <1>0, <1>4, <2>5
    <3>2. rxLen' = rxLen + n
      BY <1>0, <2>1, <3>1
    <3>3. rxLen' <= rxOff'
      BY <1>0, <1>1, <1>4, <2>5, <3>2
    <3>4. ASSUME ~overrun', NEW i \in (rxOff' - rxLen') .. (rxOff' - 1)
          PROVE  i \in wrote'
      <4>1. CASE i >= rxOff
        <5>1. i \in rxOff .. (rxOff + n - 1) /\ i < BufLen
          BY <1>0, <1>1, <2>4, <3>2, <3>4, <4>1
        <5> QED
          BY <2>1, <5>1
      <4>2. CASE i < rxOff
        <5>1. i \in (rxOff - rxLen) .. (rxOff - 1)
          BY <1>0, <1>1, <3>2, <3>4, <4>2
        <5>2. rxLen # 0 /\ pbuf
          BY <1>4, <2>5, <5>1
        <5> QED
          BY <1>4, <2>1, <2>4, <2>5, <3>4, <5>1, <5>2
      <4> QED
        BY <1>0, <1>1, <3>2, <4>1, <4>2
    <3> QED
      BY <3>3, <3>4
  <2> QED
    BY <1>0, <1>1, <2>1, <2>2, <2>3, <2>4, <2>5
<1> QED
  BY <1>2, <1>3, <1>4

\* The end of a frame: what passes the tests is intact.
LEMMA PacketStep ==
  ASSUME RxInv, NEW success \in BOOLEAN, NEW kind \in Kinds, NEW err \in Errs,
         TC6_CB_OnRxEthernetPacket(success, kind, err)
  PROVE  RxInv' /\ DeliveredIntact'
<1> USE LwIPConstants DEF RxInv
<1>1. /\ rxOff' = 0 /\ wrote' = {} /\ resetComplete' = resetComplete
      /\ overrun' = overrun
  BY DEF TC6_CB_OnRxEthernetPacket
<1>2. CASE ~resetComplete
  <2>1. UNCHANGED <<pbuf, rxLen, rxInvalid>> /\ last'.to = "dropped"
    BY <1>2 DEF TC6_CB_OnRxEthernetPacket
  <2> QED
    BY <1>1, <1>2, <2>1 DEF DeliveredIntact
<1>3. CASE resetComplete
  <2> DEFINE to == IF Complete(success) THEN Destination(kind, err)
                   ELSE "dropped"
  <2>1. /\ pbuf' = FALSE /\ rxLen' = 0 /\ rxInvalid' = FALSE
        /\ last' = [to     |-> to,
                    intact |-> wrote = 0 .. (rxOff - 1),
                    good   |-> Good(success, kind, err)]
    BY <1>3, Zenon DEF TC6_CB_OnRxEthernetPacket, InvalidAfterPacket
  <2>2. RxInv'
    <3>1. pbuf' \in BOOLEAN /\ rxInvalid' \in BOOLEAN
      BY <2>1, Zenon
    <3>2. rxLen' = 0 /\ resetComplete' \in BOOLEAN
      BY <1>1, <2>1
    <3> QED
      BY <1>1, <3>1, <3>2
  <2>3. ASSUME ~overrun, to \in {"raw", "stack"} PROVE wrote = 0 .. (rxOff - 1)
    <3>1. ~rxInvalid /\ rxLen = rxOff
      BY <2>3 DEF Complete
    <3>2. \A i \in 0 .. (rxOff - 1) : i \in wrote
      BY <1>3, <2>3, <3>1
    <3> QED
      BY <3>2
  <2> QED
    BY <1>1, <2>1, <2>2, <2>3 DEF DeliveredIntact
<1> QED
  BY <1>2, <1>3

\* Every step preserves RxInv and DeliveredIntact.
LEMMA RxStep ==
  RxInv /\ DeliveredIntact /\ [Next]_vars => RxInv' /\ DeliveredIntact'
<1> SUFFICES ASSUME RxInv, DeliveredIntact, [Next]_vars
             PROVE  RxInv' /\ DeliveredIntact'
  OBVIOUS
<1>1. ASSUME NEW n \in 1 .. SliceLen, NEW got \in Allocs,
             TC6_CB_OnRxEthernetSlice(n, got)
      PROVE  RxInv' /\ DeliveredIntact'
  BY <1>1, SliceStep DEF DeliveredIntact
<1>2. ASSUME NEW success \in BOOLEAN, NEW kind \in Kinds, NEW err \in Errs,
             TC6_CB_OnRxEthernetPacket(success, kind, err)
      PROVE  RxInv' /\ DeliveredIntact'
  BY <1>2, PacketStep
<1>3. CASE StackFrees
  BY <1>3 DEF StackFrees, RxInv, DeliveredIntact
<1>4. CASE Transmit
  BY <1>4, TransmitKeepsRx DEF rxState, RxInv, DeliveredIntact
<1>5. CASE ResetComplete
  BY <1>5, LwIPConstants DEF ResetComplete, RxInv, DeliveredIntact
<1>6. ASSUME NEW abandon \in BOOLEAN, Reinit(abandon)
      PROVE  RxInv' /\ DeliveredIntact'
  BY <1>6 DEF Reinit, RxInv, DeliveredIntact
<1>7. CASE UNCHANGED vars
  BY <1>7 DEF vars, RxInv, DeliveredIntact
<1> QED
  BY <1>1, <1>2, <1>3, <1>4, <1>5, <1>6, <1>7 DEF Next, Receive, Reset

\* Every step preserves BufInv.
LEMMA BufStep == BufInv /\ [Next]_vars => BufInv'
<1> SUFFICES ASSUME BufInv, [Next]_vars PROVE BufInv'
  OBVIOUS
<1> USE DEF BufInv, NoRxLeak
<1>1. ASSUME NEW n \in 1 .. SliceLen, NEW got \in Allocs,
             TC6_CB_OnRxEthernetSlice(n, got)
      PROVE  BufInv'
  <2>1. CASE UNCHANGED <<pbuf, allocated>>
    BY <1>1, <2>1 DEF TC6_CB_OnRxEthernetSlice
  <2>2. CASE ~UNCHANGED <<pbuf, allocated>>
    <3>1. /\ pbuf' = TRUE /\ stack' = stack
          /\ allocated' = IF pbuf THEN allocated ELSE allocated + 1
      BY <1>1, <2>2, Zenon DEF TC6_CB_OnRxEthernetSlice
    <3>2. pbuf' \in BOOLEAN /\ pbuf'
      BY <3>1, Zenon
    <3> QED
      BY <3>1, <3>2
  <2> QED
    BY <2>1, <2>2
<1>2. ASSUME NEW success \in BOOLEAN, NEW kind \in Kinds, NEW err \in Errs,
             TC6_CB_OnRxEthernetPacket(success, kind, err)
      PROVE  BufInv'
  <2>1. CASE ~resetComplete
    BY <1>2, <2>1 DEF TC6_CB_OnRxEthernetPacket
  <2>2. CASE resetComplete
    <3> DEFINE to == IF Complete(success) THEN Destination(kind, err)
                     ELSE "dropped"
    <3>1. /\ pbuf' \in BOOLEAN /\ ~pbuf'
          /\ stack' = IF to = "stack" THEN stack + 1 ELSE stack
          /\ allocated' = IF pbuf /\ to # "stack" THEN allocated - 1
                          ELSE allocated
      BY <1>2, <2>2, Zenon DEF TC6_CB_OnRxEthernetPacket, AllocatedAfterPacket
    <3>2. to = "stack" => pbuf
      BY DEF Complete
    <3> HIDE DEF to
    <3> QED
      BY <3>1, <3>2
  <2> QED
    BY <2>1, <2>2
<1>3. CASE StackFrees
  BY <1>3 DEF StackFrees
<1>4. CASE Transmit
  BY <1>4, TransmitKeepsRx DEF rxState
<1>5. CASE ResetComplete
  BY <1>5 DEF ResetComplete
<1>6. ASSUME NEW abandon \in BOOLEAN, Reinit(abandon)
      PROVE  BufInv'
  BY <1>6 DEF Reinit
<1>7. CASE UNCHANGED vars
  BY <1>7 DEF vars
<1> QED
  BY <1>1, <1>2, <1>3, <1>4, <1>5, <1>6, <1>7 DEF Next, Receive, Reset

\* RxInv holds initially.
LEMMA RxInit == Init => RxInv /\ DeliveredIntact
<1> SUFFICES ASSUME Init PROVE RxInv /\ DeliveredIntact
  OBVIOUS
<1>1. /\ resetComplete \in BOOLEAN /\ pbuf \in BOOLEAN
      /\ rxInvalid \in BOOLEAN /\ overrun \in BOOLEAN
  BY Zenon DEF Init
<1>2. rxOff = 0 /\ rxLen = 0 /\ wrote = {} /\ last.to = "none"
  BY DEF Init
<1> QED
  BY <1>1, <1>2, LwIPConstants DEF RxInv, DeliveredIntact

\* As long as OnRxEthernetSlice has not copied past the end of a buffer, what
\* OnRxEthernetPacket hands to the raw callback or to lwIP is exactly the
\* frame TC6 has received, whatever resets and failures came before.
THEOREM ReceiveCorrect == Spec => []DeliveredIntact
  BY RxInit, RxStep, PTL DEF Spec

\* No receive buffer is leaked or freed twice, whatever path a frame takes
\* through OnRxEthernetSlice and OnRxEthernetPacket.
THEOREM BuffersAccounted == Spec => []NoRxLeak
<1>1. Init => BufInv
  <2> SUFFICES ASSUME Init PROVE BufInv
    OBVIOUS
  <2>1. pbuf \in BOOLEAN /\ ~pbuf
    BY Zenon DEF Init
  <2>2. allocated = 0 /\ stack = 0
    BY DEF Init
  <2> QED
    BY <2>1, <2>2 DEF BufInv, NoRxLeak
<1>2. BufInv => NoRxLeak
  BY DEF BufInv
<1> QED
  BY <1>1, <1>2, BufStep, PTL DEF Spec

-----------------------------------------------------------------------------
(***************************************************************************)
(* A bad frame costs only itself                                           *)
(***************************************************************************)
\* As long as neither a reset nor a lack of memory has touched the present
\* frame, every slice of it was accepted; nothing of an earlier frame is in
\* the way.
GoodInv ==
  /\ starved \in BOOLEAN /\ disturbed \in BOOLEAN
  /\ resetComplete /\ ~disturbed /\ ~starved /\ rxOff <= MaxLen =>
       /\ ~rxInvalid /\ rxLen = rxOff
       /\ rxOff > 0 => pbuf

\* A slice of an undisturbed frame goes into the buffer.
LEMMA GoodSlice ==
  ASSUME RxInv, GoodInv, NEW n \in 1 .. SliceLen, NEW got \in Allocs,
         TC6_CB_OnRxEthernetSlice(n, got)
  PROVE  GoodInv'
<1> USE LwIPConstants
<1>1. /\ rxOff' = rxOff + n /\ resetComplete' = resetComplete
      /\ disturbed' = disturbed /\ rxOff \in Nat
  BY DEF TC6_CB_OnRxEthernetSlice, RxInv
<1>2. CASE rxInvalid \/ rxOff + n > MaxLen
  <2>1. starved' = starved /\ (rxOff + n <= MaxLen => rxInvalid' = rxInvalid)
    BY <1>2 DEF TC6_CB_OnRxEthernetSlice
  <2> QED
    BY <1>1, <1>2, <2>1 DEF GoodInv
<1>3. CASE ~rxInvalid /\ rxOff + n <= MaxLen /\ ~pbuf /\ got # "ok"
  <2>1. starved' = TRUE
    BY <1>3 DEF TC6_CB_OnRxEthernetSlice
  <2>2. starved' \in BOOLEAN /\ starved'
    BY <2>1, Zenon
  <2> QED
    BY <1>1, <2>2 DEF GoodInv
<1>4. CASE ~rxInvalid /\ rxOff + n <= MaxLen /\ (pbuf \/ got = "ok")
  <2>1. /\ pbuf' = TRUE /\ rxInvalid' = rxInvalid /\ starved' = starved
        /\ rxLen' = (rxLen + n) % LenMod
    BY <1>4 DEF TC6_CB_OnRxEthernetSlice
  <2>2. rxLen = rxOff => rxLen' = rxOff'
    BY <1>1, <1>4, <2>1
  <2> QED
    BY <1>1, <1>4, <2>1, <2>2 DEF GoodInv
<1> QED
  BY <1>1, <1>2, <1>3, <1>4

\* The end of a good frame: all tests succeed.
LEMMA GoodPacket ==
  ASSUME RxInv, GoodInv, NEW success \in BOOLEAN, NEW kind \in Kinds,
         NEW err \in Errs, TC6_CB_OnRxEthernetPacket(success, kind, err)
  PROVE  GoodInv' /\ GoodFrameDelivered'
<1> USE LwIPConstants
<1>1. /\ rxOff > 0 /\ rxOff' = 0 /\ resetComplete' = resetComplete
      /\ starved' = FALSE
  BY DEF TC6_CB_OnRxEthernetPacket
<1>2. CASE ~resetComplete
  <2>1. disturbed' = disturbed /\ last'.good = FALSE
    BY <1>2 DEF TC6_CB_OnRxEthernetPacket
  <2>2. starved' \in BOOLEAN
    BY <1>1, Zenon
  <2> QED
    BY <1>1, <1>2, <2>1, <2>2 DEF GoodInv, GoodFrameDelivered
<1>3. CASE resetComplete
  <2> DEFINE to == IF Complete(success) THEN Destination(kind, err)
                   ELSE "dropped"
  <2>1. /\ rxLen' = 0 /\ rxInvalid' = FALSE /\ disturbed' = FALSE
        /\ last' = [to     |-> to,
                    intact |-> wrote = 0 .. (rxOff - 1),
                    good   |-> Good(success, kind, err)]
    BY <1>3, Zenon DEF TC6_CB_OnRxEthernetPacket, InvalidAfterPacket
  <2>2. GoodInv'
    <3>1. /\ starved' \in BOOLEAN /\ disturbed' \in BOOLEAN /\ ~rxInvalid'
      BY <1>1, <2>1, Zenon
    <3> QED
      BY <1>1, <2>1, <3>1 DEF GoodInv
  <2>3. ASSUME Good(success, kind, err) PROVE to \in {"raw", "stack"}
    <3>1. /\ success /\ ~starved /\ ~disturbed
          /\ rxOff >= MinLen /\ rxOff <= BufLen
          /\ kind = "raw" \/ (kind = "ip" /\ err = "ERR_OK")
      BY <2>3 DEF Good
    <3>2. ~rxInvalid /\ rxLen = rxOff /\ pbuf
      BY <1>1, <1>3, <3>1 DEF GoodInv, RxInv
    <3>3. Complete(success)
      BY <1>1, <3>1, <3>2 DEF Complete, RxInv
    <3> QED
      BY <3>1, <3>3 DEF Destination
  <2> HIDE DEF to
  <2> QED
    BY <2>1, <2>2, <2>3 DEF GoodFrameDelivered
<1> QED
  BY <1>2, <1>3

\* Every step preserves GoodInv and GoodFrameDelivered.
LEMMA GoodStep ==
  ASSUME RxInv, GoodInv, GoodFrameDelivered, [Next]_vars
  PROVE  GoodInv' /\ GoodFrameDelivered'
<1>1. ASSUME NEW n \in 1 .. SliceLen, NEW got \in Allocs,
             TC6_CB_OnRxEthernetSlice(n, got)
      PROVE  GoodInv' /\ GoodFrameDelivered'
  BY <1>1, GoodSlice, SliceStep DEF GoodFrameDelivered
<1>2. ASSUME NEW success \in BOOLEAN, NEW kind \in Kinds, NEW err \in Errs,
             TC6_CB_OnRxEthernetPacket(success, kind, err)
      PROVE  GoodInv' /\ GoodFrameDelivered'
  BY <1>2, GoodPacket
<1>3. CASE StackFrees \/ Transmit \/ UNCHANGED vars
  <2>1. UNCHANGED <<resetComplete, pbuf, rxLen, rxInvalid, rxOff, starved,
                    disturbed, last>>
    BY <1>3 DEF StackFrees, Transmit, AppAlloc, AppFree, lwIpOut,
                eth_hb_send_frame, OnRawTx, rxVars, vars
  <2> QED
    BY <2>1 DEF GoodInv, GoodFrameDelivered
<1>4. CASE ResetComplete
  <2>1. /\ rxLen' = 0 /\ UNCHANGED <<pbuf, rxInvalid, rxOff, starved, last>>
        /\ disturbed' = (disturbed \/ rxInvalid \/ rxOff # 0)
    BY <1>4 DEF ResetComplete
  <2>2. disturbed' \in BOOLEAN /\ (~disturbed' => ~rxInvalid' /\ rxOff' = 0)
    BY <2>1, Zenon DEF GoodInv
  <2>3. GoodInv'
    BY <2>1, <2>2 DEF GoodInv
  <2> QED
    BY <2>1, <2>3 DEF GoodFrameDelivered
<1>5. ASSUME NEW abandon \in BOOLEAN, Reinit(abandon)
      PROVE  GoodInv' /\ GoodFrameDelivered'
  <2>1. /\ ~resetComplete' /\ UNCHANGED <<disturbed, last>>
        /\ starved' \in BOOLEAN
    BY <1>5, Zenon DEF Reinit
  <2> QED
    BY <2>1 DEF GoodInv, GoodFrameDelivered
<1> QED
  BY <1>1, <1>2, <1>3, <1>4, <1>5 DEF Next, Receive, Reset

\* A frame that came whole, fits the buffer, had memory and did not come
\* across a reset is handed up by OnRxEthernetPacket, whatever happened to
\* the frames before it, short of a buffer overrun.
THEOREM GoodFramesArrive == Spec => []GoodFrameDelivered
<1>1. Init => RxInv /\ DeliveredIntact /\ GoodInv /\ GoodFrameDelivered
  <2> SUFFICES ASSUME Init
               PROVE  RxInv /\ DeliveredIntact /\ GoodInv /\ GoodFrameDelivered
    OBVIOUS
  <2>1. starved \in BOOLEAN /\ disturbed \in BOOLEAN /\ ~rxInvalid
    BY Zenon DEF Init
  <2>2. rxOff = 0 /\ rxLen = 0 /\ last.good = FALSE
    BY DEF Init
  <2> QED
    BY <2>1, <2>2, RxInit DEF GoodInv, GoodFrameDelivered
<1>2. (RxInv /\ DeliveredIntact /\ GoodInv /\ GoodFrameDelivered)
        /\ [Next]_vars
        => (RxInv /\ DeliveredIntact /\ GoodInv /\ GoodFrameDelivered)'
  BY RxStep, GoodStep
<1> QED
  BY <1>1, <1>2, PTL DEF Spec

-----------------------------------------------------------------------------
(***************************************************************************)
(* References to transmitted pbufs                                         *)
(***************************************************************************)
\* Where p is in the queue q.
Places(q, p) == {i \in DOMAIN q : q[i] = p}

RefInv ==
  /\ txq \in Seq(Pbufs \cup {"raw"}) /\ ref \in [Pbufs -> Int]
  /\ TxRefsExact

\* How often p is in the queue is a number.
LEMMA PlacesFinite ==
  ASSUME NEW S, NEW q \in Seq(S), NEW p
  PROVE  IsFiniteSet(Places(q, p)) /\ Cardinality(Places(q, p)) \in Nat
<1>1. Places(q, p) \in SUBSET (1 .. Len(q)) /\ IsFiniteSet(1 .. Len(q))
  BY FS_Interval DEF Places
<1>2. IsFiniteSet(Places(q, p))
  BY <1>1, FS_Subset
<1> QED
  BY <1>2, FS_CardinalityType

\* A frame that is added is counted once more, the others as often as before.
LEMMA PlacesAppend ==
  ASSUME NEW S, NEW q \in Seq(S), NEW e \in S, NEW p
  PROVE  Cardinality(Places(Append(q, e), p)) =
           Cardinality(Places(q, p)) + (IF e = p THEN 1 ELSE 0)
<1>1. PICK n \in Nat : n = Len(q) /\ DOMAIN q = 1 .. n
  OBVIOUS
<1>2. /\ DOMAIN Append(q, e) = 1 .. (n + 1)
      /\ \A i \in 1 .. n : Append(q, e)[i] = q[i]
      /\ Append(q, e)[n + 1] = e
  BY <1>1
<1>3. CASE e = p
  <2>1. Places(Append(q, e), p) = Places(q, p) \cup {n + 1}
    BY <1>1, <1>2, <1>3 DEF Places
  <2>2. n + 1 \notin Places(q, p)
    BY <1>1 DEF Places
  <2> QED
    BY <1>3, <2>1, <2>2, PlacesFinite, FS_AddElement
<1>4. CASE e # p
  <2>1. Places(Append(q, e), p) = Places(q, p)
    BY <1>1, <1>2, <1>4 DEF Places
  <2> QED
    BY <1>4, <2>1, PlacesFinite
<1> QED
  BY <1>3, <1>4

\* The frame that is taken is counted once less.
LEMMA PlacesTail ==
  ASSUME NEW S, NEW q \in Seq(S), q # <<>>, NEW p
  PROVE  Cardinality(Places(q, p)) =
           Cardinality(Places(Tail(q), p)) + (IF Head(q) = p THEN 1 ELSE 0)
<1> DEFINE rest == Places(q, p) \ {1}
           back == [i \in Places(Tail(q), p) |-> i + 1]
<1>1. PICK n \in Nat : n + 1 = Len(q) /\ DOMAIN q = 1 .. (n + 1)
  <2>1. Len(q) \in Nat \ {0}
    OBVIOUS
  <2> QED BY <2>1, Len(q) - 1 \in Nat
<1>2. /\ DOMAIN Tail(q) = 1 .. n /\ Tail(q) \in Seq(S)
      /\ \A i \in 1 .. n : Tail(q)[i] = q[i + 1]
      /\ Head(q) = q[1]
  BY <1>1
<1>3. /\ \A i \in Places(Tail(q), p) : i \in 1 .. n /\ i + 1 \in rest
      /\ \A j \in rest : j \in 2 .. (n + 1) /\ j - 1 \in Places(Tail(q), p)
  BY <1>1, <1>2 DEF Places
<1>4. back \in Bijection(Places(Tail(q), p), rest)
  <2>1. back \in [Places(Tail(q), p) -> rest]
    BY <1>3
  <2>2. ASSUME NEW i \in Places(Tail(q), p), NEW j \in Places(Tail(q), p),
               back[i] = back[j]
        PROVE  i = j
    BY <1>3, <2>2
  <2>3. ASSUME NEW j \in rest
        PROVE  \E i \in Places(Tail(q), p) : back[i] = j
    <3>1. j - 1 \in Places(Tail(q), p) /\ back[j - 1] = j
      BY <1>3
    <3> QED
      BY <3>1
  <2> QED
    BY <2>1, <2>2, <2>3, Fun_IsBij
<1>5. Cardinality(rest) = Cardinality(Places(Tail(q), p))
  <2>1. ExistsBijection(Places(Tail(q), p), rest)
    BY <1>4 DEF ExistsBijection
  <2> QED
    BY <1>2, <2>1, PlacesFinite, FS_Bijection
<1>6. 1 \in Places(q, p) <=> Head(q) = p
  BY <1>1, <1>2 DEF Places
<1>7. /\ Cardinality(rest) = IF 1 \in Places(q, p)
                             THEN Cardinality(Places(q, p)) - 1
                             ELSE Cardinality(Places(q, p))
      /\ Cardinality(Places(q, p)) \in Nat
  BY PlacesFinite, FS_RemoveElement
<1> QED
  BY <1>5, <1>6, <1>7

\* The receiving side leaves the queue and the references alone.
LEMMA ReceiveKeepsTx ==
  ASSUME Receive \/ Reset \/ UNCHANGED vars
  PROVE  UNCHANGED <<txq, ref, app>>
  BY DEF Receive, Reset, TC6_CB_OnRxEthernetSlice, TC6_CB_OnRxEthernetPacket,
         StackFrees, ResetComplete, Reinit, txVars, vars

\* TxRefsExact in terms of Places.
LEMMA RefsOfPlaces ==
  TxRefsExact <=>
    \A p \in Pbufs : ref[p] = (IF p \in app THEN 1 ELSE 0)
                                + Cardinality(Places(txq, p))
  BY DEF TxRefsExact, Places

\* Every step of the transmitting side preserves RefInv.
LEMMA RefStep == RefInv /\ [Next]_vars => RefInv'
<1> SUFFICES ASSUME RefInv, [Next]_vars PROVE RefInv'
  OBVIOUS
<1> DEFINE Items == Pbufs \cup {"raw"}
           Held(p) == IF p \in app THEN 1 ELSE 0
<1>0. /\ txq \in Seq(Items) /\ ref \in [Pbufs -> Int]
      /\ \A p \in Pbufs : /\ ref[p] = Held(p) + Cardinality(Places(txq, p))
                          /\ Cardinality(Places(txq, p)) \in Nat
  BY RefsOfPlaces, PlacesFinite DEF RefInv
<1>1. ASSUME txq' \in Seq(Items), ref' \in [Pbufs -> Int],
             \A p \in Pbufs : ref'[p] = (IF p \in app' THEN 1 ELSE 0)
                                          + Cardinality(Places(txq', p))
      PROVE  RefInv'
  BY <1>1 DEF RefInv, TxRefsExact, Places
<1> HIDE DEF Items
<1>2. ASSUME NEW a \in Pbufs, AppAlloc(a) PROVE RefInv'
  <2>1. /\ ref[a] = 0 /\ txq' = txq /\ app' = app \cup {a}
        /\ ref' = [ref EXCEPT ![a] = 1]
    BY <1>2 DEF AppAlloc
  <2>2. a \notin app /\ Cardinality(Places(txq, a)) = 0
    BY <1>0, <2>1
  <2>3. /\ txq' \in Seq(Items) /\ ref' \in [Pbufs -> Int]
        /\ \A p \in Pbufs : ref'[p] = IF p = a THEN 1 ELSE ref[p]
    BY <1>0, <2>1
  <2>4. \A p \in Pbufs : ref'[p] = (IF p \in app' THEN 1 ELSE 0)
                                    + Cardinality(Places(txq', p))
    <3> TAKE p \in Pbufs
    <3>1. Places(txq', p) = Places(txq, p)
      BY <2>1
    <3>2. CASE p = a
      <4>1. p \in app' /\ ref'[p] = 1 /\ Cardinality(Places(txq', p)) = 0
        BY <2>1, <2>2, <2>3, <3>1, <3>2
      <4> QED
        BY <4>1
    <3>3. CASE p # a
      <4>1. ref'[p] = ref[p] /\ (p \in app' <=> p \in app)
        BY <2>1, <2>3, <3>3
      <4> QED
        BY <1>0, <3>1, <4>1
    <3> QED
      BY <3>2, <3>3
  <2> QED
    BY <1>1, <2>3, <2>4
<1>3. ASSUME NEW a \in Pbufs, AppFree(a) PROVE RefInv'
  <2>1. /\ a \in app /\ txq' = txq /\ app' = app \ {a}
        /\ ref' = [ref EXCEPT ![a] = @ - 1]
    BY <1>3 DEF AppFree
  <2> QED
    BY <1>0, <1>1, <2>1
<1>4. ASSUME NEW a \in Pbufs, lwIpOut(a) PROVE RefInv'
  <2>1. app' = app
    BY <1>4 DEF lwIpOut
  <2>2. CASE UNCHANGED <<txq, ref>>
    BY <1>0, <1>1, <2>1, <2>2
  <2>3. CASE txq' = Append(txq, a) /\ ref' = [ref EXCEPT ![a] = @ + 1]
    <3>1. a \in Items
      BY DEF Items
    <3>2. \A p \in Pbufs : Cardinality(Places(txq', p)) =
            Cardinality(Places(txq, p)) + (IF a = p THEN 1 ELSE 0)
      BY <1>0, <2>3, <3>1, PlacesAppend
    <3>3. txq' \in Seq(Items) /\ ref' \in [Pbufs -> Int]
      BY <1>0, <2>3, <3>1
    <3>4. \A p \in Pbufs : ref'[p] = ref[p] + (IF a = p THEN 1 ELSE 0)
      BY <1>0, <2>3
    <3>5. \A p \in Pbufs : ref'[p] = (IF p \in app' THEN 1 ELSE 0)
                                      + Cardinality(Places(txq', p))
      BY <1>0, <2>1, <3>2, <3>4
    <3> QED
      BY <1>1, <3>3, <3>5
  <2> QED
    BY <1>4, <2>2, <2>3 DEF lwIpOut, RefAfterOut
<1>5. ASSUME eth_hb_send_frame PROVE RefInv'
  <2>1. txq' = Append(txq, "raw") /\ UNCHANGED <<ref, app>>
    BY <1>5 DEF eth_hb_send_frame
  <2>2. "raw" \in Items /\ \A p \in Pbufs : "raw" # p
    BY LwIPConstants DEF Items
  <2>3. \A p \in Pbufs :
          Cardinality(Places(txq', p)) = Cardinality(Places(txq, p))
    BY <1>0, <2>1, <2>2, PlacesAppend
  <2>4. txq' \in Seq(Items)
    BY <1>0, <2>1, <2>2
  <2> QED
    BY <1>0, <1>1, <2>1, <2>3, <2>4
<1>6. ASSUME OnRawTx PROVE RefInv'
  <2> DEFINE h == Head(txq)
  <2>1. /\ txq # <<>> /\ txq' = Tail(txq) /\ app' = app
        /\ ref' = IF h = "raw" THEN ref ELSE [ref EXCEPT ![h] = @ - 1]
    BY <1>6 DEF OnRawTx
  <2>2. h \in Items /\ txq' \in Seq(Items)
    BY <1>0, <2>1
  <2> HIDE DEF h
  <2>3. \A p \in Pbufs : Cardinality(Places(txq, p)) =
          Cardinality(Places(txq', p)) + (IF h = p THEN 1 ELSE 0)
    BY <1>0, <2>1, PlacesTail DEF h
  <2>4. \A p \in Pbufs : Cardinality(Places(txq', p)) \in Nat
    BY <2>2, PlacesFinite
  <2>5. /\ ref' \in [Pbufs -> Int]
        /\ \A p \in Pbufs : ref'[p] = ref[p] - (IF h = p THEN 1 ELSE 0)
    BY <1>0, <2>1, <2>2, LwIPConstants DEF Items
  <2> QED
    BY <1>0, <1>1, <2>1, <2>2, <2>3, <2>4, <2>5
<1>7. CASE Receive \/ Reset \/ UNCHANGED vars
  BY <1>0, <1>1, <1>7, ReceiveKeepsTx
<1> QED
  BY <1>2, <1>3, <1>4, <1>5, <1>6, <1>7 DEF Next, Transmit

\* A pbuf is alive exactly as long as an application holds it or TC6 has it
\* queued, however lwIpOut, OnRawTx, the raw heartbeats and the applications
\* take turns, and however often the same pbuf is queued.
THEOREM ReferencesExact == Spec => []TxRefsExact
<1>1. Init => RefInv
  <2> SUFFICES ASSUME Init PROVE RefInv
    OBVIOUS
  <2>1. /\ txq = <<>> /\ ref = [p \in Pbufs |-> 0] /\ app = {}
    BY DEF Init
  <2>2. txq \in Seq(Pbufs \cup {"raw"}) /\ ref \in [Pbufs -> Int]
    BY <2>1
  <2>3. \A p \in Pbufs : Cardinality(Places(txq, p)) = 0
    <3>1. \A p \in Pbufs : Places(txq, p) = {}
      BY <2>1 DEF Places
    <3> QED
      BY <3>1, FS_EmptySet
  <2> QED
    BY <2>1, <2>2, <2>3, RefsOfPlaces DEF RefInv
<1>2. RefInv => TxRefsExact
  BY DEF RefInv
<1> QED
  BY <1>1, <1>2, RefStep, PTL DEF Spec
=============================================================================
