----------------------------- MODULE StubProofs -----------------------------
(***************************************************************************)
(* Proofs about the two peripherals behind tc6-stub.c.                     *)
(*                                                                         *)
(* Tc6Spi: the hand-over between the service loop, the stub, the DMA       *)
(* driver and their interrupts loses nothing, for every counter width and  *)
(* every queue size.  TransferInv needs no arithmetic; EdgeInv, behind     *)
(* NoLostInterrupt, is about the distances between the three eight-bit     *)
(* counters.                                                               *)
(*                                                                         *)
(* I2cHost: the transfer that reads the MAC address does on the bus what   *)
(* was requested, and its result is right, for every length.  No theorem   *)
(* speaks of both modules.                                                 *)
(***************************************************************************)
EXTENDS Tc6Spi, I2cHost, ModArith, SequenceTheorems, FiniteSetTheorems

TransferInv == TypeOK /\ OneTransaction /\ NoLostService

\* The two halves of TypeOK, which different provers take.
Flags ==
  /\ pinLow \in BOOLEAN /\ cnfa2 \in BOOLEAN /\ cnaif \in BOOLEAN
  /\ dma0if \in BOOLEAN /\ dma1if \in BOOLEAN /\ dmaBusy \in BOOLEAN
  /\ busy \in BOOLEAN /\ needService \in BOOLEAN
  /\ spiDone \in BOOLEAN /\ more \in BOOLEAN

Ranges ==
  /\ chunks \in 0 .. ChunkMax
  /\ isr \in {"none", "counted", "cleared"}
  /\ hw \in {"idle", "armed", "clocking", "sent"}
  /\ intIn \in 0 .. (IntMod - 1)
  /\ intOut \in 0 .. (IntMod - 1)
  /\ intReported \in 0 .. (IntMod - 1)
  /\ txq \in 0 .. TxMax
  /\ pc \in PCs

\* TransferInv holds initially.
THEOREM TransferInit == Init => TransferInv
<1> SUFFICES ASSUME Init PROVE TransferInv
  OBVIOUS
<1>1. TypeOK
  <2>1. Flags
    BY Zenon DEF Init, Flags
  <2>2. Ranges
    BY SpiConstants DEF Init, Ranges, PCs
  <2> QED BY <2>1, <2>2 DEF TypeOK, Flags, Ranges
<1>2. OneTransaction
  BY DEF Init, OneTransaction, Starting
<1>3. NoLostService
  BY DEF Init, NoLostService
<1> QED
  BY <1>1, <1>2, <1>3 DEF TransferInv

\* Every step preserves TransferInv.
THEOREM TransferStep == TransferInv /\ [Next]_vars => TransferInv'
<1> SUFFICES ASSUME TypeOK, OneTransaction, NoLostService, [Next]_vars
             PROVE  TypeOK' /\ OneTransaction' /\ NoLostService'
  BY DEF TransferInv
<1> USE SpiConstants DEF chipVars, dmaVars, intVars, tc6Vars, Starting
<1>1. CASE ChunkArrives
  <2>1. TypeOK'
    <3>1. Flags'
      BY <1>1, Zenon DEF TypeOK, Flags, ChunkArrives
    <3>2. Ranges'
      BY <1>1 DEF TypeOK, Ranges, PCs, ChunkArrives
    <3> QED BY <3>1, <3>2 DEF TypeOK, Flags, Ranges
  <2>2. OneTransaction'
    BY <1>1 DEF TypeOK, OneTransaction, ChunkArrives
  <2>3. NoLostService'
    BY <1>1 DEF TypeOK, OneTransaction, NoLostService, ChunkArrives
  <2> QED BY <2>1, <2>2, <2>3
<1>2. CASE TransferBegins
  <2>1. TypeOK'
    <3>1. Flags'
      BY <1>2, Zenon DEF TypeOK, Flags, TransferBegins
    <3>2. Ranges'
      BY <1>2 DEF TypeOK, Ranges, PCs, TransferBegins
    <3> QED BY <3>1, <3>2 DEF TypeOK, Flags, Ranges
  <2>2. OneTransaction'
    BY <1>2 DEF TypeOK, OneTransaction, TransferBegins
  <2>3. NoLostService'
    BY <1>2 DEF TypeOK, OneTransaction, NoLostService, TransferBegins
  <2> QED BY <2>1, <2>2, <2>3
<1>3. CASE TransmitDone
  <2>1. TypeOK'
    <3>1. Flags'
      BY <1>3, Zenon DEF TypeOK, Flags, TransmitDone
    <3>2. Ranges'
      BY <1>3 DEF TypeOK, Ranges, PCs, TransmitDone
    <3> QED BY <3>1, <3>2 DEF TypeOK, Flags, Ranges
  <2>2. OneTransaction'
    BY <1>3 DEF TypeOK, OneTransaction, TransmitDone
  <2>3. NoLostService'
    BY <1>3 DEF TypeOK, OneTransaction, NoLostService, TransmitDone
  <2> QED BY <2>1, <2>2, <2>3
<1>4. CASE ReceiveDone
  <2>1. TypeOK'
    <3>1. Flags'
      <4>1. (chunks' > 0) \in BOOLEAN
        OBVIOUS
      <4> QED
        BY <1>4, <4>1, Zenon DEF TypeOK, Flags, ReceiveDone
    <3>2. Ranges'
      BY <1>4 DEF TypeOK, Ranges, PCs, ReceiveDone
    <3> QED BY <3>1, <3>2 DEF TypeOK, Flags, Ranges
  <2>2. OneTransaction'
    BY <1>4 DEF TypeOK, OneTransaction, ReceiveDone
  <2>3. NoLostService'
    BY <1>4 DEF TypeOK, OneTransaction, NoLostService, ReceiveDone
  <2> QED BY <2>1, <2>2, <2>3
<1>5. CASE IntHandler
  <2>1. TypeOK'
    <3>1. Flags'
      BY <1>5, Zenon DEF TypeOK, Flags, IntHandler
    <3>2. Ranges'
      BY <1>5 DEF TypeOK, Ranges, PCs, IntHandler
    <3> QED BY <3>1, <3>2 DEF TypeOK, Flags, Ranges
  <2>2. OneTransaction'
    BY <1>5 DEF TypeOK, OneTransaction, IntHandler
  <2>3. NoLostService'
    BY <1>5 DEF TypeOK, OneTransaction, NoLostService, IntHandler
  <2> QED BY <2>1, <2>2, <2>3
<1>6. CASE ClearCNFA2
  <2>1. TypeOK'
    <3>1. Flags'
      BY <1>6, Zenon DEF TypeOK, Flags, ClearCNFA2
    <3>2. Ranges'
      BY <1>6 DEF TypeOK, Ranges, PCs, ClearCNFA2
    <3> QED BY <3>1, <3>2 DEF TypeOK, Flags, Ranges
  <2>2. OneTransaction'
    BY <1>6, Zenon DEF TypeOK, OneTransaction, ClearCNFA2
  <2>3. NoLostService'
    BY <1>6 DEF TypeOK, OneTransaction, NoLostService, ClearCNFA2
  <2> QED BY <2>1, <2>2, <2>3
<1>7. CASE ClearCNAIF
  <2>1. TypeOK'
    <3>1. Flags'
      BY <1>7, Zenon DEF TypeOK, Flags, ClearCNAIF
    <3>2. Ranges'
      BY <1>7 DEF TypeOK, Ranges, PCs, ClearCNAIF
    <3> QED BY <3>1, <3>2 DEF TypeOK, Flags, Ranges
  <2>2. OneTransaction'
    BY <1>7 DEF TypeOK, OneTransaction, ClearCNAIF
  <2>3. NoLostService'
    BY <1>7 DEF TypeOK, OneTransaction, NoLostService, ClearCNAIF
  <2> QED BY <2>1, <2>2, <2>3
<1>8. CASE DMA0Interrupt
  <2>1. TypeOK'
    <3>1. Flags'
      BY <1>8, Zenon DEF TypeOK, Flags, DMA0Interrupt
    <3>2. Ranges'
      BY <1>8 DEF TypeOK, Ranges, PCs, DMA0Interrupt
    <3> QED BY <3>1, <3>2 DEF TypeOK, Flags, Ranges
  <2>2. OneTransaction'
    BY <1>8 DEF TypeOK, OneTransaction, DMA0Interrupt
  <2>3. NoLostService'
    BY <1>8 DEF TypeOK, OneTransaction, NoLostService, DMA0Interrupt
  <2> QED BY <2>1, <2>2, <2>3
<1>9. CASE DMA1Interrupt
  <2>1. TypeOK'
    <3>1. Flags'
      BY <1>9, Zenon DEF TypeOK, Flags, DMA1Interrupt
    <3>2. Ranges'
      BY <1>9 DEF TypeOK, Ranges, PCs, DMA1Interrupt
    <3> QED BY <3>1, <3>2 DEF TypeOK, Flags, Ranges
  <2>2. OneTransaction'
    BY <1>9 DEF TypeOK, OneTransaction, DMA1Interrupt
  <2>3. NoLostService'
    BY <1>9 DEF TypeOK, OneTransaction, NoLostService, DMA1Interrupt
  <2> QED BY <2>1, <2>2, <2>3
<1>10. CASE QueueFrame
  <2>1. TypeOK'
    <3>1. Flags'
      BY <1>10, Zenon DEF TypeOK, Flags, QueueFrame
    <3>2. Ranges'
      BY <1>10 DEF TypeOK, Ranges, PCs, QueueFrame
    <3> QED BY <3>1, <3>2 DEF TypeOK, Flags, Ranges
  <2>2. OneTransaction'
    BY <1>10 DEF TypeOK, OneTransaction, QueueFrame
  <2>3. NoLostService'
    BY <1>10 DEF TypeOK, OneTransaction, NoLostService, QueueFrame
  <2> QED BY <2>1, <2>2, <2>3
<1>11. CASE TC6Stub_IntActive
  <2>1. TypeOK'
    <3>1. Flags'
      BY <1>11, Zenon DEF TypeOK, Flags, TC6Stub_IntActive
    <3>2. Ranges'
      BY <1>11 DEF TypeOK, Ranges, PCs, TC6Stub_IntActive
    <3> QED BY <3>1, <3>2 DEF TypeOK, Flags, Ranges
  <2>2. OneTransaction'
    BY <1>11 DEF TypeOK, OneTransaction, TC6Stub_IntActive
  <2>3. NoLostService'
    BY <1>11 DEF TypeOK, OneTransaction, NoLostService, TC6Stub_IntActive
  <2> QED BY <2>1, <2>2, <2>3
<1>12. CASE CheckNeedService
  <2>1. TypeOK'
    <3>1. Flags'
      BY <1>12, Zenon DEF TypeOK, Flags, CheckNeedService
    <3>2. Ranges'
      BY <1>12 DEF TypeOK, Ranges, PCs, CheckNeedService
    <3> QED BY <3>1, <3>2 DEF TypeOK, Flags, Ranges
  <2>2. OneTransaction'
    BY <1>12 DEF TypeOK, OneTransaction, CheckNeedService
  <2>3. NoLostService'
    BY <1>12 DEF TypeOK, OneTransaction, NoLostService, CheckNeedService
  <2> QED BY <2>1, <2>2, <2>3
<1>13. CASE ClearNeedService
  <2>1. TypeOK'
    <3>1. Flags'
      BY <1>13, Zenon DEF TypeOK, Flags, ClearNeedService
    <3>2. Ranges'
      BY <1>13 DEF TypeOK, Ranges, PCs, ClearNeedService
    <3> QED BY <3>1, <3>2 DEF TypeOK, Flags, Ranges
  <2>2. OneTransaction'
    BY <1>13 DEF TypeOK, OneTransaction, ClearNeedService
  <2>3. NoLostService'
    BY <1>13 DEF TypeOK, OneTransaction, NoLostService, ClearNeedService
  <2> QED BY <2>1, <2>2, <2>3
<1>14. CASE ServiceInt
  <2>1. TypeOK'
    <3>1. Flags'
      BY <1>14, Zenon DEF TypeOK, Flags, ServiceInt, TC6_Service, WorkToDo
    <3>2. Ranges'
      BY <1>14 DEF TypeOK, Ranges, PCs, ServiceInt, TC6_Service, WorkToDo
    <3> QED BY <3>1, <3>2 DEF TypeOK, Flags, Ranges
  <2>2. OneTransaction'
    BY <1>14 DEF TypeOK, OneTransaction, ServiceInt, TC6_Service, WorkToDo
  <2>3. NoLostService'
    BY <1>14
    DEF TypeOK, OneTransaction, NoLostService, ServiceInt, TC6_Service,
        WorkToDo
  <2> QED BY <2>1, <2>2, <2>3
<1>15. CASE ServiceNeed
  <2>1. TypeOK'
    <3>1. Flags'
      BY <1>15, Zenon DEF TypeOK, Flags, ServiceNeed, TC6_Service, WorkToDo
    <3>2. Ranges'
      BY <1>15 DEF TypeOK, Ranges, PCs, ServiceNeed, TC6_Service, WorkToDo
    <3> QED BY <3>1, <3>2 DEF TypeOK, Flags, Ranges
  <2>2. OneTransaction'
    BY <1>15 DEF TypeOK, OneTransaction, ServiceNeed, TC6_Service, WorkToDo
  <2>3. NoLostService'
    BY <1>15
    DEF TypeOK, OneTransaction, NoLostService, ServiceNeed,
        TC6_Service, WorkToDo
  <2> QED BY <2>1, <2>2, <2>3
<1>16. CASE StartInt
  <2>1. TypeOK'
    <3>1. Flags'
      BY <1>16, Zenon DEF TypeOK, Flags, StartInt, dmaSpiStartTransaction
    <3>2. Ranges'
      BY <1>16 DEF TypeOK, Ranges, PCs, StartInt, dmaSpiStartTransaction
    <3> QED BY <3>1, <3>2 DEF TypeOK, Flags, Ranges
  <2>2. OneTransaction'
    BY <1>16 DEF TypeOK, OneTransaction, StartInt, dmaSpiStartTransaction
  <2>3. NoLostService'
    BY <1>16
    DEF TypeOK, OneTransaction, NoLostService, StartInt,
        dmaSpiStartTransaction
  <2> QED BY <2>1, <2>2, <2>3
<1>17. CASE StartNeed
  <2>1. TypeOK'
    <3>1. Flags'
      BY <1>17, Zenon DEF TypeOK, Flags, StartNeed, dmaSpiStartTransaction
    <3>2. Ranges'
      BY <1>17 DEF TypeOK, Ranges, PCs, StartNeed, dmaSpiStartTransaction
    <3> QED BY <3>1, <3>2 DEF TypeOK, Flags, Ranges
  <2>2. OneTransaction'
    BY <1>17 DEF TypeOK, OneTransaction, StartNeed, dmaSpiStartTransaction
  <2>3. NoLostService'
    BY <1>17
    DEF TypeOK, OneTransaction, NoLostService, StartNeed,
        dmaSpiStartTransaction
  <2> QED BY <2>1, <2>2, <2>3
<1>18. CASE ReleaseIntTest
  <2>1. TypeOK'
    <3>1. Flags'
      BY <1>18, Zenon DEF TypeOK, Flags, ReleaseIntTest
    <3>2. Ranges'
      BY <1>18 DEF TypeOK, Ranges, PCs, ReleaseIntTest
    <3> QED BY <3>1, <3>2 DEF TypeOK, Flags, Ranges
  <2>2. OneTransaction'
    BY <1>18 DEF TypeOK, OneTransaction, ReleaseIntTest
  <2>3. NoLostService'
    BY <1>18 DEF TypeOK, OneTransaction, NoLostService, ReleaseIntTest
  <2> QED BY <2>1, <2>2, <2>3
<1>19. CASE ReleaseIntStore
  <2>1. TypeOK'
    <3>1. Flags'
      BY <1>19, Zenon DEF TypeOK, Flags, ReleaseIntStore
    <3>2. Ranges'
      BY <1>19 DEF TypeOK, Ranges, PCs, ReleaseIntStore
    <3> QED BY <3>1, <3>2 DEF TypeOK, Flags, Ranges
  <2>2. OneTransaction'
    BY <1>19 DEF TypeOK, OneTransaction, ReleaseIntStore
  <2>3. NoLostService'
    BY <1>19 DEF TypeOK, OneTransaction, NoLostService, ReleaseIntStore
  <2> QED BY <2>1, <2>2, <2>3
<1>20. CASE UNCHANGED vars
  BY <1>20 DEF vars, TypeOK, PCs, OneTransaction, NoLostService
<1> QED
  BY <1>1, <1>2, <1>3, <1>4, <1>5, <1>6, <1>7, <1>8, <1>9, <1>10, <1>11,
      <1>12, <1>13, <1>14, <1>15, <1>16, <1>17, <1>18, <1>19, <1>20
  DEF Next, Hardware, Interrupts, MainLoop, Environment

\* Distance from counter b up to counter a.
Dist(a, b) == IF a >= b THEN a - b ELSE a - b + IntMod

\* The flagged edge will be counted.
Pending == isr = "none" /\ cnaif /\ cnfa2

\* The counters are in the order intOut, intReported, intIn around the
\* circle, with room for the edge that is flagged; inside _CNAInterrupt intIn
\* has left intOut behind; and while TC6Stub_ReleaseInt is about to store
\* intReported, an edge that came after it looked at the pin is still
\* flagged or makes intIn differ from intReported.
EdgeInv ==
  /\ Dist(intIn, intOut) + (IF cnaif /\ isr = "none" THEN 1 ELSE 0) <= MaxEdges
  /\ Dist(intIn, intReported) <= Dist(intIn, intOut)
  /\ isr = "none" /\ cnaif => cnfa2
  /\ isr # "none" => intIn # intOut
  /\ pc = "store" /\ isr # "none" => intIn # intReported
  /\ pc = "store" /\ pinLow => Pending \/ intIn # intReported
  /\ NoLostInterrupt

\* The transfer protocol: types, one transaction at a time, and no work of
\* the TC6 library without someone coming for it.
THEOREM TransferCorrect == Spec => [](TypeOK /\ OneTransaction /\ NoLostService)
<1>1. Init => TransferInv
  BY TransferInit
<1>2. TransferInv /\ [Next]_vars => TransferInv'
  BY TransferStep
<1>3. TransferInv => TypeOK /\ OneTransaction /\ NoLostService
  BY DEF TransferInv
<1> QED
  BY <1>1, <1>2, <1>3, PTL DEF Spec

\* The flags, counters and buffers of the transfer path keep their ranges.
THEOREM TransferTypes == Spec => []TypeOK
  BY TransferCorrect, PTL

\* Whenever the TC6 library has work to do, a request stands in
\* tc6NeedService, a transfer is under way or TC6LwIP_Service is at it,
\* whatever the interrupts interleave with.
THEOREM ServiceNotLost == Spec => []NoLostService
  BY TransferCorrect, PTL

-----------------------------------------------------------------------------
\* The unsigned difference of two counters is their distance.
LEMMA DistIsMod ==
  ASSUME NEW a \in 0 .. (IntMod - 1), NEW b \in 0 .. (IntMod - 1)
  PROVE  (a - b) % IntMod = Dist(a, b)
<1>1. CASE a >= b
  <2>1. a - b \in 0 .. (IntMod - 1)
    BY <1>1, SpiConstants
  <2> QED BY <1>1, <2>1, ModSmall, SpiConstants DEF Dist
<1>2. CASE ~(a >= b)
  <2>1. a - b + IntMod \in 0 .. (IntMod - 1)
    BY <1>2, SpiConstants
  <2>2. (a - b + IntMod) % IntMod = a - b + IntMod
    BY <2>1, ModSmall, SpiConstants
  <2>3. ((a - b) + IntMod * 1) % IntMod = (a - b) % IntMod
    BY ModShift, SpiConstants
  <2>4. (a - b) + IntMod * 1 = a - b + IntMod
    BY SpiConstants
  <2> QED BY <1>2, <2>2, <2>3, <2>4 DEF Dist
<1> QED
  BY <1>1, <1>2

\* The eight-bit increment.
LEMMA Increment ==
  ASSUME NEW a \in 0 .. (IntMod - 1)
  PROVE  (a + 1) % IntMod = IF a = IntMod - 1 THEN 0 ELSE a + 1
<1>1. CASE a = IntMod - 1
  <2>1. a + 1 = IntMod * 1 + 0 /\ 0 \in 0 .. (IntMod - 1) /\ a + 1 \in Int
    BY <1>1, SpiConstants
  <2> QED BY <1>1, <2>1, DivModUnique, SpiConstants
<1>2. CASE a # IntMod - 1
  <2>1. a + 1 \in 0 .. (IntMod - 1)
    BY <1>2, SpiConstants
  <2> QED BY <1>2, <2>1, ModSmall, SpiConstants
<1> QED
  BY <1>1, <1>2

\* EdgeInv holds initially.
THEOREM EdgeInit == Init => EdgeInv
  BY SpiConstants DEF Init, EdgeInv, Dist, Pending, NoLostInterrupt

\* Every step preserves EdgeInv.
THEOREM EdgeStep == TypeOK /\ EdgeInv /\ [Next]_vars => EdgeInv'
<1> SUFFICES ASSUME TypeOK, EdgeInv, [Next]_vars
             PROVE  EdgeInv'
  OBVIOUS
<1> USE SpiConstants DEF chipVars, dmaVars, intVars, tc6Vars, Pending
<1>0. Ranges
  BY DEF TypeOK, Ranges
<1>1. CASE ChunkArrives
  BY <1>0, <1>1, DistIsMod
  DEF EdgeInv, NoLostInterrupt, Ranges, Dist, ChunkArrives, Unreleased
<1>2. CASE TransferBegins
  BY <1>0, <1>2 DEF EdgeInv, NoLostInterrupt, Ranges, Dist, TransferBegins
<1>3. CASE TransmitDone
  BY <1>0, <1>3 DEF EdgeInv, NoLostInterrupt, Ranges, Dist, TransmitDone
<1>4. CASE ReceiveDone
  BY <1>0, <1>4 DEF EdgeInv, NoLostInterrupt, Ranges, Dist, ReceiveDone
<1>5. CASE IntHandler
  BY <1>0, <1>5, Increment
  DEF EdgeInv, NoLostInterrupt, Ranges, Dist, IntHandler
<1>6. CASE ClearCNFA2
  BY <1>0, <1>6 DEF EdgeInv, NoLostInterrupt, Ranges, Dist, ClearCNFA2
<1>7. CASE ClearCNAIF
  BY <1>0, <1>7 DEF EdgeInv, NoLostInterrupt, Ranges, Dist, ClearCNAIF
<1>8. CASE DMA0Interrupt
  BY <1>0, <1>8 DEF EdgeInv, NoLostInterrupt, Ranges, Dist, DMA0Interrupt
<1>9. CASE DMA1Interrupt
  BY <1>0, <1>9 DEF EdgeInv, NoLostInterrupt, Ranges, Dist, DMA1Interrupt
<1>10. CASE QueueFrame
  BY <1>0, <1>10 DEF EdgeInv, NoLostInterrupt, Ranges, Dist, QueueFrame
<1>11. CASE TC6Stub_IntActive
  BY <1>0, <1>11 DEF EdgeInv, NoLostInterrupt, Ranges, Dist, TC6Stub_IntActive
<1>12. CASE CheckNeedService
  BY <1>0, <1>12 DEF EdgeInv, NoLostInterrupt, Ranges, Dist, CheckNeedService
<1>13. CASE ClearNeedService
  BY <1>0, <1>13 DEF EdgeInv, NoLostInterrupt, Ranges, Dist, ClearNeedService
<1>14. CASE ServiceInt
  BY <1>0, <1>14
  DEF EdgeInv, NoLostInterrupt, Ranges, Dist, ServiceInt, TC6_Service
<1>15. CASE ServiceNeed
  BY <1>0, <1>15
  DEF EdgeInv, NoLostInterrupt, Ranges, Dist, ServiceNeed, TC6_Service
<1>16. CASE StartInt
  BY <1>0, <1>16
  DEF EdgeInv, NoLostInterrupt, Ranges, Dist, StartInt,
      dmaSpiStartTransaction
<1>17. CASE StartNeed
  BY <1>0, <1>17
  DEF EdgeInv, NoLostInterrupt, Ranges, Dist, StartNeed,
      dmaSpiStartTransaction
<1>18. CASE ReleaseIntTest
  BY <1>0, <1>18 DEF EdgeInv, NoLostInterrupt, Ranges, Dist, ReleaseIntTest
<1>19. CASE ReleaseIntStore
  BY <1>0, <1>19 DEF EdgeInv, NoLostInterrupt, Ranges, Dist, ReleaseIntStore
<1>20. CASE UNCHANGED vars
  BY <1>20 DEF vars, EdgeInv, NoLostInterrupt, Dist
<1> QED
  BY <1>1, <1>2, <1>3, <1>4, <1>5, <1>6, <1>7, <1>8, <1>9, <1>10, <1>11,
      <1>12, <1>13, <1>14, <1>15, <1>16, <1>17, <1>18, <1>19, <1>20
  DEF Next, Hardware, Interrupts, MainLoop, Environment

\* While INT is low its edge is flagged or counted and not yet acknowledged,
\* whatever the interrupts interleave with, as long as fewer than IntMod
\* edges come between two acknowledgements.
THEOREM InterruptNotLost == Spec => []NoLostInterrupt
<1>1. Init => TypeOK /\ EdgeInv
  BY TransferInit, EdgeInit DEF TransferInv
<1>2. EdgeInv => NoLostInterrupt
  BY DEF EdgeInv
<1>3. TypeOK /\ EdgeInv /\ [Next]_vars => EdgeInv'
  BY EdgeStep
<1> QED
  BY <1>1, <1>2, <1>3, TransferCorrect, PTL DEF Spec

-----------------------------------------------------------------------------
(***************************************************************************)
(* The I2C host                                                            *)
(*                                                                         *)
(* The invariant has three parts.  HostInv: one operation at a time, and   *)
(* the driver waits for nothing that was not started.  BytesInv: the bytes *)
(* stored are those received.  ProgressInv: the driver's state and its two *)
(* counters say how much of the frame is on the wire, until a refusal or a *)
(* collision ends the transfer.  No bound on the lengths is needed.        *)
(***************************************************************************)
\* What the variables range over.
Kinds == {"start", "restart", "stop", "receive", "ack", "high", "low", "data"}

Ops == Kinds \X Int

Requests == [write : Nat, read : Nat, ten : BOOLEAN]

HostStates == {"IDLE", "SEND_10BIT_HIGHER_ADDRESS", "SEND_10BIT_LOWER_ADDRESS",
               "SEND_7BIT_ADDRESS", "SEND_DATA", "CHECK_ADDRESS_ACK",
               "RECEIVE_DATA", "RECEIVE_WAIT_ACK", "STOP"}

\* The Boolean parts of the state, and the others.
HostFlags ==
  /\ isWriteMode \in BOOLEAN /\ is10BitAddressMode \in BOOLEAN
  /\ I2C1IF \in BOOLEAN /\ BCL \in BOOLEAN /\ IWCOL \in BOOLEAN
  /\ RBF \in BOOLEAN /\ S \in BOOLEAN /\ P \in BOOLEAN
  /\ i2cBusy \in BOOLEAN

HostRanges ==
  /\ state \in HostStates
  /\ error \in {"NONE", "NACK", "BUS_COLLISION"}
  /\ writeDataCount \in Nat /\ readDataCount \in Int
  /\ readData \in Seq(Nat)
  /\ ACKSTAT \in {0, 1}
  /\ op \in Ops \cup {Idle}
  /\ macpc \in {"idle", "poll", "poll2", "get"}
  /\ request \in Requests
  /\ success \in {"none", "yes", "no"}
  /\ wire \in Seq(Ops \X {0, 1})

Polling == macpc \in {"poll", "poll2"}

\* One operation at a time: the driver is called again only when the last
\* operation is over, and waits for nothing that was not started.
BusInv ==
  /\ ~IWCOL
  /\ op # Idle => ~I2C1IF /\ Polling
  /\ I2C1IF => Polling
  /\ BCL => I2C1IF
  /\ RBF => I2C1IF /\ ~BCL /\ state = "RECEIVE_DATA"
  /\ op # Idle /\ op # Start => S /\ ~P
  /\ state = "IDLE" /\ op # Idle => op = Stop
  /\ op = Stop => state \in {"IDLE", "STOP"}
  /\ op # Idle => (op = Receive <=> state = "RECEIVE_DATA")
  /\ state = "RECEIVE_DATA" /\ op = Idle /\ ~BCL => RBF
  /\ state # "IDLE" /\ op = Idle => I2C1IF
  /\ state # "IDLE" /\ op = Idle /\ ~BCL => (S /\ ~P) \/ (state = "STOP" /\ P)
  /\ ~Polling => state = "IDLE" /\ op = Idle

HostInv == HostFlags /\ HostRanges /\ BusInv

\* The bytes stored are the client's, in order.
BytesInv ==
  /\ \A i \in 1 .. Len(readData) : readData[i] = i
  /\ NextByte = Len(readData) + IF RBF THEN 1 ELSE 0

\* Bytes of a write address, operations up to the first byte read, and
\* operations of the whole transfer.
AddressLen(r) == IF r.ten THEN 2 ELSE 1

Before(r) == IF r.write = 0 THEN 2 ELSE 3 + AddressLen(r) + r.write

Total(r) == IF r.read > 0 THEN Before(r) + 2 * r.read + 1
            ELSE IF r.write > 0 THEN 2 + AddressLen(r) + r.write ELSE 2

\* The operations carried out, the last k excepted, are those of the frame.
Follows(k) ==
  /\ Len(wire) - k <= Total(request)
  /\ \A i \in 1 .. (Len(wire) - k) : wire[i][1] = Frame(request)[i]

\* Only operation number k was refused, if it is one.
RefusedOnly(k) == \A i \in 1 .. Len(wire) : wire[i][2] = IF i = k THEN 1 ELSE 0

\* The states in which the driver's next step depends on the client's answer.
Answers == {"SEND_10BIT_LOWER_ADDRESS", "SEND_DATA", "CHECK_ADDRESS_ACK"}

\* The driver's place in the transfer of r, after n operations were started.
\* AtStart: the first address comes next.  AtRestart: the second one.
AtStart(r) == writeDataCount = r.write /\ isWriteMode = (r.write > 0)

AtRestart(n, r) ==
  /\ n = 2 + AddressLen(r) + r.write /\ r.write > 0 /\ r.read > 0
  /\ writeDataCount = 0 /\ isWriteMode = FALSE

Place(n, r) ==
  \/ state = "IDLE" /\ n = 0 /\ AtStart(r)
  \/ state = AddressState(r.ten) /\ ((n = 1 /\ AtStart(r)) \/ AtRestart(n, r))
  \/ /\ state = "SEND_10BIT_LOWER_ADDRESS" /\ n = 2 /\ r.ten
     /\ isWriteMode = TRUE /\ r.write > 0 /\ writeDataCount = r.write
  \/ /\ state = "SEND_DATA" /\ n = 1 + AddressLen(r) + r.write - writeDataCount
     /\ isWriteMode = TRUE /\ r.write > 0 /\ writeDataCount <= r.write
  \/ /\ state = "CHECK_ADDRESS_ACK" /\ n = Before(r) /\ r.read > 0
     /\ isWriteMode = FALSE /\ writeDataCount = 0

\* The same once the first byte was asked for.
ReadPlace(n, r) ==
  /\ writeDataCount = 0
  /\ \/ /\ state = "RECEIVE_DATA" /\ readDataCount > 0
        /\ n = Before(r) + 2 * (r.read - readDataCount) + 1
     \/ /\ state = "RECEIVE_WAIT_ACK" /\ readDataCount > 0
        /\ n = Before(r) + 2 * (r.read - readDataCount)
     \/ /\ state = "STOP" /\ readDataCount = 0
        /\ n = IF r.read = 0 THEN Total(r) ELSE Total(r) - 1
     \/ state = "IDLE" /\ readDataCount = 0 /\ n = Total(r)

\* Operations started.
Started == Len(wire) + IF op = Idle THEN 0 ELSE 1

\* All went well so far.  The driver is idle before it has sent the Start
\* condition, and already while it waits for the Stop condition of a read.
Running ==
  /\ error = "NONE" /\ ~BCL
  /\ op # Idle \/ I2C1IF
  /\ is10BitAddressMode = request.ten
  /\ Follows(0)
  /\ op # Idle => /\ Len(wire) < Total(request)
                  /\ op = Frame(request)[Len(wire) + 1]
                  /\ Sends(op) <=> state \in Answers
  /\ state \in Answers /\ op = Idle => Len(wire) > 0
  /\ RefusedOnly(IF state \in Answers /\ op = Idle /\ ACKSTAT = 1
                 THEN Len(wire) ELSE 0)
  /\ state = "STOP" =>
       (request.read = 0 <=> IF op = Idle THEN P ELSE op = Stop)
  /\ Len(readData) = request.read - readDataCount
  /\ \/ readDataCount = request.read /\ Place(Started, request)
     \/ ReadPlace(Started, request)

\* Cut off by a collision.
Cut ==
  /\ Follows(0)
  /\ \/ Len(wire) < Total(request) /\ RefusedOnly(0)
     \/ Len(wire) > 0 /\ RefusedOnly(Len(wire))

\* Stopped after a refusal.
Stopped ==
  /\ Len(wire) > 1 /\ Follows(1) /\ RefusedOnly(Len(wire) - 1)
  /\ wire[Len(wire)][1] = Stop

\* On the way there: the Stop condition is under way or just over.
Refusing ==
  /\ error = "NACK" /\ state = "STOP" /\ ~BCL
  /\ \/ op = Stop /\ Len(wire) > 0 /\ Follows(0) /\ RefusedOnly(Len(wire))
     \/ op = Idle /\ P /\ Stopped

\* From Start to Stop.
Complete ==
  /\ Len(wire) = Total(request) /\ Follows(0) /\ RefusedOnly(0)
  /\ Len(readData) = request.read

\* Nothing happens any more before main fetches the error, which tells the
\* three endings apart.
Over ==
  /\ state = "IDLE" /\ op = Idle /\ ~I2C1IF
  /\ \/ error = "BUS_COLLISION" /\ Cut
     \/ error = "NACK" /\ Stopped
     \/ error = "NONE" /\ Complete

\* A transfer is running, cut off, being refused or over; main has fetched
\* the result once it is idle again.
ProgressInv ==
  IF macpc = "idle" THEN error = "NONE" /\ WireFollowsRequest /\ ResultRight
  ELSE /\ request \in Transfers /\ success = "none"
       /\ Running \/ (BCL /\ Cut) \/ Refusing \/ Over

-----------------------------------------------------------------------------
(***************************************************************************)
(* What a transfer looks like on the bus                                   *)
(***************************************************************************)
\* Operations of different kinds differ.
LEMMA OpsDiffer ==
  /\ Start # Idle /\ ReStart # Idle /\ Stop # Idle
  /\ Receive # Idle
  /\ Start # Stop /\ ReStart # Stop /\ Receive # Stop
  /\ Start # Receive /\ ReStart # Receive
  /\ ~Sends(Start) /\ ~Sends(ReStart) /\ ~Sends(Stop)
  /\ ~Sends(Receive)
  /\ \A n \in Int :
       /\ Ack(n) \notin {Idle, Stop, Receive} /\ ~Sends(Ack(n))
       /\ High(n) \notin {Idle, Stop, Receive} /\ Sends(High(n))
       /\ Low(n) \notin {Idle, Stop, Receive} /\ Sends(Low(n))
       /\ Data(n) \notin {Idle, Stop, Receive} /\ Sends(Data(n))
  BY DEF Start, ReStart, Stop, Receive, Ack, High, Low, Data,
         Idle, Sends

\* Members of a concatenation, counted from either part.
LEMMA Joined ==
  ASSUME NEW s \in Seq(Ops), NEW t \in Seq(Ops)
  PROVE  /\ s \o t \in Seq(Ops)
         /\ Len(s \o t) = Len(s) + Len(t)
         /\ \A i \in 1 .. Len(s) : (s \o t)[i] = s[i]
         /\ \A i \in 1 .. Len(t) : (s \o t)[Len(s) + i] = t[i]
<1>1. Len(s) \in Nat /\ Len(t) \in Nat
  BY LenProperties
<1>2. /\ s \o t \in Seq(Ops)
      /\ Len(s \o t) = Len(s) + Len(t)
      /\ \A i \in 1 .. Len(s) + Len(t) : (s \o t)[i] =
            IF i <= Len(s) THEN s[i] ELSE t[i - Len(s)]
  BY ConcatProperties
<1>3. ASSUME NEW i \in 1 .. Len(t)
      PROVE  (s \o t)[Len(s) + i] = t[i]
  <2>1. Len(s) + i \in 1 .. Len(s) + Len(t) /\ ~(Len(s) + i <= Len(s))
        /\ (Len(s) + i) - Len(s) = i
    BY <1>1
  <2> QED BY <1>2, <2>1
<1> QED BY <1>1, <1>2, <1>3

\* The operations, typed.
LEMMA OpTypes ==
  /\ Start \in Ops /\ ReStart \in Ops /\ Stop \in Ops /\ Receive \in Ops
  /\ \A n \in Int : /\ Ack(n) \in Ops /\ High(n) \in Ops
                    /\ Low(n) \in Ops /\ Data(n) \in Ops
  BY DEF Start, ReStart, Stop, Receive, Ack, High, Low, Data,
         Ops, Kinds

\* The frame of a request, place by place.
FrameShape(r, f) ==
  /\ f \in Seq(Ops) /\ Len(f) = Total(r)
  /\ f[1] = Start /\ f[Total(r)] = Stop
  /\ r.write > 0 /\ r.ten => f[2] = High(0) /\ f[3] = Low(0)
  /\ r.write > 0 /\ ~r.ten => f[2] = Low(0)
  /\ \A i \in 1 .. r.write : f[1 + AddressLen(r) + i] = Data(i)
  /\ r.write > 0 /\ r.read > 0 => f[2 + AddressLen(r) + r.write] = ReStart
  /\ r.read > 0 => f[Before(r)] = IF r.ten THEN High(1) ELSE Low(1)
  /\ \A i \in 1 .. r.read :
       /\ f[Before(r) + 2 * i - 1] = Receive
       /\ f[Before(r) + 2 * i] = Ack(IF i = r.read THEN 1 ELSE 0)

\* The bytes read, place by place.
LEMMA ReceivedShape ==
  ASSUME NEW n \in Nat
  PROVE  /\ Received(n) \in Seq(Ops) /\ Len(Received(n)) = 2 * n
         /\ \A i \in 1 .. n :
              /\ Received(n)[2 * i - 1] = Receive
              /\ Received(n)[2 * i] = Ack(IF i = n THEN 1 ELSE 0)
<1>1. \A i \in 1 .. 2 * n :
        (IF i % 2 = 1 THEN Receive
         ELSE Ack(IF i = 2 * n THEN 1 ELSE 0)) \in Ops
  BY OpTypes
<1>2. Received(n) \in Seq(Ops) /\ Len(Received(n)) = 2 * n
  BY <1>1 DEF Received
<1>3. ASSUME NEW i \in 1 .. n
      PROVE  /\ Received(n)[2 * i - 1] = Receive
             /\ Received(n)[2 * i] = Ack(IF i = n THEN 1 ELSE 0)
  <2>1. /\ 2 * i - 1 \in 1 .. 2 * n /\ (2 * i - 1) % 2 = 1
        /\ 2 * i \in 1 .. 2 * n /\ (2 * i) % 2 # 1 /\ (2 * i = 2 * n <=> i = n)
    OBVIOUS
  <2> QED BY <2>1 DEF Received
<1> QED BY <1>2, <1>3

\* The address, place by place.
LEMMA AddressShape ==
  ASSUME NEW ten \in BOOLEAN, NEW rw \in {0, 1}
  PROVE  /\ Address(ten, rw) \in Seq(Ops)
         /\ rw = 0 => Len(Address(ten, rw)) = IF ten THEN 2 ELSE 1
         /\ rw = 1 => Len(Address(ten, rw)) = 1
         /\ Address(ten, rw)[1] = IF ten THEN High(rw) ELSE Low(rw)
         /\ ten /\ rw = 0 => Address(ten, rw)[2] = Low(0)
  BY OpTypes DEF Address
\* The frame of a request has the shape above.
LEMMA FrameCorrect ==
  ASSUME NEW r \in Requests
  PROVE  FrameShape(r, Frame(r))
<1> DEFINE a  == AddressLen(r)
           wr == Address(r.ten, 0)
           rd == Address(r.ten, 1)
           rs == Received(r.read)
           bytes == [i \in 1 .. r.write |-> Data(i)]
           f1 == <<Start>>
           f2 == IF r.write = 0 THEN <<>> ELSE wr \o bytes
           f3 == IF r.write = 0 \/ r.read = 0 THEN <<>> ELSE <<ReStart>>
           f4 == IF r.read = 0 THEN <<>> ELSE rd \o rs
           f5 == <<Stop>>
           g2 == f1 \o f2
           g3 == g2 \o f3
           g4 == g3 \o f4
           g5 == g4 \o f5
<1>r. r.write \in Nat /\ r.read \in Nat /\ r.ten \in BOOLEAN
  BY DEF Requests
<1>a. a = IF r.ten THEN 2 ELSE 1
  BY DEF AddressLen
<1>1. f1 \in Seq(Ops) /\ Len(f1) = 1 /\ f1[1] = Start
  BY OpTypes
<1>2. /\ f2 \in Seq(Ops)
      /\ Len(f2) = IF r.write = 0 THEN 0 ELSE a + r.write
      /\ r.write > 0 => /\ f2[1] = IF r.ten THEN High(0) ELSE Low(0)
                        /\ r.ten => f2[2] = Low(0)
      /\ \A i \in 1 .. r.write : f2[a + i] = Data(i)
  <2>1. /\ wr \in Seq(Ops) /\ Len(wr) = a
        /\ wr[1] = IF r.ten THEN High(0) ELSE Low(0)
        /\ r.ten => wr[2] = Low(0)
    BY <1>r, <1>a, AddressShape
  <2>2. /\ bytes \in Seq(Ops) /\ Len(bytes) = r.write
        /\ \A i \in 1 .. r.write : bytes[i] = Data(i)
    BY <1>r, OpTypes
  <2> HIDE DEF wr, bytes, a
  <2>3. /\ wr \o bytes \in Seq(Ops) /\ Len(wr \o bytes) = a + r.write
        /\ \A i \in 1 .. a : (wr \o bytes)[i] = wr[i]
        /\ \A i \in 1 .. r.write : (wr \o bytes)[a + i] = bytes[i]
    <3>1. /\ wr \o bytes \in Seq(Ops) /\ Len(wr \o bytes) = Len(wr) + Len(bytes)
          /\ \A i \in 1 .. Len(wr) : (wr \o bytes)[i] = wr[i]
          /\ \A i \in 1 .. Len(bytes) : (wr \o bytes)[Len(wr) + i] = bytes[i]
      BY <2>1, <2>2, Joined, Zenon
    <3> QED BY <2>1, <2>2, <3>1
  <2> QED BY <1>r, <1>a, <2>1, <2>2, <2>3
<1>3. /\ f3 \in Seq(Ops)
      /\ Len(f3) = IF r.write = 0 \/ r.read = 0 THEN 0 ELSE 1
      /\ r.write > 0 /\ r.read > 0 => f3[1] = ReStart
  BY <1>r, OpTypes
<1>4. /\ f4 \in Seq(Ops)
      /\ Len(f4) = IF r.read = 0 THEN 0 ELSE 1 + 2 * r.read
      /\ r.read > 0 => f4[1] = IF r.ten THEN High(1) ELSE Low(1)
      /\ \A i \in 1 .. r.read :
           /\ f4[2 * i] = Receive
           /\ f4[2 * i + 1] = Ack(IF i = r.read THEN 1 ELSE 0)
  <2>1. /\ rd \in Seq(Ops) /\ Len(rd) = 1
        /\ rd[1] = IF r.ten THEN High(1) ELSE Low(1)
    BY <1>r, AddressShape
  <2>2. /\ rs \in Seq(Ops) /\ Len(rs) = 2 * r.read
        /\ \A i \in 1 .. r.read :
             /\ rs[2 * i - 1] = Receive
             /\ rs[2 * i] = Ack(IF i = r.read THEN 1 ELSE 0)
    BY <1>r, ReceivedShape
  <2> HIDE DEF rd, rs
  <2>3. /\ rd \o rs \in Seq(Ops) /\ Len(rd \o rs) = 1 + 2 * r.read
        /\ (rd \o rs)[1] = rd[1]
        /\ \A i \in 1 .. 2 * r.read : (rd \o rs)[1 + i] = rs[i]
    <3>1. /\ rd \o rs \in Seq(Ops) /\ Len(rd \o rs) = Len(rd) + Len(rs)
          /\ \A i \in 1 .. Len(rd) : (rd \o rs)[i] = rd[i]
          /\ \A i \in 1 .. Len(rs) : (rd \o rs)[Len(rd) + i] = rs[i]
      BY <2>1, <2>2, Joined, Zenon
    <3> QED BY <1>r, <2>1, <2>2, <3>1
  <2>4. ASSUME NEW i \in 1 .. r.read, r.read # 0
        PROVE  /\ f4[2 * i] = Receive
               /\ f4[2 * i + 1] = Ack(IF i = r.read THEN 1 ELSE 0)
    <3>1. /\ 2 * i - 1 \in 1 .. 2 * r.read /\ 1 + (2 * i - 1) = 2 * i
          /\ 2 * i \in 1 .. 2 * r.read /\ 1 + 2 * i = 2 * i + 1
      BY <1>r
    <3> QED BY <2>2, <2>3, <2>4, <3>1
  <2>5. CASE r.read = 0
    BY <1>r, <2>5
  <2>6. CASE r.read # 0
    <3>1. f4 = rd \o rs
      BY <2>6
    <3> QED BY <1>r, <2>1, <2>3, <2>4, <2>6, <3>1
  <2> QED BY <2>5, <2>6
<1>5. f5 \in Seq(Ops) /\ Len(f5) = 1 /\ f5[1] = Stop
  BY OpTypes
<1> HIDE DEF f1, f2, f3, f4, f5, a
<1>6. /\ g2 \in Seq(Ops) /\ Len(g2) = Len(f1) + Len(f2)
      /\ \A i \in 1 .. Len(f1) : g2[i] = f1[i]
      /\ \A i \in 1 .. Len(f2) : g2[Len(f1) + i] = f2[i]
  BY <1>1, <1>2, Joined, Zenon
<1> HIDE DEF g2
<1>7. /\ g3 \in Seq(Ops) /\ Len(g3) = Len(g2) + Len(f3)
      /\ \A i \in 1 .. Len(g2) : g3[i] = g2[i]
      /\ \A i \in 1 .. Len(f3) : g3[Len(g2) + i] = f3[i]
  BY <1>6, <1>3, Joined, Zenon
<1> HIDE DEF g3
<1>8. /\ g4 \in Seq(Ops) /\ Len(g4) = Len(g3) + Len(f4)
      /\ \A i \in 1 .. Len(g3) : g4[i] = g3[i]
      /\ \A i \in 1 .. Len(f4) : g4[Len(g3) + i] = f4[i]
  BY <1>7, <1>4, Joined, Zenon
<1> HIDE DEF g4
<1>9. /\ g5 \in Seq(Ops) /\ Len(g5) = Len(g4) + Len(f5)
      /\ \A i \in 1 .. Len(g4) : g5[i] = g4[i]
      /\ \A i \in 1 .. Len(f5) : g5[Len(g4) + i] = f5[i]
  BY <1>8, <1>5, Joined, Zenon
<1>10. Frame(r) = g5
  BY DEF Frame, g4, g3, g2, f1, f2, f3, f4, f5
<1> HIDE DEF g5
<1>l. /\ Len(f1) = 1 /\ Len(g2) = 1 + Len(f2) /\ Len(g3) = Len(g2) + Len(f3)
      /\ Len(g4) = Len(g3) + Len(f4) /\ Len(g5) = Len(g4) + 1
      /\ Len(f2) \in Nat /\ Len(f3) \in Nat /\ Len(f4) \in Nat
  BY <1>r, <1>a, <1>1, <1>2, <1>3, <1>4, <1>5, <1>6, <1>7, <1>8, <1>9
\* The parts in the whole.
<1>11. g5[1] = f1[1]
  BY <1>l, <1>6, <1>7, <1>8, <1>9
<1>12. ASSUME NEW i \in 1 .. Len(f2) PROVE g5[1 + i] = f2[i]
  <2>1. /\ 1 + i \in 1 .. Len(g2) /\ 1 + i \in 1 .. Len(g3)
        /\ 1 + i \in 1 .. Len(g4)
    BY <1>l
  <2>2. g5[1 + i] = g2[1 + i]
    BY <1>7, <1>8, <1>9, <2>1, Zenon
  <2> QED BY <1>l, <1>6, <2>2
<1>13. ASSUME NEW i \in 1 .. Len(f3) PROVE g5[Len(g2) + i] = f3[i]
  <2>1. Len(g2) + i \in 1 .. Len(g3) /\ Len(g2) + i \in 1 .. Len(g4)
    BY <1>l
  <2> QED BY <1>7, <1>8, <1>9, <2>1, Zenon
<1>14. \A i \in 1 .. Len(f4) : g5[Len(g3) + i] = f4[i]
  BY <1>l, <1>8, <1>9
<1>15. g5[Len(g4) + 1] = f5[1]
  BY <1>l, <1>5, <1>9
\* The places of the parts.
<1>16. /\ Len(g5) = Total(r)
       /\ r.write > 0 => Len(g2) = 1 + a + r.write
       /\ r.read > 0 => Len(g3) = Before(r) - 1
       /\ Before(r) \in Nat
  <2>1. /\ Len(f2) = IF r.write = 0 THEN 0 ELSE a + r.write
        /\ Len(f3) = IF r.write = 0 \/ r.read = 0 THEN 0 ELSE 1
        /\ Len(f4) = IF r.read = 0 THEN 0 ELSE 1 + 2 * r.read
        /\ a \in Nat
    BY <1>a, <1>2, <1>3, <1>4
  <2>2. /\ Before(r) = IF r.write = 0 THEN 2 ELSE 3 + a + r.write
        /\ Total(r) = IF r.read > 0 THEN Before(r) + 2 * r.read + 1
                      ELSE IF r.write > 0 THEN 2 + a + r.write ELSE 2
    BY DEF Total, Before, a
  <2>3. PICK w \in Nat, d \in Nat, n \in Nat :
          w = r.write /\ d = r.read /\ n = a
    BY <1>r, <2>1
  <2>4. CASE w = 0 /\ d = 0
    BY <1>l, <2>1, <2>2, <2>3, <2>4
  <2>5. CASE w = 0 /\ d > 0
    BY <1>l, <2>1, <2>2, <2>3, <2>5
  <2>6. CASE w > 0 /\ d = 0
    BY <1>l, <2>1, <2>2, <2>3, <2>6
  <2>7. CASE w > 0 /\ d > 0
    <3>0. r.write # 0 /\ r.read # 0 /\ r.read > 0 /\ r.write > 0
      BY <2>3, <2>7
    <3>1. /\ Len(f2) = n + w /\ Len(f3) = 1 /\ Len(f4) = 1 + 2 * d
          /\ Before(r) = 3 + n + w
      <4>1. /\ Len(f2) = a + r.write /\ Len(f3) = 1 /\ Len(f4) = 1 + 2 * r.read
            /\ Before(r) = 3 + a + r.write
        BY <2>1, <2>2, <3>0, Zenon
      <4> QED BY <2>3, <4>1, Zenon
    <3>2. Total(r) = 4 + n + w + 2 * d
      <4>1. Total(r) = Before(r) + 2 * d + 1
        BY <2>2, <2>3, <3>0, Zenon
      <4> QED BY <3>1, <4>1
    <3>3. /\ Len(g2) = 1 + n + w /\ Len(g3) = 2 + n + w
          /\ Len(g5) = 4 + n + w + 2 * d
      BY <1>l, <3>1
    <3>4. Len(g5) = Total(r) /\ Len(g3) = Before(r) - 1 /\ Before(r) \in Nat
      BY <3>1, <3>2, <3>3
    <3> QED BY <2>3, <3>3, <3>4, Zenon
  <2> QED BY <2>3, <2>4, <2>5, <2>6, <2>7
<1>17. /\ r.write > 0 /\ r.ten => g5[2] = High(0) /\ g5[3] = Low(0)
       /\ r.write > 0 /\ ~r.ten => g5[2] = Low(0)
  BY <1>r, <1>a, <1>2, <1>12
<1>18. \A i \in 1 .. r.write : g5[1 + a + i] = Data(i)
  <2> SUFFICES ASSUME NEW i \in 1 .. r.write PROVE g5[1 + a + i] = Data(i)
    OBVIOUS
  <2>1. a + i \in 1 .. Len(f2) /\ 1 + (a + i) = 1 + a + i
    BY <1>r, <1>a, <1>2
  <2> QED BY <1>2, <1>12, <2>1
<1>19. r.write > 0 /\ r.read > 0 => g5[2 + a + r.write] = ReStart
  <2> SUFFICES ASSUME r.write > 0, r.read > 0
               PROVE  g5[2 + a + r.write] = ReStart
    OBVIOUS
  <2>1. 1 \in 1 .. Len(f3) /\ Len(g2) + 1 = 2 + a + r.write
    <3>1. Len(f3) = 1 /\ Len(g2) = 1 + a + r.write
      BY <1>r, <1>3, <1>16
    <3>2. PICK w \in Nat, n \in Nat : w = r.write /\ n = a
      BY <1>r, <1>a
    <3> QED BY <3>1, <3>2
  <2> QED BY <1>3, <1>13, <2>1
<1>20. r.read > 0 => g5[Before(r)] = IF r.ten THEN High(1) ELSE Low(1)
  <2> SUFFICES ASSUME r.read > 0
               PROVE  g5[Before(r)] = IF r.ten THEN High(1) ELSE Low(1)
    OBVIOUS
  <2>1. 1 \in 1 .. Len(f4) /\ Len(g3) + 1 = Before(r)
    BY <1>r, <1>4, <1>16
  <2> QED BY <1>4, <1>14, <2>1
<1>21. ASSUME NEW i \in 1 .. r.read
       PROVE  /\ g5[Before(r) + 2 * i - 1] = Receive
              /\ g5[Before(r) + 2 * i] = Ack(IF i = r.read THEN 1 ELSE 0)
  <2>1. /\ 2 * i \in 1 .. Len(f4) /\ 2 * i + 1 \in 1 .. Len(f4)
        /\ Len(g3) + 2 * i = Before(r) + 2 * i - 1
        /\ Len(g3) + (2 * i + 1) = Before(r) + 2 * i
    <3>1. Len(f4) = 1 + 2 * r.read /\ Len(g3) = Before(r) - 1
          /\ Before(r) \in Nat
      BY <1>r, <1>4, <1>16
    <3>2. PICK d \in Nat, b \in Nat : d = r.read /\ b = Before(r)
      BY <1>r, <3>1
    <3>3. PICK l \in Int, m \in Int : l = Len(f4) /\ m = Len(g3)
      BY <3>1, <3>2
    <3>4. l = 1 + 2 * d /\ m = b - 1 /\ i \in 1 .. d
      BY <3>1, <3>2, <3>3
    <3>5. /\ 2 * i \in 1 .. l /\ 2 * i + 1 \in 1 .. l
          /\ m + 2 * i = b + 2 * i - 1 /\ m + (2 * i + 1) = b + 2 * i
      BY <3>4
    <3> QED BY <3>2, <3>3, <3>5
  <2>2. /\ g5[Len(g3) + 2 * i] = f4[2 * i]
        /\ g5[Len(g3) + (2 * i + 1)] = f4[2 * i + 1]
    BY <1>14, <2>1
  <2> QED BY <1>4, <2>1, <2>2
<1> QED
  BY <1>1, <1>5, <1>9, <1>10, <1>11, <1>15, <1>16, <1>17, <1>18, <1>19, <1>20,
     <1>21, <1>l DEF FrameShape, a

-----------------------------------------------------------------------------
(***************************************************************************)
(* One operation at a time                                                 *)
(***************************************************************************)
\* With no operation under way, starting one is no collision.
LEMMA Issued ==
  ASSUME NEW o, op = Idle, Issue(o)
  PROVE  op' = o /\ IWCOL' = IWCOL
  BY DEF Issue

\* HostInv holds initially.
THEOREM HostInvInit == HostInit => HostInv
<1> SUFFICES ASSUME HostInit PROVE HostInv
  OBVIOUS
<1>1. HostFlags
  BY Zenon DEF HostInit, HostFlags
<1>2. HostRanges
  BY DEF HostInit, HostRanges, HostStates, Requests, None
<1>3. BusInv
  BY DEF HostInit, BusInv, Polling
<1> QED BY <1>1, <1>2, <1>3 DEF HostInv

\* The receptions among the operations carried out can be counted.
LEMMA NextByteNat ==
  ASSUME HostRanges
  PROVE  NextByte \in Nat
<1>1. Len(wire) \in Nat /\ DOMAIN wire = 1 .. Len(wire)
  BY LenProperties DEF HostRanges
<1>2. IsFiniteSet(1 .. Len(wire))
  BY <1>1, FS_Interval
<1>3. IsFiniteSet({i \in DOMAIN wire : wire[i][1] = Receive})
  BY <1>1, <1>2, FS_Subset
<1>4. NextByte = Cardinality({i \in DOMAIN wire : wire[i][1] = Receive})
  BY Zenon DEF NextByte, Cardinality
<1> QED
  BY <1>3, <1>4, FS_CardinalityType

\* What the driver leaves behind when it was called without a collision: an
\* operation that its new state waits for, or nothing to wait for.
Outcome ==
  /\ RBF' = FALSE /\ IWCOL' = FALSE
  /\ isWriteMode' \in BOOLEAN
  /\ state' \in HostStates /\ error' \in {"NONE", "NACK", "BUS_COLLISION"}
  /\ writeDataCount' \in Nat /\ readDataCount' \in Int /\ readData' \in Seq(Nat)
  /\ op' \in Ops \cup {Idle}
  /\ op' = Idle => state' = "IDLE"
  /\ op' # Idle /\ op' # Start => state # "IDLE" /\ ~P
  /\ state' = "IDLE" /\ op' # Idle => op' = Stop
  /\ op' = Stop => state' \in {"IDLE", "STOP"}
  /\ op' = Receive <=> state' = "RECEIVE_DATA"

\* I2C1_HostDataProcess leaves one of these outcomes behind.
LEMMA ProcessOutcome ==
  ASSUME HostInv, I2C1IF, ~BCL, HostDataProcess
  PROVE  Outcome
<1>1. /\ op = Idle /\ IWCOL = FALSE
      /\ state # "RECEIVE_DATA" => RBF = FALSE
      /\ state = "RECEIVE_DATA" => RBF = TRUE
      /\ state \notin {"IDLE", "STOP"} => ~P
  BY DEF HostInv, HostFlags, BusInv
<1>2. /\ state \in HostStates /\ error \in {"NONE", "NACK", "BUS_COLLISION"}
      /\ writeDataCount \in Nat /\ readDataCount \in Int
      /\ readData \in Seq(Nat)
      /\ request.write \in Nat /\ isWriteMode \in BOOLEAN
  BY DEF HostInv, HostRanges, HostFlags, Requests
<1>3. NextByte \in Nat
  BY NextByteNat DEF HostInv
<1>4. RW \in {0, 1}
  BY DEF RW
<1> USE OpsDiffer, OpTypes, <1>1, <1>2, Issued
    DEF Outcome, HostStates, transfer
<1>5. CASE ProcessIdle
  BY <1>5 DEF ProcessIdle, NoIssue, AddressState
<1>6. CASE ProcessHigherAddress
  BY <1>4, <1>6 DEF ProcessHigherAddress
<1>7. CASE ProcessLowerAddress
  BY <1>7 DEF ProcessLowerAddress, Refused, AfterAddress
<1>8. CASE Process7BitAddress
  BY <1>4, <1>8 DEF Process7BitAddress, AfterAddress
<1>9. CASE ProcessSendData
  <2>1. UNCHANGED <<readDataCount, readData, RBF>> /\ state = "SEND_DATA"
    BY <1>9 DEF ProcessSendData
  <2>2. CASE ACKSTAT = 0 /\ ~AllSent
    <3>1. /\ Issue(Data(request.write - writeDataCount + 1))
          /\ writeDataCount' = writeDataCount - 1
          /\ UNCHANGED <<state, error, isWriteMode>>
      BY <1>9, <2>2 DEF ProcessSendData
    <3>2. request.write - writeDataCount + 1 \in Int
          /\ writeDataCount - 1 \in Nat
      BY <2>2 DEF AllSent
    <3> QED BY <2>1, <3>1, <3>2
  <2>3. CASE ACKSTAT = 0 /\ AllSent /\ readDataCount > 0
    <3>1. /\ Issue(ReStart) /\ isWriteMode' = FALSE
          /\ state' = AddressState(is10BitAddressMode)
          /\ UNCHANGED <<error, writeDataCount>>
      BY <1>9, <2>3 DEF ProcessSendData
    <3>2. state' \in {"SEND_10BIT_HIGHER_ADDRESS", "SEND_7BIT_ADDRESS"}
      BY <3>1 DEF AddressState
    <3>3. op' = ReStart /\ IWCOL' = FALSE
      BY <3>1
    <3> QED BY <2>1, <3>1, <3>2, <3>3
  <2>4. CASE ACKSTAT = 0 /\ AllSent /\ readDataCount = 0
    BY <1>9, <2>1, <2>4 DEF ProcessSendData
  <2>5. CASE ACKSTAT = 1
    BY <1>9, <2>1, <2>5 DEF ProcessSendData, Refused
  <2> QED BY <1>9, <2>2, <2>3, <2>4, <2>5 DEF ProcessSendData
<1>10. CASE ProcessCheckAck
  BY <1>10 DEF ProcessCheckAck, Refused
<1>11. CASE ProcessReceive
  <2>1. /\ state = "RECEIVE_DATA" /\ RBF' = FALSE
        /\ readData' = Append(readData, NextByte)
        /\ readDataCount' = readDataCount - 1
        /\ \/ Issue(Ack(0)) /\ state' = "RECEIVE_WAIT_ACK"
           \/ Issue(Ack(1)) /\ state' = "STOP"
        /\ UNCHANGED <<error, writeDataCount, isWriteMode>>
    BY <1>11 DEF ProcessReceive
  <2>2. readData' \in Seq(Nat)
    BY <1>3, <2>1
  <2>3. op' \in {Ack(0), Ack(1)} /\ IWCOL' = FALSE
    BY <2>1
  <2> QED BY <2>1, <2>2, <2>3
<1>12. CASE ProcessWaitAck
  BY <1>12 DEF ProcessWaitAck
<1>13. CASE ProcessStop
  BY <1>13 DEF ProcessStop, NoIssue
<1> QED
  BY <1>5, <1>6, <1>7, <1>8, <1>9, <1>10, <1>11, <1>12, <1>13
     DEF HostDataProcess

\* So it preserves HostInv.
LEMMA HostProcess ==
  ASSUME HostInv, I2C1IF, ~BCL, HostDataProcess,
         I2C1IF' = FALSE, BCL' = BCL,
         UNCHANGED <<is10BitAddressMode, ACKSTAT, S, P, client, wire>>
  PROVE  HostInv'
<1>1. Outcome
  BY ProcessOutcome
<1>2. UNCHANGED <<is10BitAddressMode, ACKSTAT, S, P, wire, macpc, request,
                  i2cBusy, success>>
  BY DEF client
<1>3. HostFlags'
  BY <1>1, <1>2, Zenon DEF HostInv, HostFlags, Outcome
<1>4. HostRanges'
  BY <1>1, <1>2 DEF HostInv, HostRanges, Outcome
<1>5. BusInv'
  <2>1. /\ state # "IDLE" => S \/ (state = "STOP" /\ P)
        /\ Polling
    BY DEF HostInv, BusInv
  <2> QED BY <1>1, <1>2, <2>1, OpsDiffer DEF Outcome, BusInv, Polling
<1> QED BY <1>3, <1>4, <1>5 DEF HostInv

\* One interrupt.
LEMMA HostInterrupt ==
  ASSUME HostInv, Interrupt
  PROVE  HostInv'
<1>1. /\ I2C1IF /\ I2C1IF' = FALSE
      /\ UNCHANGED <<is10BitAddressMode, ACKSTAT, S, P, client, wire>>
  BY DEF Interrupt, FlagAfter
<1>2. CASE BCL \/ IWCOL
  <2>1. /\ BCL = TRUE /\ IWCOL = FALSE /\ op = Idle /\ RBF = FALSE /\ Polling
    BY <1>1, <1>2 DEF HostInv, HostFlags, BusInv
  <2>2. /\ BCL' = FALSE /\ IWCOL' = FALSE
        /\ writeDataCount' = 0 /\ readDataCount' = 0 /\ state' = "IDLE"
        /\ error' = "BUS_COLLISION"
        /\ UNCHANGED <<isWriteMode, readData, RBF, op>>
    BY <1>2, <2>1 DEF Interrupt, ErrorAfterCollision
  <2>3. HostFlags'
    BY <1>1, <2>1, <2>2, Zenon DEF HostInv, HostFlags, client
  <2>4. HostRanges'
    BY <1>1, <2>2 DEF HostInv, HostRanges, HostStates, client
  <2>5. BusInv'
    BY <1>1, <2>1, <2>2 DEF BusInv, Polling, client
  <2> QED BY <2>3, <2>4, <2>5 DEF HostInv
<1>3. CASE ~BCL /\ ~IWCOL
  <2>1. HostDataProcess /\ BCL' = BCL
    BY <1>3 DEF Interrupt
  <2> QED BY <1>1, <1>3, <2>1, HostProcess
<1> QED BY <1>2, <1>3

\* An operation comes to its end.
LEMMA HostCompletes ==
  ASSUME HostInv, NEW nack \in {0, 1}, Completes(nack)
  PROVE  HostInv'
<1>1. /\ op # Idle /\ op \in Ops /\ op' = Idle /\ I2C1IF' = TRUE
      /\ UNCHANGED <<state, error, writeDataCount, readDataCount, isWriteMode,
                     is10BitAddressMode, readData, BCL, IWCOL, macpc, request,
                     i2cBusy, success>>
  BY DEF Completes, HostInv, HostRanges, driver, client
<1>2. /\ BCL = FALSE /\ RBF = FALSE /\ Polling
  BY <1>1 DEF HostInv, HostFlags, BusInv
<1>3. /\ RBF' = (op = Receive)
      /\ S' = IF op \in {Start, ReStart} THEN TRUE ELSE S /\ op # Stop
      /\ P' = IF op \in {Start, ReStart} THEN FALSE ELSE P \/ op = Stop
  BY <1>2 DEF Completes
<1>4. HostFlags'
  BY <1>1, <1>3 DEF HostInv, HostFlags
<1>5. HostRanges'
  <2>1. wire' \in Seq(Ops \X {0, 1})
    BY <1>1 DEF Completes, HostInv, HostRanges
  <2>2. ACKSTAT' \in {0, 1}
    BY DEF Completes, HostInv, HostRanges
  <2> QED BY <1>1, <2>1, <2>2 DEF HostInv, HostRanges
<1>6. BusInv'
  <2>1. /\ IWCOL' = FALSE /\ BCL' = FALSE /\ Polling'
    BY <1>1, <1>2 DEF HostInv, HostFlags, BusInv, Polling
  <2>2. /\ op = Stop => state \in {"IDLE", "STOP"}
        /\ op # Start => S = TRUE /\ P = FALSE
        /\ state = "RECEIVE_DATA" => op = Receive
        /\ op = Receive => state = "RECEIVE_DATA"
    BY <1>1 DEF HostInv, HostFlags, BusInv
  <2>3. CASE op \in {Start, ReStart}
    BY <1>1, <1>3, <2>1, <2>2, <2>3, OpsDiffer DEF BusInv
  <2>4. CASE op = Stop
    BY <1>1, <1>3, <2>1, <2>2, <2>4, OpsDiffer DEF BusInv
  <2>5. CASE op \notin {Start, ReStart, Stop}
    BY <1>1, <1>3, <2>1, <2>2, <2>5, OpsDiffer DEF BusInv
  <2> QED BY <2>3, <2>4, <2>5
<1> QED BY <1>4, <1>5, <1>6 DEF HostInv

\* An operation collides.
LEMMA HostCollides ==
  ASSUME HostInv, NEW s \in BOOLEAN, Collides(s)
  PROVE  HostInv'
<1>1. /\ op # Idle /\ op' = Idle /\ I2C1IF' = TRUE /\ BCL' = TRUE
      /\ S' = IF op = Start THEN s ELSE S
      /\ UNCHANGED <<state, error, writeDataCount, readDataCount, isWriteMode,
                     is10BitAddressMode, readData, ACKSTAT, IWCOL, RBF, P, macpc,
                     request, i2cBusy, success, wire>>
  BY DEF Collides, driver, client
<1>2. HostFlags'
  BY <1>1, Zenon DEF HostInv, HostFlags
<1>3. HostRanges'
  BY <1>1 DEF HostInv, HostRanges
<1>4. BusInv'
  <2>1. IWCOL = FALSE /\ RBF = FALSE /\ Polling
    BY <1>1 DEF HostInv, HostFlags, BusInv
  <2>2. /\ ~IWCOL' /\ ~RBF' /\ BCL' /\ I2C1IF' /\ Polling' /\ op' = Idle
        /\ Idle # Stop
    BY <1>1, <2>1, OpsDiffer DEF Polling
  <2> QED BY <2>2, Zenon DEF BusInv
<1> QED BY <1>2, <1>3, <1>4 DEF HostInv

\* Every step preserves HostInv.
THEOREM HostStep == HostInv /\ [HostNext]_hostVars => HostInv'
<1> SUFFICES ASSUME HostInv, [HostNext]_hostVars PROVE HostInv'
  OBVIOUS
<1>1. CASE Interrupt
  BY <1>1, HostInterrupt
<1>2. CASE HardwareStep
  BY <1>2, HostCompletes, HostCollides DEF HardwareStep
<1>3. CASE SomebodyStops
  <2>1. /\ op = Idle /\ state = "IDLE" /\ S' = FALSE /\ P' = TRUE
        /\ UNCHANGED <<state, error, writeDataCount, readDataCount, isWriteMode,
                       is10BitAddressMode, readData, I2C1IF, ACKSTAT, BCL,
                       IWCOL, RBF, op, macpc, request, i2cBusy, success, wire>>
    BY <1>3 DEF SomebodyStops, Held, driver, client
  <2>2. HostFlags'
    BY <2>1, Zenon DEF HostInv, HostFlags
  <2>3. HostRanges'
    BY <2>1 DEF HostInv, HostRanges
  <2>4. BusInv'
    BY <2>1 DEF HostInv, BusInv, Polling
  <2> QED BY <2>2, <2>3, <2>4 DEF HostInv
<1>4. ASSUME NEW r \in Transfers, Request(r) PROVE HostInv'
  <2>1. /\ r \in Requests /\ r.ten \in BOOLEAN
        /\ r.write \in Nat /\ r.read \in Nat
    BY DEF Transfers, Requests
  <2>2. /\ state = "IDLE" /\ op = Idle /\ RBF = FALSE /\ BCL = FALSE
    BY <1>4 DEF HostInv, HostFlags, BusInv, Request, Runs, Polling
  <2>3. HostFlags'
    <3>1. BCL' = FALSE
      BY <1>4, <2>2 DEF Request
    <3>2. is10BitAddressMode' \in BOOLEAN /\ isWriteMode' \in BOOLEAN
      BY <1>4, <2>1 DEF Request
    <3> QED BY <1>4, <3>1, <3>2, Zenon DEF HostInv, HostFlags, Request
  <2>4. HostRanges'
    BY <1>4, <2>1 DEF HostInv, HostRanges, Request
  <2>5. BusInv'
    BY <1>4, <2>2, OpsDiffer DEF HostInv, HostFlags, BusInv, Request, Polling
  <2> QED BY <2>3, <2>4, <2>5 DEF HostInv
<1>5. CASE ReadEnableBits
  <2>1. HostFlags'
    BY <1>5 DEF HostInv, HostFlags, ReadEnableBits, driver, module
  <2>2. HostRanges'
    BY <1>5 DEF HostInv, HostRanges, ReadEnableBits, driver, module
  <2>3. BusInv'
    BY <1>5 DEF HostInv, BusInv, Polling, ReadEnableBits, driver, module
  <2> QED BY <2>1, <2>2, <2>3 DEF HostInv
<1>6. CASE ReadStatus
  <2>1. HostFlags'
    BY <1>6, Zenon DEF HostInv, HostFlags, ReadStatus, driver, module
  <2>2. HostRanges'
    BY <1>6 DEF HostInv, HostRanges, ReadStatus, driver, module
  <2>3. BusInv'
    BY <1>6, OpsDiffer DEF HostInv, HostFlags, BusInv, Polling, ReadStatus,
       Runs, BusBusy, driver, module
  <2> QED BY <2>1, <2>2, <2>3 DEF HostInv
<1>7. CASE ErrorGet
  <2>1. HostFlags'
    BY <1>7, Zenon DEF HostInv, HostFlags, ErrorGet, module
  <2>2. HostRanges'
    BY <1>7 DEF HostInv, HostRanges, ErrorGet, module
  <2>3. BusInv'
    BY <1>7 DEF HostInv, BusInv, Polling, ErrorGet, Runs, module
  <2> QED BY <2>1, <2>2, <2>3 DEF HostInv
<1>8. CASE UNCHANGED hostVars
  <2>1. UNCHANGED <<state, error, writeDataCount, readDataCount, isWriteMode,
                    is10BitAddressMode, readData, I2C1IF, ACKSTAT, BCL, IWCOL,
                    RBF, S, P, op, macpc, request, i2cBusy, success, wire>>
    BY <1>8 DEF hostVars, driver, module, client
  <2>2. HostFlags'
    BY <2>1, Zenon DEF HostInv, HostFlags
  <2>3. HostRanges'
    BY <2>1 DEF HostInv, HostRanges
  <2>4. BusInv'
    BY <2>1, Zenon DEF HostInv, BusInv, Polling
  <2> QED BY <2>2, <2>3, <2>4 DEF HostInv
<1> QED
  BY <1>1, <1>2, <1>3, <1>4, <1>5, <1>6, <1>7, <1>8 DEF HostNext, MainStep

\* The driver never starts an operation before the last one is over.
THEOREM NoCollision == HostSpec => []NoWriteCollision
<1>1. HostInv => NoWriteCollision
  BY DEF HostInv, BusInv, NoWriteCollision
<1> QED
  BY <1>1, HostInvInit, HostStep, PTL DEF HostSpec

-----------------------------------------------------------------------------
(***************************************************************************)
(* The bytes received                                                      *)
(***************************************************************************)
\* A byte received is counted.
LEMMA NextByteAppend ==
  ASSUME HostRanges, NEW o, NEW k, wire' = Append(wire, <<o, k>>)
  PROVE  NextByte' = NextByte + IF o = Receive THEN 1 ELSE 0
<1> DEFINE R == {i \in DOMAIN wire : wire[i][1] = Receive}
           Q == {i \in DOMAIN wire' : wire'[i][1] = Receive}
           n == Len(wire)
<1>1. n \in Nat /\ DOMAIN wire = 1 .. n
  BY LenProperties DEF HostRanges
<1>2. /\ DOMAIN wire' = 1 .. n + 1
      /\ \A i \in 1 .. n : wire'[i] = wire[i]
      /\ wire'[n + 1] = <<o, k>>
  BY <1>1 DEF HostRanges
<1>3. IsFiniteSet(R)
  <2>1. IsFiniteSet(1 .. n)
    BY <1>1, FS_Interval
  <2>2. R \subseteq 1 .. n
    BY <1>1
  <2> QED BY <2>1, <2>2, FS_Subset
<1>4. NextByte = Cardinality(R) /\ NextByte' = Cardinality(Q)
  BY Zenon DEF NextByte, Cardinality, Receive
<1>5. n + 1 \notin R
  BY <1>1
<1>6. CASE o = Receive
  <2>1. Q = R \cup {n + 1}
    BY <1>1, <1>2, <1>6
  <2>2. Cardinality(R \cup {n + 1}) = Cardinality(R) + 1
    BY <1>3, <1>5, FS_AddElement
  <2> QED BY <1>4, <1>6, <2>1, <2>2
<1>7. CASE o # Receive
  <2>1. Q = R
    BY <1>1, <1>2, <1>7
  <2>2. Cardinality(R) \in Nat
    BY <1>3, FS_CardinalityType
  <2> HIDE DEF R, Q
  <2> QED BY <1>4, <1>7, <2>1, <2>2
<1> QED BY <1>6, <1>7

\* A new request starts counting again.
LEMMA NextByteEmpty ==
  ASSUME wire' = <<>>
  PROVE  NextByte' = 0
<1>1. {i \in DOMAIN wire' : wire'[i][1] = Receive} = {}
  OBVIOUS
<1>2. NextByte' = Cardinality({i \in DOMAIN wire' : wire'[i][1] = Receive})
  BY Zenon DEF NextByte, Cardinality, Receive
<1> QED BY <1>1, <1>2, FS_EmptySet

\* BytesInv holds initially.
LEMMA BytesInit == HostInit => BytesInv
<1> SUFFICES ASSUME HostInit PROVE BytesInv
  OBVIOUS
<1>1. readData = <<>> /\ wire = <<>> /\ RBF = FALSE
  BY DEF HostInit
<1>2. {i \in DOMAIN wire : wire[i][1] = Receive} = {}
  BY <1>1
<1>3. NextByte = Cardinality({i \in DOMAIN wire : wire[i][1] = Receive})
  BY Zenon DEF NextByte, Cardinality, Receive
<1> QED BY <1>1, <1>2, <1>3, FS_EmptySet DEF BytesInv

\* A step that stores and counts nothing.
LEMMA BytesSame ==
  ASSUME BytesInv, UNCHANGED <<wire, readData, RBF>>
  PROVE  BytesInv'
<1>1. NextByte' = NextByte
  BY Zenon DEF NextByte, Cardinality, Receive
<1> QED BY <1>1 DEF BytesInv

\* Every step preserves BytesInv.
LEMMA BytesStep == HostInv /\ BytesInv /\ [HostNext]_hostVars => BytesInv'
<1> SUFFICES ASSUME HostInv, BytesInv, [HostNext]_hostVars PROVE BytesInv'
  OBVIOUS
<1>0. /\ HostRanges /\ readData \in Seq(Nat) /\ RBF \in BOOLEAN
      /\ Len(readData) \in Nat
  BY LenProperties DEF HostInv, HostRanges, HostFlags
<1>1. CASE Interrupt
  <2>1. wire' = wire
    BY <1>1 DEF Interrupt
  <2>2. CASE UNCHANGED <<readData, RBF>>
    BY <2>1, <2>2, BytesSame
  <2>3. CASE ~UNCHANGED <<readData, RBF>>
    <3>1. HostDataProcess
      BY <1>1, <2>3 DEF Interrupt
    <3>2. ProcessReceive
      BY <2>3, <3>1 DEF HostDataProcess, ProcessIdle, ProcessHigherAddress,
         ProcessLowerAddress, Process7BitAddress, ProcessSendData,
         ProcessCheckAck, ProcessWaitAck, ProcessStop, transfer
    <3>3. /\ RBF = TRUE /\ RBF' = FALSE
          /\ readData' = Append(readData, NextByte)
      BY <1>0, <2>3, <3>2 DEF ProcessReceive
    <3>4. NextByte = Len(readData) + 1
      BY <3>3 DEF BytesInv
    <3>5. NextByte' = NextByte
      BY <2>1, Zenon DEF NextByte, Cardinality, Receive
    <3> QED BY <1>0, <3>3, <3>4, <3>5 DEF BytesInv
  <2> QED BY <2>2, <2>3
<1>2. ASSUME NEW nack \in {0, 1}, Completes(nack) PROVE BytesInv'
  <2>1. /\ wire' = Append(wire, <<op, nack>>) /\ readData' = readData
        /\ RBF = FALSE /\ RBF' = (op = Receive)
    BY <1>2, <1>0 DEF Completes, driver, HostInv, BusInv
  <2>2. NextByte' = NextByte + IF op = Receive THEN 1 ELSE 0
    BY <1>0, <2>1, NextByteAppend
  <2>3. /\ \A i \in 1 .. Len(readData) : readData[i] = i
        /\ NextByte = Len(readData)
    BY <1>0, <2>1 DEF BytesInv
  <2>4. CASE op = Receive
    BY <1>0, <2>1, <2>2, <2>3, <2>4 DEF BytesInv
  <2>5. CASE op # Receive
    BY <1>0, <2>1, <2>2, <2>3, <2>5 DEF BytesInv
  <2> QED BY <2>4, <2>5
<1>3. ASSUME NEW r \in Transfers, Request(r) PROVE BytesInv'
  <2>1. wire' = <<>> /\ readData' = <<>> /\ RBF' = RBF /\ RBF = FALSE
    BY <1>3, <1>0 DEF Request, Runs, HostInv, BusInv
  <2>2. NextByte' = 0
    BY <2>1, NextByteEmpty
  <2> QED BY <2>1, <2>2 DEF BytesInv
<1>4. CASE \E s \in BOOLEAN : Collides(s)
  BY <1>4, BytesSame DEF Collides, driver
<1>5. CASE SomebodyStops \/ MainStep
  BY <1>5, BytesSame DEF SomebodyStops, MainStep, ReadEnableBits,
     ReadStatus, ErrorGet, driver, module
<1>6. CASE UNCHANGED hostVars
  BY <1>6, BytesSame DEF hostVars, driver, module
<1> QED
  BY <1>1, <1>2, <1>3, <1>4, <1>5, <1>6 DEF HostNext, HardwareStep

-----------------------------------------------------------------------------
(***************************************************************************)
(* The transfer, operation by operation                                    *)
(***************************************************************************)
\* The facts about the request that the cases below use.
LEMMA RequestFacts ==
  ASSUME HostInv, request \in Transfers
  PROVE  /\ request.write \in Nat /\ request.read \in Nat
         /\ request.ten \in BOOLEAN
         /\ request.write > 0 \/ (request.read > 0 /\ ~request.ten)
         /\ AddressLen(request) = IF request.ten THEN 2 ELSE 1
         /\ Len(wire) \in Nat /\ Len(readData) \in Nat
         /\ Total(request) \in Nat /\ Before(request) \in Nat
         /\ FrameShape(request, Frame(request))
<1>1. request \in Requests /\ wire \in Seq(Ops \X {0, 1})
      /\ readData \in Seq(Nat)
  BY DEF HostInv, HostRanges
<1>2. Len(wire) \in Nat /\ Len(readData) \in Nat
  BY <1>1, LenProperties
<1>3. FrameShape(request, Frame(request))
  BY <1>1, FrameCorrect
<1>4. Total(request) \in Nat
  BY <1>3, LenProperties DEF FrameShape
<1>5. Before(request) \in Nat
  BY <1>1 DEF Before, AddressLen, Requests
<1> QED BY <1>1, <1>2, <1>3, <1>4, <1>5 DEF Requests, Transfers, AddressLen

\* The driver starts the next operation of the frame.
LEMMA Advance ==
  ASSUME HostInv, Running, NEW o, op = Idle,
         ~(state \in Answers /\ ACKSTAT = 1),
         op' = o, o # Idle, error' = "NONE",
         UNCHANGED <<wire, request, is10BitAddressMode, BCL>>,
         Len(wire) < Total(request), o = Frame(request)[Len(wire) + 1],
         Sends(o) <=> state' \in Answers,
         state' = "STOP" => (request.read = 0 <=> o = Stop),
         Len(readData') = request.read - readDataCount',
         \/ readDataCount' = request.read /\ Place(Len(wire) + 1, request)'
         \/ ReadPlace(Len(wire) + 1, request)'
  PROVE  Running'
<1>1. Follows(0)'
  BY DEF Running, Follows
<1>2. RefusedOnly(0)
  BY DEF Running
<1>3. RefusedOnly(0)'
  BY <1>2 DEF RefusedOnly
<1>4. Started' = Len(wire) + 1
  BY DEF Started
<1>5. ~BCL' /\ is10BitAddressMode' = request'.ten
  BY DEF Running
<1>6. \/ readDataCount' = request'.read /\ Place(Started, request)'
      \/ ReadPlace(Started, request)'
  BY <1>4 DEF Place, ReadPlace, AtStart, AtRestart
<1> QED
  BY <1>1, <1>3, <1>5, <1>6 DEF Running

\* An operation of the frame comes to its end.
LEMMA RunningCompletes ==
  ASSUME HostInv, Running, request \in Transfers,
         NEW nack \in {0, 1}, Completes(nack)
  PROVE  Running'
<1>1. /\ op # Idle /\ op' = Idle /\ I2C1IF' = TRUE
      /\ wire' = Append(wire, <<op, nack>>)
      /\ nack = 1 => Sends(op)
      /\ ACKSTAT' = IF Sends(op) THEN nack ELSE ACKSTAT
      /\ P' = IF op \in {Start, ReStart} THEN FALSE ELSE P \/ op = Stop
      /\ UNCHANGED <<state, error, writeDataCount, readDataCount, isWriteMode,
                     is10BitAddressMode, readData, BCL, request>>
  BY DEF Completes, driver, client
<1>2. Len(wire) \in Nat
  BY RequestFacts
<1>3. /\ Len(wire') = Len(wire) + 1
      /\ \A i \in 1 .. Len(wire) : wire'[i] = wire[i]
      /\ wire'[Len(wire) + 1] = <<op, nack>>
  BY <1>1, <1>2 DEF HostInv, HostRanges
<1>4. Follows(0)'
  <2>1. /\ Len(wire) < Total(request) /\ op = Frame(request)[Len(wire) + 1]
        /\ \A i \in 1 .. Len(wire) : wire[i][1] = Frame(request)[i]
    BY <1>1, <1>2 DEF Running, Follows
  <2>2. Total(request) \in Nat
    BY RequestFacts
  <2>3. Len(wire') - 0 <= Total(request)
    BY <1>2, <1>3, <2>1, <2>2
  <2>4. ASSUME NEW i \in 1 .. (Len(wire') - 0)
        PROVE  wire'[i][1] = Frame(request)[i]
    <3>1. i \in 1 .. Len(wire) \/ i = Len(wire) + 1
      BY <1>2, <1>3
    <3> QED BY <1>3, <2>1, <3>1
  <2> QED BY <1>1, <2>3, <2>4 DEF Follows
<1>5. RefusedOnly(0)
  BY <1>1 DEF Running
<1>6. RefusedOnly(IF state \in Answers /\ op = Idle /\ ACKSTAT = 1
                  THEN Len(wire) ELSE 0)'
  <2>1. Sends(op) <=> state \in Answers
    BY <1>1 DEF Running
  <2>2. (IF state' \in Answers /\ op' = Idle /\ ACKSTAT' = 1
         THEN Len(wire') ELSE 0) = IF nack = 1 THEN Len(wire) + 1 ELSE 0
    BY <1>1, <1>3, <2>1
  <2>3. \A i \in 1 .. Len(wire) : wire[i][2] = 0
    BY <1>2, <1>5 DEF RefusedOnly
  <2>4. ASSUME NEW i \in 1 .. Len(wire')
        PROVE  wire'[i][2] = IF i = (IF nack = 1 THEN Len(wire) + 1 ELSE 0)
                             THEN 1 ELSE 0
    <3>1. i \in 1 .. Len(wire) \/ i = Len(wire) + 1
      BY <1>2, <1>3
    <3>2. CASE i \in 1 .. Len(wire)
      BY <1>2, <1>3, <2>3, <3>2
    <3>3. CASE i = Len(wire) + 1
      BY <1>2, <1>3, <3>3
    <3> QED BY <3>1, <3>2, <3>3
  <2> QED BY <2>2, <2>4 DEF RefusedOnly
<1>7. Started' = Started
  BY <1>1, <1>2, <1>3 DEF Started
<1>8. \/ readDataCount' = request'.read /\ Place(Started, request)'
      \/ ReadPlace(Started, request)'
  BY <1>1, <1>7 DEF Running, Place, ReadPlace, AtStart, AtRestart
<1>9. state' = "STOP" =>
        (request'.read = 0 <=> IF op' = Idle THEN P' ELSE op' = Stop)
  <2>1. op # Start => ~P
    BY <1>1 DEF HostInv, BusInv
  <2>2. state = "STOP" => (request.read = 0 <=> op = Stop)
    BY <1>1 DEF Running
  <2>3. P' <=> op = Stop
    BY <1>1, <2>1, OpsDiffer
  <2> QED BY <1>1, <2>2, <2>3
<1>10. /\ error' = "NONE" /\ ~BCL' /\ is10BitAddressMode' = request'.ten
       /\ Len(readData') = request'.read - readDataCount'
       /\ Len(wire') > 0
  BY <1>1, <1>2, <1>3 DEF Running
<1> QED BY <1>1, <1>4, <1>6, <1>8, <1>9, <1>10 DEF Running


\* An interrupt of a running transfer: the next operation of the frame is
\* started, or a refusal answered with a Stop condition, or all is done.
LEMMA RunningInterrupt ==
  ASSUME HostInv, Running, request \in Transfers, op = Idle,
         HostDataProcess, I2C1IF' = FALSE,
         UNCHANGED <<wire, request, is10BitAddressMode, BCL, P>>
  PROVE  Running' \/ Refusing' \/ Over'
<1> DEFINE w == request.write
           d == request.read
           a == AddressLen(request)
           f == Frame(request)
           k == Len(wire)
<1>1. /\ w \in Nat /\ d \in Nat /\ request.ten \in BOOLEAN
      /\ w > 0 \/ (d > 0 /\ ~request.ten)
      /\ a = (IF request.ten THEN 2 ELSE 1)
      /\ k \in Nat /\ Len(readData) \in Nat
      /\ Total(request) \in Nat /\ Before(request) \in Nat
      /\ FrameShape(request, f)
  BY RequestFacts
<1>2. /\ Started = k
      /\ (readDataCount = d /\ Place(k, request)) \/ ReadPlace(k, request)
  BY <1>1 DEF Started, Running
<1>3. /\ error = "NONE" /\ is10BitAddressMode = request.ten
      /\ Len(readData) = d - readDataCount
      /\ readDataCount \in Int /\ writeDataCount \in Nat
      /\ isWriteMode \in BOOLEAN /\ BCL = FALSE
  BY DEF Running, HostInv, HostRanges, HostFlags
<1>4. state \in HostStates /\ ACKSTAT \in {0, 1}
  BY DEF HostInv, HostRanges
<1>5. /\ Follows(0)
      /\ state \in Answers => k > 0
      /\ RefusedOnly(IF state \in Answers /\ ACKSTAT = 1 THEN k ELSE 0)
      /\ state = "STOP" => (d = 0 <=> P)
  BY DEF Running
<1>6. CASE ProcessIdle
  <2>0. state = "IDLE"
    BY <1>4, <1>6 DEF ProcessIdle, HostStates
  <2>1. CASE readDataCount = d /\ Place(k, request)
    <3>1. /\ k = 0 /\ writeDataCount = w
          /\ isWriteMode = (w > 0) /\ readDataCount = d
      BY <2>0, <2>1 DEF Place, AtStart, AddressState
    <3>2. Wanted
      BY <1>1, <1>3, <3>1 DEF Wanted
    <3>3. /\ state' = AddressState(request.ten) /\ op' = Start
          /\ UNCHANGED <<error, writeDataCount, readDataCount, isWriteMode,
                         readData>>
      BY <1>3, <1>6, <3>2, Issued DEF ProcessIdle, transfer
    <3>4. f[k + 1] = Start /\ k < Total(request)
      BY <1>1, <3>1 DEF FrameShape, Total, Before
    <3>5. Place(k + 1, request)'
      BY <3>1, <3>3 DEF Place, AtStart
    <3>6. state' \notin Answers /\ state' # "STOP"
      BY <3>3 DEF AddressState, Answers
    <3>7. ~(state \in Answers /\ ACKSTAT = 1)
      BY <2>0 DEF Answers
    <3>8. Running'
      BY <1>3, <3>1, <3>3, <3>4, <3>5, <3>6, <3>7,
         OpsDiffer, Advance
    <3> QED BY <3>8
  <2>2. CASE ReadPlace(k, request)
    <3>1. writeDataCount = 0 /\ readDataCount = 0 /\ k = Total(request)
      BY <2>0, <2>2 DEF ReadPlace
    <3>2. ~Wanted
      BY <3>1 DEF Wanted
    <3>3. UNCHANGED <<state, op, error, readData>>
      BY <1>6, <3>2 DEF ProcessIdle, NoIssue, transfer
    <3>4. Complete'
      <4>1. Len(readData) = request.read
        BY <1>1, <1>3, <3>1
      <4>2. Follows(0)' /\ RefusedOnly(0)'
        BY <1>5, <2>0 DEF Follows, RefusedOnly, Answers
      <4> QED BY <3>1, <3>3, <4>1, <4>2 DEF Complete
    <3> QED BY <1>3, <2>0, <3>3, <3>4 DEF Over
  <2> QED BY <1>2, <2>1, <2>2

\* The client refused a byte.
<1>7. ASSUME state \in Answers, ACKSTAT = 1, Refused PROVE Refusing'
  <2>1. op' = Stop /\ error' = "NACK" /\ state' = "STOP"
    BY <1>7, Issued DEF Refused
  <2>2. k > 0 /\ Follows(0)' /\ RefusedOnly(Len(wire))'
    BY <1>5, <1>7 DEF Follows, RefusedOnly
  <2> QED BY <1>3, <2>1, <2>2 DEF Refusing
<1>8. CASE ProcessHigherAddress
  <2>0. state = "SEND_10BIT_HIGHER_ADDRESS"
    BY <1>8 DEF ProcessHigherAddress
  <2>1. /\ readDataCount = d /\ request.ten
        /\ (k = 1 /\ AtStart(request)) \/ AtRestart(k, request)
    BY <1>2, <2>0 DEF Place, ReadPlace, AddressState
  <2>2. /\ op' = High(IF isWriteMode THEN 0 ELSE 1)
        /\ state' = (IF isWriteMode THEN "SEND_10BIT_LOWER_ADDRESS"
                     ELSE "CHECK_ADDRESS_ACK")
        /\ UNCHANGED <<error, writeDataCount, readDataCount, isWriteMode,
                       readData>>
    BY <1>8, Issued DEF ProcessHigherAddress, transfer, RW
  <2>3. ~(state \in Answers /\ ACKSTAT = 1)
    BY <2>0 DEF Answers
  <2>4. state' \in Answers /\ state' # "STOP"
    BY <2>2 DEF Answers
  <2>5. CASE k = 1 /\ AtStart(request)
    <3>1. w > 0 /\ isWriteMode = TRUE /\ writeDataCount = w
      BY <1>1, <2>1, <2>5 DEF AtStart
    <3>2. op' = High(0) /\ state' = "SEND_10BIT_LOWER_ADDRESS"
      BY <2>2, <3>1
    <3>3. f[k + 1] = High(0)
      BY <1>1, <2>1, <2>5, <3>1 DEF FrameShape
    <3>4. k < Total(request)
      BY <1>1, <2>5, <3>1 DEF Total, Before
    <3>5. Place(k + 1, request)'
      <4>1. /\ Len(wire') + 1 = 2 /\ request'.ten /\ isWriteMode' = TRUE
            /\ request'.write > 0 /\ writeDataCount' = request'.write
        BY <2>1, <2>2, <2>5, <3>1
      <4> QED BY <3>2, <4>1 DEF Place
    <3>6. Running'
      BY <1>3, <2>1, <2>2, <2>3, <2>4, <3>2, <3>3, <3>4, <3>5,
         OpsDiffer, Advance
    <3> QED BY <3>6
  <2>6. CASE AtRestart(k, request)
    <3>1. /\ w > 0 /\ d > 0 /\ isWriteMode = FALSE /\ writeDataCount = 0
          /\ k = 2 + a + w
      BY <2>6 DEF AtRestart
    <3>2. op' = High(1) /\ state' = "CHECK_ADDRESS_ACK"
      BY <2>2, <3>1
    <3>3. k + 1 = Before(request) /\ k < Total(request)
      <4>1. Before(request) = 3 + a + w
        BY <1>1, <3>1 DEF Before
      <4>2. Total(request) = Before(request) + 2 * d + 1
        BY <3>1 DEF Total
      <4>3. a \in Nat /\ w \in Nat /\ d \in Nat /\ k \in Nat
        BY <1>1
      <4> HIDE DEF a, w, d, k
      <4> QED BY <3>1, <4>1, <4>2, <4>3
    <3>4. f[k + 1] = High(1)
      BY <1>1, <2>1, <3>1, <3>3 DEF FrameShape
    <3>5. Place(k + 1, request)'
      BY <2>1, <2>2, <3>1, <3>2, <3>3 DEF Place
    <3>6. Running'
      BY <1>3, <2>1, <2>2, <2>3, <2>4, <3>2, <3>3, <3>4, <3>5,
         OpsDiffer, Advance
    <3> QED BY <3>6
  <2> QED BY <2>1, <2>5, <2>6
<1>9. CASE Process7BitAddress
  <2>0. state = "SEND_7BIT_ADDRESS"
    BY <1>9 DEF Process7BitAddress
  <2>1. /\ readDataCount = d /\ ~request.ten
        /\ (k = 1 /\ AtStart(request)) \/ AtRestart(k, request)
    BY <1>2, <2>0 DEF Place, ReadPlace, AddressState
  <2>2. /\ op' = Low(IF isWriteMode THEN 0 ELSE 1)
        /\ state' = (IF isWriteMode THEN "SEND_DATA" ELSE "CHECK_ADDRESS_ACK")
        /\ UNCHANGED <<error, writeDataCount, readDataCount, isWriteMode,
                       readData>>
    BY <1>9, Issued DEF Process7BitAddress, transfer, RW, AfterAddress
  <2>3. ~(state \in Answers /\ ACKSTAT = 1)
    BY <2>0 DEF Answers
  <2>4. state' \in Answers /\ state' # "STOP"
    BY <2>2 DEF Answers
  <2>5. CASE k = 1 /\ AtStart(request) /\ w > 0
    <3>1. isWriteMode = TRUE /\ writeDataCount = w /\ a = 1
      BY <1>1, <2>1, <2>5 DEF AtStart
    <3>2. op' = Low(0) /\ state' = "SEND_DATA"
      BY <2>2, <3>1
    <3>3. f[k + 1] = Low(0)
      BY <1>1, <2>1, <2>5 DEF FrameShape
    <3>4. k < Total(request)
      BY <1>1, <2>5 DEF Total, Before
    <3>5. k + 1 = 1 + a + w - writeDataCount /\ writeDataCount <= w
      BY <1>1, <2>5, <3>1
    <3>6. Place(k + 1, request)'
      BY <2>1, <2>2, <2>5, <3>1, <3>2, <3>5 DEF Place
    <3>7. Running'
      BY <1>3, <2>1, <2>2, <2>3, <2>4, <3>2, <3>3, <3>4, <3>6,
         OpsDiffer, Advance
    <3> QED BY <3>7
  <2>6. CASE AtRestart(k, request) \/ (k = 1 /\ AtStart(request) /\ w = 0)
    <3>1. /\ d > 0 /\ isWriteMode = FALSE /\ writeDataCount = 0
          /\ k + 1 = Before(request)
      <4>1. CASE AtRestart(k, request)
        BY <1>1, <4>1 DEF AtRestart, Before
      <4>2. CASE k = 1 /\ AtStart(request) /\ w = 0
        BY <1>1, <4>2 DEF AtStart, Before
      <4> QED BY <2>6, <4>1, <4>2
    <3>2. op' = Low(1) /\ state' = "CHECK_ADDRESS_ACK"
      BY <2>2, <3>1
    <3>3. k < Total(request)
      BY <1>1, <3>1 DEF Total
    <3>4. f[k + 1] = Low(1)
      BY <1>1, <2>1, <3>1 DEF FrameShape
    <3>5. Place(k + 1, request)'
      BY <2>1, <2>2, <3>1, <3>2 DEF Place
    <3>6. Running'
      BY <1>3, <2>1, <2>2, <2>3, <2>4, <3>2, <3>3, <3>4, <3>5,
         OpsDiffer, Advance
    <3> QED BY <3>6
  <2> QED BY <1>1, <2>1, <2>5, <2>6
<1>10. CASE ProcessLowerAddress
  <2>0. state = "SEND_10BIT_LOWER_ADDRESS"
    BY <1>10 DEF ProcessLowerAddress
  <2>1. /\ readDataCount = d /\ request.ten /\ k = 2 /\ isWriteMode = TRUE
        /\ w > 0 /\ writeDataCount = w /\ a = 2
    BY <1>1, <1>2, <2>0 DEF Place, ReadPlace, AddressState
  <2>2. CASE ACKSTAT = 0
    <3>1. /\ op' = Low(0) /\ state' = "SEND_DATA"
          /\ UNCHANGED <<error, writeDataCount, readDataCount, isWriteMode,
                         readData>>
      BY <1>10, <2>1, <2>2, Issued DEF ProcessLowerAddress, AfterAddress
    <3>2. f[k + 1] = Low(0)
      BY <1>1, <2>1 DEF FrameShape
    <3>3. k < Total(request)
      BY <1>1, <2>1 DEF Total, Before
    <3>4. k + 1 = 1 + a + w - writeDataCount /\ writeDataCount <= w
      BY <1>1, <2>1
    <3>5. Place(k + 1, request)'
      BY <2>1, <3>1, <3>4 DEF Place
    <3>6. state' \in Answers /\ state' # "STOP"
      BY <3>1 DEF Answers
    <3>7. Running'
      BY <1>3, <2>1, <2>2, <3>1, <3>2, <3>3, <3>5, <3>6,
         OpsDiffer, Advance
    <3> QED BY <3>7
  <2>3. CASE ACKSTAT = 1
    BY <1>7, <1>10, <2>0, <2>3 DEF ProcessLowerAddress, Answers
  <2> QED BY <1>4, <2>2, <2>3
<1>11. CASE ProcessSendData
  <2>0. /\ state = "SEND_DATA" /\ state \in Answers
        /\ UNCHANGED <<readDataCount, readData>>
    BY <1>11 DEF ProcessSendData, Answers
  <2>1. /\ readDataCount = d /\ k = 1 + a + w - writeDataCount
        /\ isWriteMode = TRUE /\ w > 0 /\ writeDataCount <= w
    BY <1>2, <2>0 DEF Place, ReadPlace, AddressState
  <2>2. a \in Nat /\ w \in Nat /\ d \in Nat /\ k \in Nat
    BY <1>1
  <2>3. Total(request) = IF d > 0 THEN 4 + a + w + 2 * d ELSE 2 + a + w
    <3>1. /\ Before(request) = 3 + a + w
          /\ d > 0 => Total(request) = Before(request) + 2 * d + 1
          /\ ~(d > 0) => Total(request) = 2 + a + w
      BY <2>1, <2>2 DEF Total, Before
    <3> HIDE DEF a, w, d, k
    <3> QED BY <2>2, <3>1
  <2>4. CASE ACKSTAT = 0 /\ ~AllSent
    <3>1. /\ op' = Data(w - writeDataCount + 1)
          /\ writeDataCount' = writeDataCount - 1
          /\ UNCHANGED <<state, error, isWriteMode>>
      BY <1>11, <2>4, Issued DEF ProcessSendData
    <3>2. /\ w - writeDataCount + 1 \in 1 .. w /\ writeDataCount - 1 <= w
          /\ 1 + a + (w - writeDataCount + 1) = k + 1
          /\ k + 1 = 1 + a + w - (writeDataCount - 1)
      <4>1. writeDataCount > 0
        BY <1>3, <2>4 DEF AllSent
      <4> HIDE DEF a, w, d, k
      <4> QED BY <1>3, <2>1, <2>2, <4>1
    <3>3. f[k + 1] = Data(w - writeDataCount + 1)
      BY <1>1, <3>2 DEF FrameShape
    <3>4. k < Total(request)
      <4> HIDE DEF a, w, d, k
      <4> QED BY <1>3, <2>1, <2>2, <2>3
    <3>5. Place(k + 1, request)'
      <4>1. /\ Len(wire') + 1
                 = 1 + AddressLen(request)' + request'.write - writeDataCount'
            /\ isWriteMode' = TRUE /\ state' = "SEND_DATA"
            /\ request'.write > 0 /\ writeDataCount' <= request'.write
        BY <2>0, <2>1, <3>1, <3>2 DEF AddressLen
      <4> QED BY <4>1 DEF Place
    <3>6. state' \in Answers /\ state' # "STOP"
      BY <2>0, <3>1 DEF Answers
    <3>7. w - writeDataCount + 1 \in Int
      BY <3>2
    <3>8. Running'
      BY <1>3, <2>0, <2>1, <2>4, <3>1, <3>3, <3>4, <3>5, <3>6, <3>7,
         OpsDiffer, Advance
    <3> QED BY <3>8
  <2>5. CASE ACKSTAT = 0 /\ AllSent /\ readDataCount > 0
    <3>1. /\ op' = ReStart /\ isWriteMode' = FALSE
          /\ state' = AddressState(is10BitAddressMode)
          /\ UNCHANGED <<error, writeDataCount>>
      BY <1>11, <2>5, Issued DEF ProcessSendData
    <3>2. writeDataCount = 0 /\ k + 1 = 2 + a + w /\ d > 0
      <4>1. writeDataCount = 0 /\ d > 0
        BY <2>1, <2>5 DEF AllSent
      <4> HIDE DEF a, w, d, k
      <4> QED BY <2>1, <2>2, <4>1
    <3>3. f[k + 1] = ReStart
      BY <1>1, <2>1, <3>2 DEF FrameShape
    <3>4. k < Total(request)
      <4> HIDE DEF a, w, d, k
      <4> QED BY <2>2, <2>3, <3>2
    <3>5. Place(k + 1, request)'
      <4>1. AtRestart(k + 1, request)'
        BY <2>1, <3>1, <3>2 DEF AtRestart, AddressLen
      <4>2. state' = AddressState(request'.ten)
        BY <1>3, <3>1
      <4> QED BY <4>1, <4>2 DEF Place
    <3>6. state' \notin Answers /\ state' # "STOP"
      BY <3>1 DEF AddressState, Answers
    <3>7. Running'
      BY <1>3, <2>0, <2>1, <2>5, <3>1, <3>3, <3>4, <3>5, <3>6,
         OpsDiffer, Advance
    <3> QED BY <3>7
  <2>6. CASE ACKSTAT = 0 /\ AllSent /\ readDataCount = 0
    <3>1. op' = Stop /\ state' = "STOP" /\ error' = "NONE"
          /\ UNCHANGED writeDataCount
      BY <1>11, <2>6, Issued DEF ProcessSendData
    <3>2. writeDataCount = 0 /\ d = 0
      BY <2>1, <2>6 DEF AllSent
    <3>3. k + 1 = Total(request) /\ k < Total(request)
      <4> HIDE DEF a, w, d, k
      <4> QED BY <2>1, <2>2, <2>3, <3>2
    <3>4. f[k + 1] = Stop
      BY <1>1, <3>3 DEF FrameShape
    <3>5. ReadPlace(k + 1, request)'
      <4>1. /\ writeDataCount' = 0 /\ readDataCount' = 0 /\ request'.read = 0
            /\ Len(wire') + 1 = Total(request)'
        BY <2>0, <2>6, <3>1, <3>2, <3>3
      <4> QED BY <3>1, <4>1 DEF ReadPlace
    <3>6. state' \notin Answers
      BY <3>1 DEF Answers
    <3>7. Running'
      BY <1>3, <2>0, <2>1, <2>6, <3>1, <3>2, <3>3, <3>4, <3>5, <3>6, OpsDiffer,
         Advance
    <3> QED BY <3>7
  <2>7. CASE ACKSTAT = 1
    BY <1>7, <1>11, <2>0, <2>7 DEF ProcessSendData
  <2> QED BY <1>11, <2>4, <2>5, <2>6, <2>7 DEF ProcessSendData
<1>12. CASE ProcessCheckAck
  <2>0. state = "CHECK_ADDRESS_ACK" /\ state \in Answers
    BY <1>12 DEF ProcessCheckAck, Answers
  <2>1. /\ readDataCount = d /\ k = Before(request) /\ d > 0
        /\ writeDataCount = 0
    BY <1>2, <2>0 DEF Place, ReadPlace, AddressState
  <2>2. CASE ACKSTAT = 0
    <3>1. /\ op' = Receive /\ state' = "RECEIVE_DATA"
          /\ UNCHANGED <<error, writeDataCount, readDataCount, readData>>
      BY <1>12, <2>2, Issued DEF ProcessCheckAck
    <3>2. k < Total(request)
      BY <1>1, <2>1 DEF Total
    <3>3. f[k + 1] = Receive
      <4>1. 1 \in 1 .. d /\ Before(request) + 2 * 1 - 1 = k + 1
        BY <1>1, <2>1
      <4> QED BY <1>1, <4>1 DEF FrameShape
    <3>4. ReadPlace(k + 1, request)'
      <4>1. /\ writeDataCount' = 0 /\ readDataCount' > 0
            /\ Len(wire') + 1 = Before(request)'
                                + 2 * (request'.read - readDataCount') + 1
        BY <1>1, <2>1, <3>1
      <4> QED BY <3>1, <4>1 DEF ReadPlace
    <3>5. state' \notin Answers /\ state' # "STOP"
      BY <3>1 DEF Answers
    <3>6. Running'
      BY <1>3, <2>1, <2>2, <3>1, <3>2, <3>3, <3>4, <3>5,
         OpsDiffer, Advance
    <3> QED BY <3>6
  <2>3. CASE ACKSTAT = 1
    BY <1>7, <1>12, <2>0, <2>3 DEF ProcessCheckAck
  <2> QED BY <1>4, <2>2, <2>3
<1>13. CASE ProcessReceive
  <2>0. state = "RECEIVE_DATA" /\ RBF = TRUE /\ state \notin Answers
    BY <1>3, <1>13 DEF ProcessReceive, HostInv, HostFlags, BusInv, Answers
  <2>1. /\ writeDataCount = 0 /\ readDataCount > 0
        /\ k = Before(request) + 2 * (d - readDataCount) + 1
    BY <1>2, <2>0 DEF Place, ReadPlace, AddressState
  <2>2. /\ readData' = Append(readData, NextByte)
        /\ readDataCount' = readDataCount - 1
        /\ UNCHANGED <<error, writeDataCount>>
    BY <1>13, <2>0 DEF ProcessReceive
  <2>3. Len(readData') = d - readDataCount'
    <3>1. Len(readData') = Len(readData) + 1
      BY <2>2 DEF HostInv, HostRanges
    <3> QED BY <1>1, <1>3, <2>2, <3>1
  <2>4. /\ d \in Nat /\ k \in Nat /\ Before(request) \in Nat
        /\ readDataCount <= d /\ readDataCount \in Int /\ d > 0
    BY <1>1, <1>3, <2>1
  <2>5. Total(request) = Before(request) + 2 * d + 1
    BY <2>4 DEF Total
  <2>6. /\ k < Total(request) /\ d - readDataCount + 1 \in 1 .. d
        /\ k + 1 = Before(request) + 2 * (d - readDataCount + 1)
        /\ k + 1 = Before(request) + 2 * (d - (readDataCount - 1))
        /\ d - readDataCount + 1 = d <=> readDataCount = 1
        /\ readDataCount = 1 => k + 1 = Total(request) - 1
    <3> HIDE DEF d, k
    <3> QED BY <2>1, <2>4, <2>5
  <2>7. f[k + 1] = Ack(IF readDataCount = 1 THEN 1 ELSE 0)
    <3>1. f[Before(request) + 2 * (d - readDataCount + 1)]
            = Ack(IF d - readDataCount + 1 = d THEN 1 ELSE 0)
      BY <1>1, <2>6 DEF FrameShape
    <3> QED BY <2>6, <3>1
  <2>8. CASE MoreToRead
    <3>1. op' = Ack(0) /\ state' = "RECEIVE_WAIT_ACK"
      BY <1>13, <2>0, <2>8, Issued DEF ProcessReceive
    <3>2. readDataCount > 1
      BY <2>8 DEF MoreToRead
    <3>3. f[k + 1] = Ack(0)
      BY <2>7, <3>2
    <3>4. ReadPlace(k + 1, request)'
      <4>1. /\ writeDataCount' = 0 /\ readDataCount' > 0
            /\ Len(wire') + 1 = Before(request)'
                                + 2 * (request'.read - readDataCount')
        BY <1>3, <2>1, <2>2, <2>6, <3>2
      <4> QED BY <3>1, <4>1 DEF ReadPlace
    <3>5. state' \notin Answers /\ state' # "STOP"
      BY <3>1 DEF Answers
    <3>6. Running'
      BY <1>3, <2>0, <2>2, <2>3, <2>6, <3>1, <3>3, <3>4, <3>5,
         OpsDiffer, Advance
    <3> QED BY <3>6
  <2>9. CASE ~MoreToRead
    <3>1. op' = Ack(1) /\ state' = "STOP"
      BY <1>13, <2>0, <2>9, Issued DEF ProcessReceive
    <3>2. readDataCount = 1
      BY <1>3, <2>1, <2>9 DEF MoreToRead
    <3>3. f[k + 1] = Ack(1)
      BY <2>7, <3>2
    <3>4. ReadPlace(k + 1, request)'
      <4>1. /\ writeDataCount' = 0 /\ readDataCount' = 0 /\ request'.read # 0
            /\ Len(wire') + 1 = Total(request)' - 1
        BY <2>1, <2>2, <2>4, <2>6, <3>2
      <4> QED BY <3>1, <4>1 DEF ReadPlace
    <3>5. state' \notin Answers /\ d # 0
      BY <2>4, <3>1 DEF Answers
    <3>6. Running'
      BY <1>3, <2>0, <2>2, <2>3, <2>6, <3>1, <3>3, <3>4, <3>5,
         OpsDiffer, Advance
    <3> QED BY <3>6
  <2> QED BY <2>8, <2>9
<1>14. CASE ProcessWaitAck
  <2>0. state = "RECEIVE_WAIT_ACK" /\ state \notin Answers
    BY <1>14 DEF ProcessWaitAck, Answers
  <2>1. /\ writeDataCount = 0 /\ readDataCount > 0
        /\ k = Before(request) + 2 * (d - readDataCount)
    BY <1>2, <2>0 DEF Place, ReadPlace, AddressState
  <2>2. /\ op' = Receive /\ state' = "RECEIVE_DATA"
        /\ UNCHANGED <<error, writeDataCount, readDataCount, readData>>
    BY <1>14, Issued DEF ProcessWaitAck, transfer
  <2>3. /\ d \in Nat /\ k \in Nat /\ Before(request) \in Nat
        /\ readDataCount <= d /\ readDataCount \in Int /\ d > 0
    BY <1>1, <1>3, <2>1
  <2>4. Total(request) = Before(request) + 2 * d + 1
    BY <2>3 DEF Total
  <2>5. /\ k < Total(request) /\ d - readDataCount + 1 \in 1 .. d
        /\ k + 1 = Before(request) + 2 * (d - readDataCount + 1) - 1
        /\ k + 1 = Before(request) + 2 * (d - readDataCount) + 1
    <3> HIDE DEF d, k
    <3> QED BY <2>1, <2>3, <2>4
  <2>6. f[k + 1] = Receive
    BY <1>1, <2>5 DEF FrameShape
  <2>7. ReadPlace(k + 1, request)'
    <3>1. /\ writeDataCount' = 0 /\ readDataCount' > 0
          /\ Len(wire') + 1 = Before(request)'
                              + 2 * (request'.read - readDataCount') + 1
      BY <2>1, <2>2, <2>5
    <3> QED BY <2>2, <3>1 DEF ReadPlace
  <2>8. state' \notin Answers /\ state' # "STOP"
    BY <2>2 DEF Answers
  <2>9. Running'
    BY <1>3, <2>0, <2>2, <2>5, <2>6, <2>7, <2>8,
         OpsDiffer, Advance
  <2> QED BY <2>9
<1>15. CASE ProcessStop
  <2>0. /\ state = "STOP" /\ state \notin Answers /\ state' = "IDLE"
        /\ UNCHANGED <<error, writeDataCount, readDataCount, readData>>
    BY <1>15 DEF ProcessStop, transfer, Answers
  <2>1. /\ writeDataCount = 0 /\ readDataCount = 0
        /\ k = IF d = 0 THEN Total(request) ELSE Total(request) - 1
    BY <1>2, <2>0 DEF Place, ReadPlace, AddressState
  <2>2. Len(readData) = d
    BY <1>1, <1>3, <2>1
  <2>3. CASE d = 0
    <3>1. P
      BY <1>5, <2>0, <2>3
    <3>2. op' = Idle
      BY <1>15, <3>1 DEF ProcessStop, NoIssue
    <3>3. Complete'
      <4>1. Follows(0)' /\ RefusedOnly(0)'
        BY <1>5, <2>0 DEF Follows, RefusedOnly
      <4> QED BY <2>0, <2>1, <2>2, <2>3, <4>1 DEF Complete
    <3> QED BY <1>3, <2>0, <3>2, <3>3 DEF Over
  <2>4. CASE d # 0
    <3>1. ~P
      BY <1>5, <2>0, <2>4
    <3>2. op' = Stop
      BY <1>15, <3>1, Issued DEF ProcessStop
    <3>3. k + 1 = Total(request) /\ k < Total(request)
      BY <1>1, <2>1, <2>4
    <3>4. f[k + 1] = Stop
      BY <1>1, <3>3 DEF FrameShape
    <3>5. ReadPlace(k + 1, request)'
      <4>1. /\ writeDataCount' = 0 /\ readDataCount' = 0
            /\ Len(wire') + 1 = Total(request)'
        BY <2>0, <2>1, <3>3
      <4> QED BY <2>0, <4>1 DEF ReadPlace
    <3>6. state' \notin Answers
      BY <2>0 DEF Answers
    <3>7. Running'
      BY <1>3, <2>0, <2>1, <2>2, <3>2, <3>3, <3>4, <3>5, <3>6,
         OpsDiffer, Advance
    <3> QED BY <3>7
  <2> QED BY <2>3, <2>4
<1> QED
  BY <1>6, <1>8, <1>9, <1>10, <1>11, <1>12, <1>13, <1>14, <1>15
     DEF HostDataProcess

-----------------------------------------------------------------------------
(***************************************************************************)
(* What main learns                                                        *)
(***************************************************************************)
\* The operations carried out, as a sequence.
LEMMA OperationsSeq ==
  ASSUME HostRanges
  PROVE  /\ Operations \in Seq(Ops) /\ Len(Operations) = Len(wire)
         /\ \A i \in 1 .. Len(wire) : Operations[i] = wire[i][1]
         /\ Len(wire) \in Nat /\ DOMAIN wire = 1 .. Len(wire)
<1>1. wire \in Seq(Ops \X {0, 1}) /\ Len(wire) \in Nat
      /\ DOMAIN wire = 1 .. Len(wire)
  BY LenProperties DEF HostRanges
<1>2. \A i \in 1 .. Len(wire) : wire[i] \in Ops \X {0, 1}
  BY <1>1, ElementOfSeq
<1>3. Operations = [i \in 1 .. Len(wire) |-> wire[i][1]]
  BY <1>1 DEF Operations
<1>4. \A i \in 1 .. Len(wire) : wire[i][1] \in Ops
  BY <1>2
<1> QED BY <1>1, <1>3, <1>4

\* The first n members of two sequences that agree so far.
LEMMA PrefixEqual ==
  ASSUME NEW s \in Seq(Ops), NEW t \in Seq(Ops), NEW n \in Nat,
         n <= Len(s), n <= Len(t), \A i \in 1 .. n : s[i] = t[i]
  PROVE  SubSeq(s, 1, n) = SubSeq(t, 1, n)
<1>1. Len(s) \in Nat /\ Len(t) \in Nat
  BY LenProperties
<1>2. \A i \in 1 .. n : s[i] \in Ops /\ t[i] \in Ops
  BY <1>1, ElementOfSeq
<1>3. /\ SubSeq(s, 1, n) \in Seq(Ops)
      /\ Len(SubSeq(s, 1, n)) = (IF 1 <= n THEN n - 1 + 1 ELSE 0)
      /\ \A i \in 1 .. n - 1 + 1 : SubSeq(s, 1, n)[i] = s[1 + i - 1]
  BY <1>2, SubSeqProperties
<1>4. /\ SubSeq(t, 1, n) \in Seq(Ops)
      /\ Len(SubSeq(t, 1, n)) = (IF 1 <= n THEN n - 1 + 1 ELSE 0)
      /\ \A i \in 1 .. n - 1 + 1 : SubSeq(t, 1, n)[i] = t[1 + i - 1]
  BY <1>2, SubSeqProperties
<1>5. Len(SubSeq(s, 1, n)) = n /\ Len(SubSeq(t, 1, n)) = n
  BY <1>3, <1>4
<1>6. ASSUME NEW i \in 1 .. n PROVE SubSeq(s, 1, n)[i] = SubSeq(t, 1, n)[i]
  <2>1. i \in 1 .. n - 1 + 1 /\ 1 + i - 1 = i
    OBVIOUS
  <2> QED BY <1>3, <1>4, <2>1
<1> QED BY <1>3, <1>4, <1>5, <1>6, SeqEqual

\* Whatever the outcome, the bus saw what was requested.
LEMMA FollowsFrame ==
  ASSUME HostRanges, Follows(0),
         RefusedOnly(0) \/ RefusedOnly(Len(wire))
  PROVE  WireFollowsRequest
<1>1. /\ Operations \in Seq(Ops) /\ Len(Operations) = Len(wire)
      /\ \A i \in 1 .. Len(wire) : Operations[i] = wire[i][1]
      /\ Len(wire) \in Nat /\ DOMAIN wire = 1 .. Len(wire)
  BY OperationsSeq
<1>2. Frame(request) \in Seq(Ops) /\ Len(Frame(request)) = Total(request)
  BY FrameCorrect DEF HostRanges, FrameShape
<1>3. /\ Len(wire) <= Len(Frame(request))
      /\ \A i \in 1 .. Len(wire) : Operations[i] = Frame(request)[i]
  BY <1>1, <1>2 DEF Follows
<1>4. SubSeq(Operations, 1, Len(wire))
        = SubSeq(Frame(request), 1, Len(wire))
  BY <1>1, <1>2, <1>3, PrefixEqual
<1>5. RefusedAt \subseteq {Len(wire)}
  BY <1>1 DEF RefusedAt, RefusedOnly
<1> QED BY <1>1, <1>3, <1>4, <1>5 DEF WireFollowsRequest, IsPrefix

\* The same after a refusal and its Stop condition.
LEMMA StoppedFrame ==
  ASSUME HostRanges, Stopped
  PROVE  WireFollowsRequest
<1> DEFINE n == Len(wire) - 1
           ops == Operations
           f == Frame(request)
<1>1. /\ ops \in Seq(Ops) /\ Len(ops) = Len(wire)
      /\ \A i \in 1 .. Len(wire) : ops[i] = wire[i][1]
      /\ Len(wire) \in Nat /\ DOMAIN wire = 1 .. Len(wire)
  BY OperationsSeq
<1>2. f \in Seq(Ops) /\ Len(f) = Total(request)
  BY FrameCorrect DEF HostRanges, FrameShape
<1>3. /\ n \in Nat /\ n > 0 /\ n <= Len(f) /\ n <= Len(ops)
      /\ \A i \in 1 .. n : ops[i] = f[i]
  BY <1>1, <1>2 DEF Stopped, Follows
<1>4. RefusedAt = {Len(wire) - 1}
  <2>1. \A i \in 1 .. Len(wire) : wire[i][2] = 1 <=> i = Len(wire) - 1
    BY DEF Stopped, RefusedOnly
  <2>2. Len(wire) - 1 \in 1 .. Len(wire)
    BY <1>1, <1>3
  <2>3. RefusedAt = {i \in 1 .. Len(wire) : wire[i][2] = 1}
    BY <1>1 DEF RefusedAt
  <2> QED BY <2>1, <2>2, <2>3
<1>5. Last(ops) = Stop
  BY <1>1, <1>3 DEF Stopped, Last
<1>6. /\ Front(ops) \in Seq(Ops) /\ Len(Front(ops)) = n
      /\ \A i \in 1 .. n : Front(ops)[i] = ops[i]
  <2>1. \A i \in 1 .. n : ops[i] \in Ops
    BY <1>1, <1>3, ElementOfSeq
  <2>2. Front(ops) = SubSeq(ops, 1, n)
    BY <1>1 DEF Front
  <2>3. /\ SubSeq(ops, 1, n) \in Seq(Ops)
        /\ Len(SubSeq(ops, 1, n)) = (IF 1 <= n THEN n - 1 + 1 ELSE 0)
        /\ \A i \in 1 .. n - 1 + 1 : SubSeq(ops, 1, n)[i] = ops[1 + i - 1]
    BY <1>3, <2>1, SubSeqProperties
  <2> HIDE DEF ops, f, n
  <2>4. Len(SubSeq(ops, 1, n)) = n
    BY <1>3, <2>3
  <2>5. ASSUME NEW i \in 1 .. n PROVE SubSeq(ops, 1, n)[i] = ops[i]
    <3>1. i \in 1 .. n - 1 + 1 /\ 1 + i - 1 = i
      BY <1>3
    <3> QED BY <2>3, <3>1
  <2> QED BY <2>2, <2>3, <2>4, <2>5
<1>7. SubSeq(Front(ops), 1, n) = SubSeq(f, 1, n)
  <2> HIDE DEF ops, f, n
  <2>1. \A i \in 1 .. n : Front(ops)[i] = f[i]
    BY <1>3, <1>6
  <2> QED BY <1>2, <1>3, <1>6, <2>1, PrefixEqual
<1>8. IsPrefix(Front(ops), f)
  BY <1>3, <1>6, <1>7 DEF IsPrefix
<1> QED BY <1>4, <1>5, <1>8 DEF WireFollowsRequest

\* What main learns at the end of the poll is right.
LEMMA OverResult ==
  ASSUME HostRanges, BytesInv, Over
  PROVE  /\ error = "NONE" => /\ Operations = Frame(request)
                              /\ RefusedAt = {}
                              /\ readData = [i \in 1 .. request.read |-> i]
         /\ error # "NONE" => \/ Operations # Frame(request)
                              \/ RefusedAt # {}
<1> DEFINE ops == Operations
           f == Frame(request)
<1>1. /\ ops \in Seq(Ops) /\ Len(ops) = Len(wire)
      /\ \A i \in 1 .. Len(wire) : ops[i] = wire[i][1]
      /\ Len(wire) \in Nat /\ DOMAIN wire = 1 .. Len(wire)
  BY OperationsSeq
<1>2. f \in Seq(Ops) /\ Len(f) = Total(request)
  BY FrameCorrect DEF HostRanges, FrameShape
<1>3. CASE error = "NONE"
  <2>1. Complete
    BY <1>3 DEF Over
  <2>2. Len(ops) = Len(f) /\ \A i \in 1 .. Len(ops) : ops[i] = f[i]
    BY <1>1, <1>2, <2>1 DEF Complete, Follows
  <2>3. ops = f
    BY <1>1, <1>2, <2>2, SeqEqual
  <2>4. RefusedAt = {}
    BY <1>1, <2>1 DEF Complete, RefusedOnly, RefusedAt
  <2>5. readData = [i \in 1 .. request.read |-> i]
    <3>1. readData \in Seq(Nat) /\ DOMAIN readData = 1 .. Len(readData)
          /\ readData \in [1 .. Len(readData) -> Nat]
      BY LenProperties DEF HostRanges
    <3>2. Len(readData) = request.read
          /\ \A i \in 1 .. Len(readData) : readData[i] = i
      BY <2>1 DEF Complete, BytesInv
    <3> QED BY <3>1, <3>2
  <2> QED BY <1>3, <2>3, <2>4, <2>5
<1>4. CASE error # "NONE"
  <2>1. CASE Len(wire) < Total(request)
    BY <1>1, <1>2, <1>4, <2>1
  <2>2. ASSUME NEW i \in 1 .. Len(wire), wire[i][2] = 1
        PROVE  RefusedAt # {}
    BY <1>1, <2>2 DEF RefusedAt
  <2>3. CASE Len(wire) > 0 /\ RefusedOnly(Len(wire))
    BY <1>1, <1>4, <2>2, <2>3 DEF RefusedOnly
  <2>4. CASE Stopped
    <3>1. Len(wire) - 1 \in 1 .. Len(wire) /\ wire[Len(wire) - 1][2] = 1
      BY <1>1, <2>4 DEF Stopped, RefusedOnly
    <3> QED BY <1>4, <2>2, <3>1
  <2> QED BY <1>4, <2>1, <2>3, <2>4 DEF Over, Cut
<1> QED BY <1>3, <1>4

\* The three parts of the invariant together.
I2cInv == HostInv /\ BytesInv /\ ProgressInv

\* ProgressInv holds initially.
LEMMA ProgressInit == HostInit => ProgressInv
<1> SUFFICES ASSUME HostInit PROVE ProgressInv
  OBVIOUS
<1>1. macpc = "idle" /\ error = "NONE" /\ wire = <<>> /\ success = "none"
      /\ HostRanges
  BY HostInvInit DEF HostInit, HostInv
<1>2. Total(request) \in Nat
  BY <1>1, FrameCorrect, LenProperties DEF HostRanges, FrameShape
<1>3. Follows(0) /\ RefusedOnly(0)
  BY <1>1, <1>2 DEF Follows, RefusedOnly
<1>4. WireFollowsRequest
  BY <1>1, <1>3, FollowsFrame
<1>5. ResultRight
  BY <1>1 DEF ResultRight
<1> QED BY <1>1, <1>4, <1>5 DEF ProgressInv

\* A step that leaves the transfer alone.
LEMMA ProgressSame ==
  ASSUME ProgressInv, (macpc = "idle") = (macpc' = "idle"),
         UNCHANGED <<state, error, writeDataCount, readDataCount, isWriteMode,
                     is10BitAddressMode, readData, I2C1IF, ACKSTAT, BCL, op,
                     request, success, wire>>,
         state # "IDLE" => P' = P
  PROVE  ProgressInv'
<1>1. WireFollowsRequest => WireFollowsRequest'
  BY Zenon DEF WireFollowsRequest, Operations, RefusedAt
<1>2. ResultRight => ResultRight'
  BY Zenon DEF ResultRight, Operations, RefusedAt
<1>3. Running => Running'
  BY DEF Running, Follows, RefusedOnly, Place, ReadPlace, AtStart, AtRestart,
         Started
<1>4. BCL /\ Cut => BCL' /\ Cut'
  BY DEF Cut, Follows, RefusedOnly
<1>5. Stopped => Stopped'
  BY DEF Stopped, Follows, RefusedOnly
<1>6. Refusing => Refusing'
  BY <1>5 DEF Refusing, Follows, RefusedOnly
<1>7. Cut => Cut'
  BY DEF Cut, Follows, RefusedOnly
<1>8. Complete => Complete'
  BY DEF Complete, Follows, RefusedOnly
<1>9. Over => Over'
  BY <1>5, <1>7, <1>8 DEF Over
<1> QED
  BY <1>1, <1>2, <1>3, <1>4, <1>6, <1>9 DEF ProgressInv

\* One interrupt preserves ProgressInv.
LEMMA ProgressInterrupt ==
  ASSUME I2cInv, Interrupt
  PROVE  ProgressInv'
<1>1. /\ I2C1IF /\ I2C1IF' = FALSE
      /\ UNCHANGED <<is10BitAddressMode, ACKSTAT, S, P, macpc, request, i2cBusy,
                     success, wire>>
  BY DEF Interrupt, FlagAfter, client
<1>2. macpc # "idle" /\ op = Idle /\ ~IWCOL
  BY <1>1 DEF I2cInv, HostInv, BusInv, Polling
<1>3. /\ request \in Transfers /\ success = "none"
      /\ Running \/ (BCL /\ Cut) \/ Refusing \/ Over
  BY <1>2 DEF I2cInv, ProgressInv
<1>4. CASE BCL /\ Cut
  <2>1. state' = "IDLE" /\ error' = "BUS_COLLISION" /\ op' = op
    BY <1>2, <1>4 DEF Interrupt, ErrorAfterCollision
  <2>2. Cut'
    BY <1>1, <1>4 DEF Cut, Follows, RefusedOnly
  <2>3. Over'
    BY <1>1, <1>2, <2>1, <2>2 DEF Over
  <2> QED BY <1>1, <1>2, <1>3, <2>3 DEF ProgressInv
<1>5. CASE Running
  <2>1. ~BCL
    BY <1>5 DEF Running
  <2>2. HostDataProcess /\ BCL' = BCL
    BY <1>2, <2>1 DEF Interrupt
  <2>3. Running' \/ Refusing' \/ Over'
    BY <1>1, <1>2, <1>3, <1>5, <2>2, RunningInterrupt DEF I2cInv
  <2> QED BY <1>1, <1>2, <1>3, <2>3 DEF ProgressInv
<1>6. CASE Refusing
  <2>1. ~BCL /\ state = "STOP" /\ error = "NACK" /\ P /\ Stopped
    BY <1>2, <1>6, OpsDiffer DEF Refusing
  <2>2. ProcessStop
    BY <1>2, <2>1 DEF Interrupt, HostDataProcess, ProcessIdle,
       ProcessHigherAddress, ProcessLowerAddress, Process7BitAddress,
       ProcessSendData, ProcessCheckAck, ProcessReceive, ProcessWaitAck
  <2>3. state' = "IDLE" /\ error' = "NACK" /\ op' = op
    BY <2>1, <2>2 DEF ProcessStop, NoIssue, transfer
  <2>4. Stopped'
    BY <1>1, <2>1 DEF Stopped, Follows, RefusedOnly
  <2>5. Over'
    BY <1>1, <1>2, <2>3, <2>4 DEF Over
  <2> QED BY <1>1, <1>2, <1>3, <2>5 DEF ProgressInv
<1>7. CASE Over
  BY <1>1, <1>7 DEF Over
<1> QED BY <1>3, <1>4, <1>5, <1>6, <1>7

\* So does the end of an operation.
LEMMA ProgressCompletes ==
  ASSUME I2cInv, NEW nack \in {0, 1}, Completes(nack)
  PROVE  ProgressInv'
<1>1. /\ op # Idle /\ op' = Idle
      /\ UNCHANGED <<state, error, macpc, request, success, BCL>>
  BY DEF Completes, driver, client
<1>2. macpc # "idle" /\ ~BCL
  BY <1>1 DEF I2cInv, HostInv, BusInv, Polling
<1>3. /\ request \in Transfers /\ success = "none"
      /\ Running \/ Refusing
  BY <1>1, <1>2 DEF I2cInv, ProgressInv, Over
<1>4. CASE Running
  <2>1. Running'
    BY <1>3, <1>4, RunningCompletes DEF I2cInv
  <2> QED BY <1>1, <1>2, <1>3, <2>1 DEF ProgressInv
<1>5. CASE Refusing
  <2>1. /\ op = Stop /\ Len(wire) > 0 /\ Follows(0) /\ RefusedOnly(Len(wire))
        /\ error = "NACK" /\ state = "STOP"
    BY <1>1, <1>5 DEF Refusing
  <2>2. wire' = Append(wire, <<Stop, 0>>)
    BY <2>1, OpsDiffer DEF Completes
  <2>3. P'
    BY <2>1, OpsDiffer DEF Completes
  <2>4. Len(wire) \in Nat
    BY <1>3, RequestFacts DEF I2cInv
  <2>5. /\ Len(wire') = Len(wire) + 1
        /\ \A i \in 1 .. Len(wire) : wire'[i] = wire[i]
        /\ wire'[Len(wire) + 1] = <<Stop, 0>>
    BY <2>2, <2>4 DEF I2cInv, HostInv, HostRanges
  <2>6. /\ Len(wire') > 1 /\ Len(wire') - 1 = Len(wire)
        /\ wire'[Len(wire')][1] = Stop
    BY <2>1, <2>4, <2>5
  <2>7. Follows(1)'
    <3>1. /\ Len(wire) <= Total(request)
          /\ \A i \in 1 .. Len(wire) : wire[i][1] = Frame(request)[i]
      BY <2>1, <2>4 DEF Follows
    <3> QED BY <1>1, <2>5, <2>6, <3>1 DEF Follows
  <2>8. RefusedOnly(Len(wire) - 1)'
    <3>1. \A i \in 1 .. Len(wire) : wire[i][2] = IF i = Len(wire) THEN 1 ELSE 0
      BY <2>1 DEF RefusedOnly
    <3>2. ASSUME NEW i \in 1 .. Len(wire')
          PROVE  wire'[i][2] = IF i = Len(wire) THEN 1 ELSE 0
      <4>1. CASE i \in 1 .. Len(wire)
        BY <2>5, <3>1, <4>1
      <4>2. CASE i = Len(wire) + 1
        BY <2>4, <2>5, <4>2
      <4> QED BY <2>4, <2>5, <4>1, <4>2
    <3> QED BY <2>6, <3>2 DEF RefusedOnly
  <2>9. Refusing'
    BY <1>1, <1>2, <2>1, <2>3, <2>6, <2>7, <2>8 DEF Refusing, Stopped
  <2> QED BY <1>1, <1>2, <1>3, <2>9 DEF ProgressInv
<1> QED BY <1>3, <1>4, <1>5

\* Every step preserves ProgressInv.
LEMMA ProgressStep == I2cInv /\ [HostNext]_hostVars => ProgressInv'
<1> SUFFICES ASSUME I2cInv, [HostNext]_hostVars PROVE ProgressInv'
  OBVIOUS
<1>0. HostInv /\ HostRanges /\ BytesInv /\ ProgressInv
  BY DEF I2cInv, HostInv
<1>1. CASE Interrupt
  BY <1>1, ProgressInterrupt
<1>2. ASSUME NEW nack \in {0, 1}, Completes(nack) PROVE ProgressInv'
  BY <1>2, ProgressCompletes
<1>3. ASSUME NEW s \in BOOLEAN, Collides(s) PROVE ProgressInv'
  <2>1. /\ op # Idle /\ BCL' = TRUE
        /\ UNCHANGED <<macpc, request, success, wire>>
    BY <1>3 DEF Collides, client
  <2>2. macpc # "idle" /\ ~BCL
    BY <1>0, <2>1 DEF HostInv, BusInv, Polling
  <2>3. request \in Transfers /\ success = "none" /\ (Running \/ Refusing)
    BY <1>0, <2>1, <2>2 DEF ProgressInv, Over
  <2>4. Cut
    BY <2>1, <2>3 DEF Cut, Running, Refusing
  <2>5. Cut'
    BY <2>1, <2>4 DEF Cut, Follows, RefusedOnly
  <2> QED BY <2>1, <2>2, <2>3, <2>5 DEF ProgressInv
<1>4. CASE SomebodyStops
  BY <1>0, <1>4, ProgressSame DEF SomebodyStops, Held, driver, client
<1>5. ASSUME NEW r \in Transfers, Request(r) PROVE ProgressInv'
  <2>1. /\ macpc = "idle" /\ state = "IDLE" /\ op = Idle /\ error = "NONE"
        /\ BCL = FALSE
    BY <1>0, <1>5
       DEF Request, Runs, HostInv, HostFlags, BusInv, Polling, ProgressInv
  <2>2. /\ is10BitAddressMode' = r.ten /\ isWriteMode' = (r.write > 0)
        /\ writeDataCount' = r.write /\ readDataCount' = r.read
        /\ readData' = <<>> /\ I2C1IF' = TRUE
        /\ macpc' = "poll" /\ request' = r /\ success' = "none" /\ wire' = <<>>
        /\ state' = "IDLE" /\ error' = "NONE" /\ op' = Idle
    BY <1>5, <2>1 DEF Request
  <2>3. ~BCL'
    BY <1>5, <2>1 DEF Request
  <2>4. r \in Requests /\ r.read \in Nat
    BY DEF Transfers, Requests
  <2>5. Total(r) \in Nat
    BY <2>4, FrameCorrect, LenProperties DEF FrameShape
  <2>6. Follows(0)'
    BY <2>2, <2>5 DEF Follows
  <2>7. RefusedOnly(0)'
    BY <2>2 DEF RefusedOnly
  <2>8. state' \notin Answers /\ state' # "STOP"
    BY <2>2 DEF Answers
  <2>9. Len(readData') = request'.read - readDataCount'
    BY <2>2, <2>4
  <2>10. Started' = 0
    BY <2>2 DEF Started
  <2>11. Place(Started, request)'
    BY <2>2, <2>10 DEF Place, AtStart
  <2>12. Running'
    BY <2>2, <2>3, <2>6, <2>7, <2>8, <2>9, <2>11 DEF Running
  <2> QED BY <2>2, <2>12 DEF ProgressInv
<1>6. CASE ReadEnableBits
  BY <1>0, <1>6, ProgressSame DEF ReadEnableBits, driver, module
<1>7. CASE ReadStatus
  BY <1>0, <1>7, ProgressSame DEF ReadStatus, driver, module
<1>8. CASE ErrorGet
  <2>1. /\ macpc = "get" /\ ~I2C1IF /\ error' = "NONE" /\ macpc' = "idle"
        /\ success' = (IF error = "NONE" THEN "yes" ELSE "no")
        /\ UNCHANGED <<readData, request, wire>>
    BY <1>8 DEF ErrorGet, Runs
  <2>2. op = Idle /\ state = "IDLE" /\ ~BCL
    BY <1>0, <2>1 DEF HostInv, BusInv, Polling
  <2>3. Over
    BY <1>0, <2>1, <2>2 DEF ProgressInv, Running, Refusing
  <2>4. WireFollowsRequest
    BY <1>0, <2>3, FollowsFrame, StoppedFrame DEF Over, Cut, Complete
  <2>5. WireFollowsRequest'
    BY <2>1, <2>4, Zenon DEF WireFollowsRequest, Operations, RefusedAt
  <2>6. /\ error = "NONE" => /\ Operations = Frame(request)
                             /\ RefusedAt = {}
                             /\ readData = [i \in 1 .. request.read |-> i]
        /\ error # "NONE" => \/ Operations # Frame(request)
                             \/ RefusedAt # {}
    BY <1>0, <2>3, OverResult
  <2>7. /\ success' = "yes" => error = "NONE"
        /\ success' = "no" => error # "NONE"
    BY <2>1
  <2>8. ResultRight'
    BY <2>1, <2>6, <2>7, Zenon DEF ResultRight, Operations, RefusedAt
  <2> QED BY <2>1, <2>5, <2>8 DEF ProgressInv
<1>9. CASE UNCHANGED hostVars
  BY <1>0, <1>9, ProgressSame DEF hostVars, driver, module, client
<1> QED
  BY <1>1, <1>2, <1>3, <1>4, <1>5, <1>6, <1>7, <1>8, <1>9
     DEF HostNext, HardwareStep, MainStep

\* I2cInv is an inductive invariant.
THEOREM I2cInvariant == HostSpec => []I2cInv
<1>1. HostInit => I2cInv
  BY HostInvInit, BytesInit, ProgressInit DEF I2cInv
<1>2. I2cInv /\ [HostNext]_hostVars => I2cInv'
  BY HostStep, BytesStep, ProgressStep DEF I2cInv
<1> QED BY <1>1, <1>2, PTL DEF HostSpec

\* Whatever is refused or collides, the bus sees a beginning of the requested
\* transfer, ended by a Stop condition after a refusal.
THEOREM WireRight == HostSpec => []WireFollowsRequest
<1>1. I2cInv => WireFollowsRequest
  <2> SUFFICES ASSUME I2cInv, macpc # "idle" PROVE WireFollowsRequest
    BY DEF I2cInv, ProgressInv
  <2>1. HostRanges /\ (Running \/ Cut \/ Refusing \/ Over)
    BY DEF I2cInv, HostInv, ProgressInv
  <2>2. CASE Running
    BY <2>1, <2>2, FollowsFrame DEF Running
  <2>3. CASE Cut
    BY <2>1, <2>3, FollowsFrame DEF Cut
  <2>4. CASE Refusing
    BY <2>1, <2>4, FollowsFrame, StoppedFrame DEF Refusing
  <2>5. CASE Over
    BY <2>1, <2>5, FollowsFrame, StoppedFrame DEF Over, Cut, Complete
  <2> QED BY <2>1, <2>2, <2>3, <2>4, <2>5
<1> QED BY <1>1, I2cInvariant, PTL

\* GetMacAddress reports success exactly when the transfer took place from
\* Start to Stop, and then the buffer holds the client's bytes in order.
THEOREM MacReadRight == HostSpec => []ResultRight
<1>1. I2cInv => ResultRight
  BY DEF I2cInv, ProgressInv, ResultRight
<1> QED BY <1>1, I2cInvariant, PTL
=============================================================================
