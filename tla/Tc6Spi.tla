------------------------------- MODULE Tc6Spi -------------------------------
(***************************************************************************)
(* How the firmware talks to the LAN8651 MAC-PHY: the service loop of      *)
(* tc6-lwip.c, the stub tc6-stub.c, the DMA driver dmaspi.c, and the three *)
(* interrupts that run between its instructions (CNA on a falling edge of  *)
(* the MAC-PHY's INT pin, DMA0 and DMA1 at the end of a transfer).  All    *)
(* interrupts have priority 1, so they do not nest; the main loop does not *)
(* run while one is active.                                                *)
(*                                                                         *)
(* External parts, modelled from how src/ uses them: the MAC-PHY (holds    *)
(* received chunks, pulls INT low when it gets the first one, lets go of   *)
(* it when a transaction begins), the SPI/DMA hardware, and the TC6        *)
(* library (one SPI buffer; TC6_Service starts a transaction if there is   *)
(* something to move and the previous one has finished).                   *)
(***************************************************************************)
EXTENDS Integers

CONSTANTS
  IntMod,    \* 256: the modulus of the uint8_t interrupt counters
  ChunkMax,  \* receive chunks the MAC-PHY can hold
  TxMax,     \* frames the TC6 transmit queue can hold
  MaxEdges   \* INT edges between two acknowledgements (see ChunkArrives)

ASSUME SpiConstants ==
  /\ IntMod \in Nat \ {0}
  /\ ChunkMax \in Nat \ {0}
  /\ TxMax \in Nat \ {0}
  /\ MaxEdges \in Nat /\ MaxEdges < IntMod

VARIABLES
  pinLow,      \* INT1 (active low) is asserted by the MAC-PHY
  chunks,      \* receive chunks waiting in the MAC-PHY
  cnfa2,       \* CNFAbits.CNFA2: the pin's edge flag
  cnaif,       \* IFS3bits.CNAIF: the port's interrupt flag
  isr,         \* "none", or where _CNAInterrupt is: "counted" before it has
               \* cleared CNFA2, "cleared" before it has cleared CNAIF
  hw,          \* the transfer: "idle", "armed", "clocking", "sent"
  dma0if,      \* DMA0 (transmit) done flag
  dma1if,      \* DMA1 (receive) done flag
  dmaBusy,     \* dmaControl.busy
  busy,        \* d[0].busy
  intIn, intOut, intReported,   \* d[0].intIn, .intOut, .intReported
  needService, \* mlw[0].tc.tc6NeedService
  spiDone,     \* TC6: a finished SPI buffer waits to be processed
  more,        \* TC6: the last footer said that more chunks are waiting
  txq,         \* TC6: frames queued for transmission
  pc           \* where the main loop is

chipVars == <<pinLow, chunks, cnfa2, cnaif>>
dmaVars  == <<hw, dma0if, dma1if, dmaBusy>>
intVars  == <<intIn, intOut, intReported>>
tc6Vars  == <<needService, spiDone, more, txq>>
vars == <<pinLow, chunks, cnfa2, cnaif, isr, hw, dma0if, dma1if, dmaBusy, busy,
          intIn, intOut, intReported, needService, spiDone, more, txq, pc>>

Init ==
  /\ pinLow = FALSE /\ chunks = 0
  /\ cnfa2 = FALSE /\ cnaif = FALSE /\ isr = "none"
  /\ hw = "idle" /\ dma0if = FALSE /\ dma1if = FALSE /\ dmaBusy = FALSE
  /\ busy = FALSE
  /\ intIn = 0 /\ intOut = 0 /\ intReported = 0
  /\ needService = FALSE /\ spiDone = FALSE /\ more = FALSE /\ txq = 0
  /\ pc = "top"

-----------------------------------------------------------------------------
(***************************************************************************)
(* The MAC-PHY and the SPI/DMA hardware (external)                         *)
(***************************************************************************)

\* Edges flagged or counted since the last acknowledgement.
Unreleased ==
  ((intIn - intOut) % IntMod) + IF cnaif /\ isr = "none" THEN 1 ELSE 0

\* A chunk arrives; the first one pulls INT low, and the falling edge is
\* flagged by the change notification logic.  The counters are eight bits
\* wide: IntMod edges without one acknowledgement in between would look like
\* none.  MaxEdges excludes that (the pin would have to be seen low by 256
\* calls of TC6Stub_ReleaseInt in a row).
ChunkArrives ==
  /\ chunks < ChunkMax
  /\ chunks' = chunks + 1
  /\ \/ /\ chunks = 0 /\ ~pinLow
        /\ Unreleased < MaxEdges
        /\ pinLow' = TRUE /\ cnfa2' = TRUE /\ cnaif' = TRUE
     \/ /\ chunks > 0 \/ pinLow
        /\ UNCHANGED <<pinLow, cnfa2, cnaif>>
  /\ UNCHANGED <<isr, dmaVars, busy, intVars, tc6Vars, pc>>

\* Chip select falls and the first header is clocked: INT is released.
TransferBegins ==
  /\ hw = "armed"
  /\ hw' = "clocking"
  /\ pinLow' = FALSE
  /\ UNCHANGED <<chunks, cnfa2, cnaif, isr, dma0if, dma1if, dmaBusy, busy,
                 intVars, tc6Vars, pc>>

TransmitDone ==
  /\ hw = "clocking"
  /\ hw' = "sent"
  /\ dma0if' = TRUE
  /\ UNCHANGED <<chipVars, isr, dma1if, dmaBusy, busy, intVars, tc6Vars, pc>>

\* The last byte is in the receive buffer: one chunk has been read, and the
\* footer tells whether more are waiting.
ReceiveDone ==
  /\ hw = "sent"
  /\ hw' = "idle"
  /\ dma1if' = TRUE
  /\ chunks' = IF chunks > 0 THEN chunks - 1 ELSE 0
  /\ more' = (chunks' > 0)
  /\ UNCHANGED <<pinLow, cnfa2, cnaif, isr, dma0if, dmaBusy, busy, intVars,
                 needService, spiDone, txq, pc>>

-----------------------------------------------------------------------------
(***************************************************************************)
(* Interrupt service routines                                              *)
(***************************************************************************)

\* Mutants: the count is as wide as an int; the edge is counted only when
\* the last one has been acknowledged.
IntHandler_Wide ==
  /\ isr = "none" /\ cnaif /\ cnfa2
  /\ intIn' = intIn + 1
  /\ isr' = "counted"
  /\ UNCHANGED <<chipVars, dmaVars, busy, intOut, intReported, tc6Vars, pc>>

IntHandler_Once ==
  /\ isr = "none" /\ cnaif /\ cnfa2
  /\ intIn' = IF intIn = intOut THEN (intIn + 1) % IntMod ELSE intIn
  /\ isr' = "counted"
  /\ UNCHANGED <<chipVars, dmaVars, busy, intOut, intReported, tc6Vars, pc>>

\* _CNAInterrupt calls IntHandler if the pin's flag is up ...
IntHandler ==
  /\ isr = "none" /\ cnaif /\ cnfa2
  /\ intIn' = (intIn + 1) % IntMod
  /\ isr' = "counted"
  /\ UNCHANGED <<chipVars, dmaVars, busy, intOut, intReported, tc6Vars, pc>>

\* ... then clears the pin's flag, also of an edge that came in between ...
ClearCNFA2 ==
  /\ isr = "counted"
  /\ cnfa2' = FALSE
  /\ isr' = "cleared"
  /\ UNCHANGED <<pinLow, chunks, cnaif, dmaVars, busy, intVars, tc6Vars, pc>>

\* ... and the port's flag: an edge in this window raises both flags and
\* loses one of them again, so no interrupt follows it.
ClearCNAIF ==
  /\ isr = "cleared"
  /\ cnaif' = FALSE
  /\ isr' = "none"
  /\ UNCHANGED <<pinLow, chunks, cnfa2, dmaVars, busy, intVars, tc6Vars, pc>>

\* Mutant: the end of every transmission makes the DMA available.
DMA0Interrupt_Available ==
  /\ isr = "none" /\ dma0if
  /\ dma0if' = FALSE
  /\ dmaBusy' = FALSE
  /\ UNCHANGED <<chipVars, isr, hw, dma1if, busy, intVars, tc6Vars, pc>>

\* _DMA0Interrupt: DMA0_Callback has nothing to do for a combined transfer.
DMA0Interrupt ==
  /\ isr = "none" /\ dma0if
  /\ dma0if' = FALSE
  /\ UNCHANGED <<chipVars, isr, hw, dma1if, dmaBusy, busy, intVars, tc6Vars,
                 pc>>

\* Mutants of the completion: the handler runs before the DMA is marked
\* available; the library's request for service is not recorded.
DMA1Interrupt_HandlerFirst ==
  /\ isr = "none" /\ dma1if
  /\ dma1if' = FALSE
  /\ busy' = dmaBusy
  /\ dmaBusy' = FALSE
  /\ spiDone' = TRUE
  /\ needService' = TRUE
  /\ UNCHANGED <<chipVars, isr, hw, dma0if, intVars, more, txq, pc>>

DMA1Interrupt_NoRequest ==
  /\ isr = "none" /\ dma1if
  /\ dma1if' = FALSE
  /\ dmaBusy' = FALSE
  /\ busy' = dmaBusy'
  /\ spiDone' = TRUE
  /\ UNCHANGED <<chipVars, isr, hw, dma0if, intVars, needService, more, txq,
                 pc>>

\* _DMA1Interrupt: DMA1_Callback makes the DMA available, then
\* vidTransactionDone copies that into the stub's busy flag and hands the
\* buffer to TC6_SpiBufferDone, which calls TC6_CB_OnNeedService.
DMA1Interrupt ==
  /\ isr = "none" /\ dma1if
  /\ dma1if' = FALSE
  /\ dmaBusy' = FALSE
  /\ busy' = dmaBusy'
  /\ spiDone' = TRUE
  /\ needService' = TRUE
  /\ UNCHANGED <<chipVars, isr, hw, dma0if, intVars, more, txq, pc>>

-----------------------------------------------------------------------------
(***************************************************************************)
(* The main loop                                                           *)
(***************************************************************************)

\* A frame is queued (by the application between two rounds of the service
\* loop, or by a receive callback inside TC6_Service); the library asks for
\* service.
QueueFrame ==
  /\ isr = "none" /\ pc \in {"top", "intService", "needService"}
  /\ txq < TxMax
  /\ txq' = txq + 1
  /\ needService' = TRUE
  /\ UNCHANGED <<chipVars, isr, dmaVars, busy, intVars, spiDone, more, pc>>

\* TC6LwIP_Service, first test.
TC6Stub_IntActive ==
  /\ isr = "none" /\ pc = "top"
  /\ intReported' = intIn
  /\ pc' = IF intReported' # intOut THEN "intService" ELSE "checkNeed"
  /\ UNCHANGED <<chipVars, isr, dmaVars, busy, intIn, intOut, tc6Vars>>

\* TC6LwIP_Service, second test: if there is a request ...
CheckNeedService ==
  /\ isr = "none" /\ pc = "checkNeed"
  /\ pc' = IF needService THEN "clearNeed" ELSE "top"
  /\ UNCHANGED <<chipVars, isr, dmaVars, busy, intVars, tc6Vars>>

\* ... clear it, and then serve it.
ClearNeedService ==
  /\ isr = "none" /\ pc = "clearNeed"
  /\ needService' = FALSE
  /\ pc' = "needService"
  /\ UNCHANGED <<chipVars, isr, dmaVars, busy, intVars, spiDone, more, txq>>

\* Is there anything to move?  level is the INT level passed to TC6_Service.
WorkToDo(level) == ~level \/ more \/ txq > 0

\* TC6_Service up to its call of TC6_CB_OnSpiTransaction.  While a buffer is
\* in flight it can do nothing and returns false; otherwise it processes the
\* finished buffer and either has nothing to move or enters
\* TC6Stub_SpiTransaction, which marks the stub busy.
TC6_Service(from, level, start, done) ==
  /\ isr = "none" /\ pc = from
  /\ \/ /\ busy
        /\ pc' = "top"
        /\ UNCHANGED <<busy, spiDone, more, txq>>
     \/ /\ ~busy
        /\ spiDone' = FALSE
        /\ more' = FALSE
        /\ IF WorkToDo(level)
             THEN /\ busy' = TRUE
                  /\ txq' = IF txq > 0 THEN txq - 1 ELSE 0
                  /\ pc' = start
             ELSE /\ pc' = done
                  /\ UNCHANGED <<busy, txq>>
  /\ UNCHANGED <<chipVars, isr, dmaVars, intVars, needService>>

ServiceInt  == TC6_Service("intService", FALSE, "intStart", "release")
ServiceNeed == TC6_Service("needService", TRUE, "needStart", "top")

\* dmaSpiStartTransaction, called by TC6Stub_SpiTransaction.  If the DMA is
\* busy it starts nothing and answers DMA_AVAILABLE, on which the stub takes
\* back its own busy flag.
dmaSpiStartTransaction(from, done) ==
  /\ isr = "none" /\ pc = from
  /\ IF dmaBusy
       THEN /\ busy' = FALSE
            /\ UNCHANGED dmaVars
       ELSE /\ dmaBusy' = TRUE
            /\ dma0if' = FALSE
            /\ dma1if' = FALSE
            /\ hw' = "armed"
            /\ UNCHANGED busy
  /\ pc' = done
  /\ UNCHANGED <<chipVars, isr, intVars, tc6Vars>>

StartInt  == dmaSpiStartTransaction("intStart", "release")
StartNeed == dmaSpiStartTransaction("needStart", "top")

\* Mutant: the level of the pin is not looked at.
ReleaseIntTest_NoLevel ==
  /\ isr = "none" /\ pc = "release"
  /\ pc' = "store"
  /\ UNCHANGED <<chipVars, isr, dmaVars, busy, intVars, tc6Vars>>

\* TC6Stub_ReleaseInt looks at the pin ...
ReleaseIntTest ==
  /\ isr = "none" /\ pc = "release"
  /\ pc' = IF pinLow THEN "top" ELSE "store"
  /\ UNCHANGED <<chipVars, isr, dmaVars, busy, intVars, tc6Vars>>

\* ... and acknowledges the edges reported by TC6Stub_IntActive.
ReleaseIntStore ==
  /\ isr = "none" /\ pc = "store"
  /\ intOut' = intReported
  /\ pc' = "top"
  /\ UNCHANGED <<chipVars, isr, dmaVars, busy, intIn, intReported, tc6Vars>>

-----------------------------------------------------------------------------
Hardware == TransferBegins \/ TransmitDone \/ ReceiveDone
Interrupts ==
  \/ IntHandler \/ ClearCNFA2 \/ ClearCNAIF \/ DMA0Interrupt \/ DMA1Interrupt
MainLoop ==
  \/ TC6Stub_IntActive \/ CheckNeedService \/ ClearNeedService
  \/ ServiceInt \/ ServiceNeed \/ StartInt \/ StartNeed
  \/ ReleaseIntTest \/ ReleaseIntStore
Environment == ChunkArrives \/ QueueFrame

Next == Hardware \/ Interrupts \/ MainLoop \/ Environment

Spec == Init /\ [][Next]_vars

\* The main loop never stops, a flagged interrupt is taken, and a transfer
\* that was started runs to its end.  Nothing is assumed of traffic.
FairSpec ==
  /\ Spec
  /\ WF_vars(MainLoop)
  /\ WF_vars(TransferBegins) /\ WF_vars(TransmitDone) /\ WF_vars(ReceiveDone)
  /\ WF_vars(IntHandler) /\ WF_vars(ClearCNFA2) /\ WF_vars(ClearCNAIF)
  /\ WF_vars(DMA0Interrupt) /\ WF_vars(DMA1Interrupt)

-----------------------------------------------------------------------------
(***************************************************************************)
(* Properties                                                              *)
(***************************************************************************)
PCs == {"top", "intService", "checkNeed", "clearNeed", "needService", "intStart",
        "needStart", "release", "store"}

\* TC6Stub_SpiTransaction is between its two assignments to busy.
Starting == {"intStart", "needStart"}

\* Flags, counters and queue stay in their ranges.
TypeOK ==
  /\ pinLow \in BOOLEAN /\ chunks \in 0 .. ChunkMax
  /\ cnfa2 \in BOOLEAN /\ cnaif \in BOOLEAN
  /\ isr \in {"none", "counted", "cleared"}
  /\ hw \in {"idle", "armed", "clocking", "sent"}
  /\ dma0if \in BOOLEAN /\ dma1if \in BOOLEAN /\ dmaBusy \in BOOLEAN
  /\ busy \in BOOLEAN
  /\ intIn \in 0 .. (IntMod - 1)
  /\ intOut \in 0 .. (IntMod - 1)
  /\ intReported \in 0 .. (IntMod - 1)
  /\ needService \in BOOLEAN /\ spiDone \in BOOLEAN /\ more \in BOOLEAN
  /\ txq \in 0 .. TxMax
  /\ pc \in PCs

\* As long as the MAC-PHY holds INT low, either its edge is still to be
\* counted or TC6Stub_IntActive will say so: an edge that arrives inside
\* _CNAInterrupt, during TC6_Service or between the two halves of
\* TC6Stub_ReleaseInt is never forgotten.
NoLostInterrupt ==
  pinLow => (isr = "none" /\ cnaif /\ cnfa2) \/ intIn # intOut

\* Work the TC6 library is waiting to do (a finished buffer, announced
\* chunks, a queued frame) always has someone coming for it: a request in
\* tc6NeedService, a transfer whose completion will raise one, an active
\* interrupt, or a service call in progress.
NoLostService ==
  (spiDone \/ more \/ txq > 0) =>
    \/ needService
    \/ busy
    \/ pc \in {"clearNeed", "needService", "intService"}

\* One transaction at a time: when dmaSpiStartTransaction is called the DMA
\* is at rest with no completion outstanding, so it never refuses; the DMA
\* is marked busy exactly while the hardware uses the buffers or their
\* completion is pending, and the stub's own flag neither falls earlier
\* (buffers overwritten) nor stays up (no transaction ever again).
OneTransaction ==
  /\ pc \in Starting => ~dmaBusy
  /\ dmaBusy <=> hw # "idle" \/ dma1if
  /\ dma1if => hw = "idle"
  /\ busy <=> dmaBusy \/ pc \in Starting

\* A full transmit queue always drains.
TransmitDrains == (txq = TxMax) ~> (txq < TxMax)

\* A full receive buffer of the MAC-PHY is always read.
ReceiveDrains == (chunks = ChunkMax) ~> (chunks < ChunkMax)
=============================================================================
