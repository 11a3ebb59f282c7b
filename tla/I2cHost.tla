------------------------------ MODULE I2cHost ------------------------------
(***************************************************************************)
(* The interrupt-driven I2C host of i2c1.c and the way GetMacAddress uses  *)
(* it: request a transfer, poll I2C1_IsBusy, fetch the error.              *)
(*                                                                         *)
(* An interrupt preempts the main program: main takes no step while I2C1IF *)
(* is set.  A byte sent is its position in the transfer's write buffer, a  *)
(* byte received its position in what the client sends.                    *)
(*                                                                         *)
(* External: the I2C module, which carries out one operation at a time and *)
(* sets I2C1IF at its end; the client device, which may refuse any byte;   *)
(* the bus, on which any operation may collide.  A collision leaves S as   *)
(* it is, until a Stop condition made by somebody else clears it.          *)
(***************************************************************************)
EXTENDS Integers, Sequences, SequencesExt

CONSTANTS
  MaxWrite,   \* most bytes written in a transfer (GetMacAddress: 1)
  MaxRead     \* most bytes read in a transfer (GetMacAddress: 6)

ASSUME LengthsAssumption == MaxWrite \in Nat \ {0} /\ MaxRead \in Nat \ {0}

\* The transfers a caller may request: bytes to write, bytes to read, and
\* whether the address has 10 bits.  Both lengths 0 are refused by the driver.
\* A plain read with a 10-bit address is left out: the driver does not send
\* the lower address byte then.
Transfers ==
  {r \in [write : 0 .. MaxWrite, read : 0 .. MaxRead, ten : BOOLEAN] :
     r.write > 0 \/ (r.read > 0 /\ ~r.ten)}

None == [write |-> 0, read |-> 0, ten |-> FALSE]

VARIABLES
  \* i2cObj
  state, error,
  writeDataCount, readDataCount,
  isWriteMode,    \* also the R/W bit of the client address
  is10BitAddressMode,
  readData,       \* bytes stored through the pointer so far
  \* the I2C module
  I2C1IF, ACKSTAT, BCL, IWCOL, RBF, S, P,
  op,             \* operation under way, <<>> if none
  \* GetMacAddress
  macpc,          \* where it is
  request,
  i2cBusy,        \* the first half of I2C1_IsBusy: an enable bit was set
  success,        \* its result
  \* Auxiliary:
  wire            \* the operations carried out for this request, each with
                  \* the client's answer

driver == <<state, error, writeDataCount, readDataCount, isWriteMode,
            is10BitAddressMode, readData>>
module == <<ACKSTAT, BCL, IWCOL, RBF, S, P, op>>
client == <<macpc, request, i2cBusy, success>>
hostVars == <<driver, module, I2C1IF, client, wire>>

Idle == <<>>

\* Operations: <<kind, value>>.
Start       == <<"start", 0>>
ReStart     == <<"restart", 0>>
Stop        == <<"stop", 0>>
Receive     == <<"receive", 0>>
Ack(dt)     == <<"ack", dt>>      \* dt: ACKDT, 1 for NACK
High(rw)    == <<"high", rw>>     \* rw: the R/W bit
Low(rw)     == <<"low", rw>>
Data(n)     == <<"data", n>>

Sends(o) == o[1] \in {"high", "low", "data"}

HostInit ==
  /\ state = "IDLE" /\ error = "NONE"
  /\ writeDataCount = 0 /\ readDataCount = 0
  /\ isWriteMode = FALSE /\ is10BitAddressMode = FALSE
  /\ readData = <<>>
  /\ I2C1IF = FALSE /\ ACKSTAT = 0 /\ BCL = FALSE /\ IWCOL = FALSE
  /\ RBF = FALSE /\ S = FALSE /\ P = FALSE /\ op = Idle
  /\ macpc = "idle" /\ request = None /\ i2cBusy = FALSE /\ success = "none"
  /\ wire = <<>>

-----------------------------------------------------------------------------
(***************************************************************************)
(* The interrupt                                                           *)
(***************************************************************************)
\* Starting an operation while one is under way is a write collision.
Issue(o) ==
  IF op = Idle THEN op' = o /\ UNCHANGED IWCOL
  ELSE IWCOL' = TRUE /\ UNCHANGED op

\* What most states of the machine leave alone.
transfer == <<error, writeDataCount, readDataCount, isWriteMode, readData, RBF>>

NoIssue == UNCHANGED <<op, IWCOL>>

RW == IF isWriteMode THEN 0 ELSE 1

\* The client refused the last byte.
Refused == Issue(Stop) /\ error' = "NACK" /\ state' = "STOP"

AddressState(ten) == IF ten THEN "SEND_10BIT_HIGHER_ADDRESS"
                     ELSE "SEND_7BIT_ADDRESS"

\* Is there anything to transfer?
Wanted == writeDataCount > 0 \/ (readDataCount > 0 /\ error = "NONE")

ProcessIdle ==
  /\ state \in {"IDLE", "START"}
  /\ IF Wanted
       THEN state' = AddressState(is10BitAddressMode) /\ Issue(Start)
       ELSE UNCHANGED state /\ NoIssue
  /\ UNCHANGED transfer

ProcessHigherAddress ==
  /\ state = "SEND_10BIT_HIGHER_ADDRESS"
  /\ Issue(High(RW))
  /\ state' = IF isWriteMode THEN "SEND_10BIT_LOWER_ADDRESS"
              ELSE "CHECK_ADDRESS_ACK"
  /\ UNCHANGED transfer

\* The state after the last byte of the address.
AfterAddress == IF isWriteMode THEN "SEND_DATA" ELSE "CHECK_ADDRESS_ACK"

ProcessLowerAddress ==
  /\ state = "SEND_10BIT_LOWER_ADDRESS"
  /\ IF ACKSTAT = 0
       THEN Issue(Low(0)) /\ state' = AfterAddress /\ UNCHANGED error
       ELSE Refused
  /\ UNCHANGED <<writeDataCount, readDataCount, isWriteMode, readData, RBF>>

Process7BitAddress ==
  /\ state = "SEND_7BIT_ADDRESS"
  /\ Issue(Low(RW)) /\ state' = AfterAddress
  /\ UNCHANGED transfer

\* Mutant: the last byte is not sent.
AllSent_Early == writeDataCount <= 1

AllSent == writeDataCount = 0

ProcessSendData ==
  /\ state = "SEND_DATA"
  /\ \/ /\ ACKSTAT = 0 /\ ~AllSent
        /\ Issue(Data(request.write - writeDataCount + 1))
        /\ writeDataCount' = writeDataCount - 1
        /\ UNCHANGED <<state, error, isWriteMode>>
     \/ /\ ACKSTAT = 0 /\ AllSent /\ readDataCount > 0
        /\ Issue(ReStart)
        /\ isWriteMode' = FALSE
        /\ state' = AddressState(is10BitAddressMode)
        /\ UNCHANGED <<error, writeDataCount>>
     \/ /\ ACKSTAT = 0 /\ AllSent /\ readDataCount = 0
        /\ Issue(Stop)
        /\ state' = "STOP" /\ error' = "NONE"
        /\ UNCHANGED <<isWriteMode, writeDataCount>>
     \/ /\ ACKSTAT = 1
        /\ Refused
        /\ UNCHANGED <<isWriteMode, writeDataCount>>
  /\ UNCHANGED <<readDataCount, readData, RBF>>

ProcessCheckAck ==
  /\ state = "CHECK_ADDRESS_ACK"
  /\ IF ACKSTAT = 0
       THEN Issue(Receive) /\ state' = "RECEIVE_DATA" /\ UNCHANGED error
       ELSE Refused
  /\ UNCHANGED <<writeDataCount, readDataCount, isWriteMode, readData, RBF>>

\* Position of the byte the client sends next.
NextByte == Cardinality({i \in DOMAIN wire : wire[i][1] = Receive})

MoreToRead == readDataCount > 1

ProcessReceive ==
  /\ state = "RECEIVE_DATA"
  /\ IF RBF
       THEN /\ readData' = Append(readData, NextByte)
            /\ RBF' = FALSE
            /\ readDataCount' = readDataCount - 1
            /\ \/ /\ MoreToRead
                  /\ Issue(Ack(0)) /\ state' = "RECEIVE_WAIT_ACK"
               \/ /\ ~MoreToRead
                  /\ Issue(Ack(1)) /\ state' = "STOP"
       ELSE NoIssue /\ UNCHANGED <<state, readData, RBF, readDataCount>>
  /\ UNCHANGED <<error, writeDataCount, isWriteMode>>

\* Mutant: the next byte is not asked for.
ProcessWaitAck_Forgotten ==
  /\ state = "RECEIVE_WAIT_ACK"
  /\ NoIssue /\ state' = "RECEIVE_DATA"
  /\ UNCHANGED transfer

ProcessWaitAck ==
  /\ state = "RECEIVE_WAIT_ACK"
  /\ Issue(Receive) /\ state' = "RECEIVE_DATA"
  /\ UNCHANGED transfer

ProcessStop ==
  /\ state = "STOP"
  /\ IF ~P THEN Issue(Stop) ELSE NoIssue
  /\ state' = "IDLE"
  /\ UNCHANGED transfer

\* I2C1_HostDataProcess.
HostDataProcess ==
  \/ ProcessIdle \/ ProcessHigherAddress \/ ProcessLowerAddress
  \/ Process7BitAddress \/ ProcessSendData \/ ProcessCheckAck
  \/ ProcessReceive \/ ProcessWaitAck \/ ProcessStop

\* Mutant: the transfer is given up without a word.
ErrorAfterCollision_None == error

ErrorAfterCollision == "BUS_COLLISION"

\* Mutant: the interrupt leaves the flag set.
FlagAfter_Set == TRUE

\* The flag is cleared before anything else.
FlagAfter == FALSE

\* _I2C1Interrupt.
Interrupt ==
  /\ I2C1IF /\ I2C1IF' = FlagAfter
  /\ \/ /\ BCL \/ IWCOL
        /\ BCL' = FALSE /\ IWCOL' = (BCL /\ IWCOL)
        /\ writeDataCount' = 0 /\ readDataCount' = 0
        /\ state' = "IDLE"
        /\ error' = IF BCL THEN ErrorAfterCollision ELSE error
        /\ UNCHANGED <<isWriteMode, readData, RBF, op>>
     \/ /\ ~BCL /\ ~IWCOL
        /\ HostDataProcess
        /\ UNCHANGED BCL
  /\ UNCHANGED <<is10BitAddressMode, ACKSTAT, S, P, client, wire>>

-----------------------------------------------------------------------------
(***************************************************************************)
(* The I2C module and the bus                                              *)
(***************************************************************************)
\* The operation comes to its end; nack is the client's answer to a byte.
Completes(nack) ==
  /\ op # Idle /\ op' = Idle
  /\ I2C1IF' = TRUE
  /\ nack = 1 => Sends(op)
  /\ wire' = Append(wire, <<op, nack>>)
  /\ ACKSTAT' = IF Sends(op) THEN nack ELSE ACKSTAT
  /\ RBF' = (RBF \/ op = Receive)
  /\ S' = IF op \in {Start, ReStart} THEN TRUE ELSE S /\ op # Stop
  /\ P' = IF op \in {Start, ReStart} THEN FALSE ELSE P \/ op = Stop
  /\ UNCHANGED <<driver, BCL, IWCOL, client>>

\* The operation is aborted; s: S afterwards, if a Start was under way.
Collides(s) ==
  /\ op # Idle /\ op' = Idle
  /\ I2C1IF' = TRUE /\ BCL' = TRUE
  /\ S' = IF op = Start THEN s ELSE S
  /\ UNCHANGED <<driver, ACKSTAT, IWCOL, RBF, P, client, wire>>

\* The module still takes the bus for busy, but nobody owns it.
Held == S /\ op = Idle /\ state = "IDLE"

SomebodyStops ==
  /\ Held
  /\ S' = FALSE /\ P' = TRUE
  /\ UNCHANGED <<driver, I2C1IF, ACKSTAT, BCL, IWCOL, RBF, op, client, wire>>

-----------------------------------------------------------------------------
(***************************************************************************)
(* The main program                                                        *)
(***************************************************************************)
\* Main executes only while no interrupt is pending.
Runs == ~I2C1IF

\* I2C1_WriteRead, I2C1_Write (nothing to read) and I2C1_Read (nothing to
\* write).  I2C1_WriteRead does not clear BCL.
Request(r) ==
  /\ macpc = "idle" /\ Runs
  /\ state = "IDLE"
  /\ is10BitAddressMode' = r.ten
  /\ isWriteMode' = (r.write > 0)
  /\ writeDataCount' = r.write /\ readDataCount' = r.read
  /\ readData' = <<>>
  /\ IWCOL' = FALSE
  /\ BCL' = (BCL /\ r.write > 0 /\ r.read > 0)
  /\ I2C1IF' = TRUE
  /\ macpc' = "poll" /\ request' = r /\ success' = "none" /\ wire' = <<>>
  /\ UNCHANGED <<state, error, ACKSTAT, RBF, S, P, op, i2cBusy>>

\* I2C1_IsBusy reads the enable bits ...
ReadEnableBits ==
  /\ macpc = "poll" /\ Runs
  /\ i2cBusy' = (op # Idle /\ ~Sends(op))
  /\ macpc' = "poll2"
  /\ UNCHANGED <<driver, module, I2C1IF, request, success, wire>>

\* ... and then the driver's state, S and TRSTAT.
BusBusy == state # "IDLE" \/ S \/ (op # Idle /\ Sends(op))

ReadStatus ==
  /\ macpc = "poll2" /\ Runs
  /\ macpc' = IF i2cBusy \/ BusBusy THEN "poll" ELSE "get"
  /\ UNCHANGED <<driver, module, I2C1IF, request, i2cBusy, success, wire>>

\* I2C1_ErrorGet, and the end of GetMacAddress: TC6Stub_Init takes the bytes
\* read, or FALLBACK_MAC.
ErrorGet ==
  /\ macpc = "get" /\ Runs
  /\ error' = "NONE"
  /\ success' = IF error = "NONE" THEN "yes" ELSE "no"
  /\ macpc' = "idle"
  /\ UNCHANGED <<state, writeDataCount, readDataCount, isWriteMode,
                 is10BitAddressMode, readData, module, I2C1IF, request,
                 i2cBusy, wire>>

HardwareStep == \/ \E nack \in {0, 1} : Completes(nack)
                \/ \E s \in BOOLEAN : Collides(s)

MainStep == ReadEnableBits \/ ReadStatus \/ ErrorGet

HostNext ==
  \/ Interrupt
  \/ HardwareStep
  \/ SomebodyStops
  \/ \E r \in Transfers : Request(r)
  \/ MainStep

\* Interrupts are taken, the module finishes what it was asked to do, and
\* main goes on polling.  Nobody need ever stop a bus that is held.
Fairness ==
  /\ WF_hostVars(Interrupt) /\ WF_hostVars(HardwareStep)
  /\ WF_hostVars(MainStep)

HostSpec == HostInit /\ [][HostNext]_hostVars /\ Fairness

-----------------------------------------------------------------------------
(***************************************************************************)
(* What a transfer looks like on the bus                                   *)
(***************************************************************************)
Address(ten, rw) == IF ten THEN <<High(rw)>> \o (IF rw = 0 THEN <<Low(0)>>
                                                 ELSE <<>>)
                    ELSE <<Low(rw)>>

\* n bytes received: all but the last acknowledged.
Received(n) == [i \in 1 .. 2 * n |-> IF i % 2 = 1 THEN Receive
                                     ELSE Ack(IF i = 2 * n THEN 1 ELSE 0)]

\* The complete transfer of request r.
Frame(r) ==
     <<Start>>
  \o (IF r.write = 0 THEN <<>>
      ELSE Address(r.ten, 0) \o [i \in 1 .. r.write |-> Data(i)])
  \o (IF r.write = 0 \/ r.read = 0 THEN <<>> ELSE <<ReStart>>)
  \o (IF r.read = 0 THEN <<>> ELSE Address(r.ten, 1) \o Received(r.read))
  \o <<Stop>>

Operations == [i \in DOMAIN wire |-> wire[i][1]]
RefusedAt  == {i \in DOMAIN wire : wire[i][2] = 1}

-----------------------------------------------------------------------------
(***************************************************************************)
(* Properties                                                              *)
(***************************************************************************)
\* The interrupt's state machine never starts an operation before the last
\* one is over, so the error-less branch for write collisions of
\* _I2C1Interrupt, which GetMacAddress would take for success, stays unused.
NoWriteCollision == ~IWCOL

\* What appears on the bus is a beginning of the requested transfer; the
\* first byte that is refused ends it with a Stop condition.
WireFollowsRequest ==
  \/ /\ RefusedAt \subseteq {Len(wire)}
     /\ IsPrefix(Operations, Frame(request))
  \/ /\ RefusedAt = {Len(wire) - 1} /\ Last(Operations) = Stop
     /\ IsPrefix(Front(Operations), Frame(request))

\* When the poll is over GetMacAddress knows: it answers true exactly if the
\* transfer took place from Start to Stop, and then every byte the client
\* sent is in the buffer, in order.  Neither a refusal, a collision, nor a
\* poll in between two interrupts is taken for success.
ResultRight ==
  /\ success = "yes" => /\ Operations = Frame(request) /\ RefusedAt = {}
                        /\ readData = [i \in 1 .. request.read |-> i]
  /\ success = "no"  => Operations # Frame(request) \/ RefusedAt # {}

\* The poll of GetMacAddress, which has no time limit, ends unless a
\* collision has left the bus held.
PollEnds == (macpc = "poll") ~> (macpc = "idle" \/ Held)
=============================================================================
