------------------------------ MODULE Tc6Queue ------------------------------
(***************************************************************************)
(* The staged ring queues of tc6-queue.h.  The header holds three of them, *)
(* generated from one template: qtxeth (2 stages), qspibuf (3 stages) and  *)
(* regop (7 stages).  A queue is a ring of Size entries and, per stage, an *)
(* 8-bit index that only that stage advances.  An entry stays in its slot  *)
(* while the stages work on it one after the other.                        *)
(*                                                                         *)
(* Stages run in different contexts: some in TC6_Service, some in the      *)
(* interrupt that ends an SPI transfer.  What a stage does with an entry   *)
(* takes time, so it is two actions here: Begin (..._ready is true, the    *)
(* entry is got with ..._ptr) and Done (..._done).  The callers of these   *)
(* operations are in the TC6 library (external).  Its contract for         *)
(* ..._undo: only an entry the next stage has not begun to work on.        *)
(***************************************************************************)
EXTENDS Integers, Sequences

CONSTANTS
  Last,    \* number of stages
  Size,    \* size_, a power of two
  CMod,    \* 2^8, modulus of the indices
  Values   \* contents of an entry

ASSUME Tc6QueueConstants ==
  /\ Last \in Nat /\ Last >= 2
  /\ Size \in Nat \ {0} /\ CMod \in Nat /\ Size < CMod
  /\ \E k \in 1 .. CMod : CMod = Size * k
  /\ Values # {}

VARIABLES
  index,   \* stage1_..., stage2_..., ...
  buffer,  \* buffer_
  work     \* the stages that are working on an entry

vars == <<index, buffer, work>>

Stages == 1 .. Last
UInt8(x) == x % CMod

\* init_..._queue.  What the buffer holds is of no interest.
Init ==
  /\ index = [s \in Stages |-> 0]
  /\ buffer \in [0 .. (Size - 1) -> Values]
  /\ work = {}

-----------------------------------------------------------------------------
\* Mutant: one entry too many.
Ready_OneMore(s) ==
  IF s = 1 THEN UInt8(index[1] - index[Last]) <= Size
           ELSE UInt8(index[s - 1] - index[s] - 1) < Size

\* ..._ready.  Stage 1 waits for room, the others for the stage before.
Ready(s) ==
  IF s = 1 THEN UInt8(index[1] - index[Last]) < Size
           ELSE UInt8(index[s - 1] - index[s] - 1) < Size

\* ..._ptr: the slot of the entry that is next for stage s.
Ptr(s) == index[s] % Size   \* & (size_ - 1)

\* ..._cap: how many entries are ready for stage s.
Cap(s) ==
  IF s = 1 THEN UInt8(index[Last] + Size - index[1])
           ELSE UInt8(index[s - 1] - index[s])

Begin(s) ==
  /\ s \notin work /\ Ready(s)
  /\ work' = work \union {s}
  /\ UNCHANGED <<index, buffer>>

\* Mutant: the index is advanced before the entry is filled.
Done_First(s, v) ==
  /\ s \in work
  /\ work' = work \ {s}
  /\ index' = [index EXCEPT ![s] = UInt8(@ + 1)]
  /\ buffer' = IF s = 1 THEN [buffer EXCEPT ![index'[1] % Size] = v]
               ELSE buffer

\* ..._done.  The first stage has filled the entry with v.
Done(s, v) ==
  /\ s \in work
  /\ work' = work \ {s}
  /\ buffer' = IF s = 1 THEN [buffer EXCEPT ![Ptr(1)] = v] ELSE buffer
  /\ index' = [index EXCEPT ![s] = UInt8(@ + 1)]

\* Mutant: an entry that the next stage is at.
Undo_InWork(s) ==
  /\ s \notin work
  /\ Cap(s + 1) > 0
  /\ index' = [index EXCEPT ![s] = UInt8(@ - 1)]
  /\ UNCHANGED <<buffer, work>>

\* ..._undo of a stage before the last one.
Undo(s) ==
  /\ s \notin work
  /\ Cap(s + 1) > (IF s + 1 \in work THEN 1 ELSE 0)
  /\ index' = [index EXCEPT ![s] = UInt8(@ - 1)]
  /\ UNCHANGED <<buffer, work>>

Next ==
  \/ \E s \in Stages : Begin(s)
  \/ \E s \in Stages, v \in Values : Done(s, v)
  \/ \E s \in 1 .. (Last - 1) : Undo(s)

Spec == Init /\ [][Next]_vars

-----------------------------------------------------------------------------
(***************************************************************************)
(* Properties                                                              *)
(***************************************************************************)
\* Indices are 8 bits wide; only stages work.
TypeOK ==
  /\ index \in [Stages -> 0 .. (CMod - 1)]
  /\ buffer \in [0 .. (Size - 1) -> Values]
  /\ work \subseteq Stages

\* How far stage s is ahead of the last one.
Lead(s) == UInt8(index[s] - index[Last])

\* No two stages are ever handed the same slot, whatever the order in which
\* the contexts interrupt each other and however often the indices wrap: an
\* entry has one owner from ..._ready to ..._done.
OneOwner == \A s, t \in work : s # t => Ptr(s) # Ptr(t)

\* A stage never overtakes one before it, and the first never laps the
\* last: the modular differences are always true distances.
InOrder ==
  /\ Lead(1) <= Size
  /\ \A s, t \in Stages : s <= t => Lead(t) <= Lead(s)

\* The 8-bit computation of ..._cap never wraps: room and backlog add up to
\* the size of the ring, and ..._ready says no more and no less than that
\* there is something to do.
CapExact ==
  /\ Cap(1) = Size - Lead(1)
  /\ \A s \in 2 .. Last : Cap(s) = Lead(s - 1) - Lead(s)
  /\ \A s \in Stages : Ready(s) <=> Cap(s) > 0

\* The ring is a FIFO queue of Size entries whose stages follow one another.
Content == [i \in 1 .. Lead(1) |-> buffer[(index[Last] + i - 1) % Size]]

Fifo == INSTANCE StagedFifo
  WITH queue <- Content, passed <- [s \in Stages |-> Lead(s)]

\* The ring implements that queue: no entry is lost, duplicated, overwritten
\* or handled out of turn by any interleaving of the stages.
ImplementsFifo == Fifo!Spec
=============================================================================
