----------------------------- MODULE StagedFifo -----------------------------
(***************************************************************************)
(* What a staged queue of TC6 promises: a first-in-first-out queue of at   *)
(* most Size entries, which every entry travels through stage by stage.    *)
(* Stage 1 enters an entry, stage Last takes it out, and each stage        *)
(* handles the entries in the order in which they were entered, each of    *)
(* them only after the stage before it.                                    *)
(***************************************************************************)
EXTENDS Integers, Sequences

CONSTANTS Last, Size, Values

VARIABLES
  queue,   \* the entries, oldest first
  passed   \* how many of them each stage has handled

vars == <<queue, passed>>

Stages == 1 .. Last

Init ==
  /\ queue = <<>>
  /\ passed = [s \in Stages |-> 0]

Enter(v) ==
  /\ Len(queue) < Size
  /\ queue' = Append(queue, v)
  /\ passed' = [passed EXCEPT ![1] = @ + 1]

Pass(s) ==
  /\ passed[s] < passed[s - 1]
  /\ passed' = [passed EXCEPT ![s] = @ + 1]
  /\ UNCHANGED queue

Leave ==
  /\ passed[Last - 1] > 0
  /\ queue' = Tail(queue)
  /\ passed' = [s \in Stages |-> IF s = Last THEN 0 ELSE passed[s] - 1]

\* The newest entry is taken back, before stage 2 has handled it.
Withdraw ==
  /\ passed[2] < passed[1]
  /\ queue' = SubSeq(queue, 1, Len(queue) - 1)
  /\ passed' = [passed EXCEPT ![1] = @ - 1]

\* Stage s will handle its last entry again.
Return(s) ==
  /\ passed[s + 1] < passed[s]
  /\ passed' = [passed EXCEPT ![s] = @ - 1]
  /\ UNCHANGED queue

Next ==
  \/ \E v \in Values : Enter(v)
  \/ Leave
  \/ Withdraw
  \/ \E s \in 2 .. (Last - 1) : Pass(s) \/ Return(s)

Spec == Init /\ [][Next]_vars
=============================================================================
