--------------------------- MODULE Tc6QueueProofs ---------------------------
(***************************************************************************)
(* The staged rings of tc6-queue.h, with any number of stages, any size    *)
(* that divides the modulus of the indices and any interleaving of the     *)
(* stages: an entry has one owner, the 8-bit computations are exact, and   *)
(* the ring implements the FIFO queue of StagedFifo.                       *)
(***************************************************************************)
EXTENDS Tc6Queue, ModArith, SequenceTheorems

\* The inductive invariant: a stage that has begun still has its entry, for
\* no other stage can take it away before ..._done.
QInv ==
  /\ TypeOK
  /\ InOrder
  /\ 1 \in work => Lead(1) < Size
  /\ \A s \in work : s # 1 => Lead(s) < Lead(s - 1)

-----------------------------------------------------------------------------
\* The constants, fact by fact.
LEMMA QueueConstantTypes ==
  /\ Last \in Nat /\ Last >= 2 /\ Last \in Stages /\ 1 \in Stages
  /\ Size \in Nat \ {0} /\ CMod \in Nat \ {0} /\ Size < CMod
  /\ Values # {}
  BY Tc6QueueConstants DEF Stages

\* Adding e to x before the difference to y is taken adds e to it, as long
\* as the result fits.
LEMMA AheadBy ==
  ASSUME NEW x \in Int, NEW y \in Int, NEW e \in Int,
         ((x - y) % CMod) + e \in 0 .. (CMod - 1)
  PROVE  (((x + e) % CMod) - y) % CMod = ((x - y) % CMod) + e
<1> USE QueueConstantTypes
<1>1. PICK u \in Int, w \in Int, z \in Int :
        u = x + e /\ w = -y /\ z = x - y
  OBVIOUS
<1>m. ASSUME NEW a \in Int, NEW b \in Int
      PROVE  ((a % CMod) + b) % CMod = (a + b) % CMod
  BY ModAdd
<1>2. ((u % CMod) + w) % CMod = (u + w) % CMod
  BY <1>m
<1>3. ((z % CMod) + e) % CMod = (z + e) % CMod
  BY <1>m
<1>4. ((z % CMod) + e) % CMod = (z % CMod) + e
  BY <1>1, ModSmall
<1>5. u % CMod \in Int /\ u + w = z + e
  BY <1>1, DivModDef
<1>6. (u % CMod) - y = (u % CMod) + w
  BY <1>1, <1>5
<1> QED
  BY <1>1, <1>2, <1>3, <1>4, <1>5, <1>6

\* Adding e to y takes e from the difference.
LEMMA BehindBy ==
  ASSUME NEW x \in 0 .. (CMod - 1), NEW y \in Int, NEW e \in Int,
         ((x - y) % CMod) - e \in 0 .. (CMod - 1)
  PROVE  (x - ((y + e) % CMod)) % CMod = ((x - y) % CMod) - e
<1> USE QueueConstantTypes
<1>1. PICK u \in Int, w \in Int, z \in Int :
        u = y + e /\ w = -e /\ z = x - y
  OBVIOUS
<1>m. ASSUME NEW a \in Int, NEW b \in Int
      PROVE  ((a % CMod) + b) % CMod = (a + b) % CMod
  BY ModAdd
<1>n. ASSUME NEW a \in Int, NEW b \in Int
      PROVE  ((a % CMod) - (b % CMod)) % CMod = (a - b) % CMod
  BY ModSub
<1>2. x % CMod = x
  BY ModSmall
<1>3. ((x % CMod) - (u % CMod)) % CMod = (x - u) % CMod
  BY <1>n, x \in Int
<1>4. ((z % CMod) + w) % CMod = (z + w) % CMod
  BY <1>m
<1>5. z % CMod \in Int /\ z + w = x - u
  BY <1>1, DivModDef
<1>6. (z % CMod) + w = (z % CMod) - e
  BY <1>1, <1>5
<1>7. ((z % CMod) - e) % CMod = (z % CMod) - e
  BY <1>1, ModSmall
<1> QED
  BY <1>1, <1>2, <1>3, <1>4, <1>5, <1>6, <1>7

\* A remainder by CMod has the same remainder by Size as the number itself:
\* the mask of ..._ptr may be applied to the 8-bit index.
LEMMA MaskOfIndex ==
  ASSUME NEW a \in Int
  PROVE  (a % CMod) % Size = a % Size
<1> USE QueueConstantTypes
<1>1. PICK k \in Int : CMod = Size * k
  BY Tc6QueueConstants
<1>2. PICK q \in Int, r \in 0 .. (CMod - 1) :
        r = a % CMod /\ a = CMod * q + r
  BY DivModDef
<1>3. PICK j \in Int : j = k * q
  OBVIOUS
<1>4. a = r + Size * j
  <2>1. (Size * k) * q = Size * (k * q)
    OBVIOUS
  <2> QED BY <1>1, <1>2, <1>3, <2>1
<1>m. ASSUME NEW b \in Int, NEW c \in Int
      PROVE  (b + Size * c) % Size = b % Size
  BY ModShift
<1>5. (r + Size * j) % Size = r % Size
  BY <1>m, r \in Int
<1> QED
  BY <1>2, <1>4, <1>5

\* Positions less than Size apart have different slots.
LEMMA SlotsDiffer ==
  ASSUME NEW a \in Int, NEW b \in Int, a < b, b - a < Size
  PROVE  a % Size # b % Size
<1> USE QueueConstantTypes
<1>1. PICK q \in Int, r \in 0 .. (Size - 1) :
        r = a % Size /\ a = Size * q + r
  BY DivModDef
<1>2. PICK p \in Int, t \in 0 .. (Size - 1) :
        t = b % Size /\ b = Size * p + t
  BY DivModDef
<1>3. SUFFICES ASSUME r = t PROVE FALSE
  BY <1>1, <1>2
<1>4. b - a = Size * (p - q)
  BY <1>1, <1>2, <1>3
<1>5. p - q >= 1
  BY <1>4
<1>6. Size * (p - q) >= Size
  BY <1>5, MultipleAtLeast
<1> QED
  BY <1>4, <1>6

-----------------------------------------------------------------------------
(***************************************************************************)
(* The indices                                                             *)
(***************************************************************************)
\* A lead is an 8-bit number, that of the last stage is 0.
LEMMA LeadType ==
  ASSUME TypeOK
  PROVE  /\ \A s \in Stages : Lead(s) \in 0 .. (CMod - 1)
         /\ Lead(Last) = 0
<1> USE QueueConstantTypes
<1>1. ASSUME NEW s \in Stages PROVE Lead(s) \in 0 .. (CMod - 1)
  <2>1. index[s] - index[Last] \in Int
    BY DEF TypeOK
  <2> QED BY <2>1, DivModDef DEF Lead, UInt8
<1>2. Lead(Last) = 0
  <2>1. index[Last] - index[Last] = 0
    BY DEF TypeOK
  <2> QED BY <2>1, ModSmall DEF Lead, UInt8
<1> QED
  BY <1>1, <1>2

\* The 8-bit difference of two indices is the difference of the leads.
LEMMA Distance ==
  ASSUME TypeOK, InOrder, NEW s \in Stages, NEW t \in Stages, s <= t
  PROVE  /\ UInt8(index[s] - index[t]) = Lead(s) - Lead(t)
         /\ Lead(s) - Lead(t) \in 0 .. Size
<1> USE QueueConstantTypes
<1>1. PICK x \in Int, y \in Int :
        x = index[s] - index[Last] /\ y = index[t] - index[Last]
  BY DEF TypeOK
<1>2. ((x % CMod) - (y % CMod)) % CMod = (x - y) % CMod
  BY ModSub
<1>3. x - y = index[s] - index[t]
  <2>1. /\ index[s] \in 0 .. (CMod - 1) /\ index[t] \in 0 .. (CMod - 1)
        /\ index[Last] \in 0 .. (CMod - 1)
    BY DEF TypeOK
  <2> HIDE QueueConstantTypes
  <2>2. index[s] \in Int /\ index[t] \in Int /\ index[Last] \in Int
    BY <2>1
  <2> QED
    BY <1>1, <2>2
<1>4. /\ Lead(s) \in 0 .. (CMod - 1) /\ Lead(t) \in 0 .. (CMod - 1)
      /\ Lead(t) <= Lead(s) /\ Lead(s) <= Lead(1) /\ Lead(1) <= Size
      /\ Lead(1) \in Int
  BY LeadType DEF InOrder, Stages
<1>5. Lead(s) - Lead(t) \in 0 .. Size
  BY <1>4
<1>6. (Lead(s) - Lead(t)) % CMod = Lead(s) - Lead(t)
  BY <1>4, ModSmall
<1> QED
  BY <1>1, <1>2, <1>3, <1>5, <1>6 DEF Lead, UInt8

\* ..._cap and ..._ready are exact.
LEMMA CapAndReady ==
  ASSUME TypeOK, InOrder
  PROVE  CapExact
<1> USE QueueConstantTypes
<1>1. /\ Lead(1) \in 0 .. Size
      /\ UInt8(index[1] - index[Last]) = Lead(1)
  BY LeadType DEF InOrder, Lead
<1>2. Cap(1) = Size - Lead(1)
  <2>1. PICK z \in Int : z = index[1] - index[Last]
    BY DEF TypeOK
  <2>2. ((Size % CMod) - (z % CMod)) % CMod = (Size - z) % CMod
    BY ModSub, Size \in Int
  <2>3. Size % CMod = Size
    BY ModSmall
  <2>4. Size - z = index[Last] + Size - index[1]
    BY <2>1 DEF TypeOK
  <2>5. (Size - Lead(1)) % CMod = Size - Lead(1)
    BY <1>1, ModSmall
  <2> QED
    BY <2>1, <2>2, <2>3, <2>4, <2>5 DEF Cap, Lead, UInt8
<1>3. Ready(1) <=> Cap(1) > 0
  BY <1>1, <1>2 DEF Ready
<1>4. ASSUME NEW s \in 2 .. Last
      PROVE  /\ Cap(s) = Lead(s - 1) - Lead(s)
             /\ Ready(s) <=> Cap(s) > 0
  <2>1. s \in Stages /\ s - 1 \in Stages /\ s # 1
    BY DEF Stages
  <2>2. PICK d \in 0 .. Size :
          d = Lead(s - 1) - Lead(s) /\ UInt8(index[s - 1] - index[s]) = d
    BY <2>1, Distance
  <2>3. Cap(s) = d
    BY <2>1, <2>2 DEF Cap
  <2>4. PICK x \in Int : x = index[s - 1] - index[s]
    BY <2>1 DEF TypeOK
  <2>5. UInt8(index[s - 1] - index[s] - 1) = (d - 1) % CMod
    <3>m. ASSUME NEW a \in Int, NEW b \in Int
          PROVE  ((a % CMod) + b) % CMod = (a + b) % CMod
      BY ModAdd
    <3>1. PICK e \in Int : e = -1
      OBVIOUS
    <3>2. ((x % CMod) + e) % CMod = (x + e) % CMod
      BY <3>m
    <3>3. x + e = index[s - 1] - index[s] - 1 /\ d + e = d - 1
      BY <2>1, <2>4, <3>1 DEF TypeOK
    <3> QED BY <2>2, <2>4, <3>2, <3>3 DEF UInt8
  <2>6. CASE d > 0
    <3>1. (d - 1) % CMod = d - 1
      BY <2>6, ModSmall
    <3> QED BY <2>1, <2>2, <2>3, <2>5, <2>6, <3>1 DEF Ready
  <2>7. CASE d = 0
    <3>1. d - 1 = CMod * (-1) + (CMod - 1)
      BY <2>7
    <3>2. (d - 1) % CMod = CMod - 1
      BY <3>1, DivModUnique
    <3> QED BY <2>1, <2>2, <2>3, <2>5, <2>7, <3>2 DEF Ready
  <2> QED
    BY <2>2, <2>3, <2>6, <2>7
<1>5. \A s \in Stages : s = 1 \/ s \in 2 .. Last
  BY DEF Stages
<1> QED
  BY <1>2, <1>3, <1>4, <1>5 DEF CapExact

-----------------------------------------------------------------------------
(***************************************************************************)
(* What the operations do to the leads                                     *)
(***************************************************************************)
\* ..._done of a stage before the last one: it gains one entry on all others.
LEMMA DoneInner ==
  ASSUME QInv, NEW s \in Stages, s # Last, NEW v \in Values, Done(s, v)
  PROVE  /\ TypeOK' /\ Lead(s)' = Lead(s) + 1
         /\ \A t \in Stages : t # s => Lead(t)' = Lead(t)
         /\ Lead(s) < Size
         /\ s # 1 => Lead(s) < Lead(s - 1)
<1> USE QueueConstantTypes
<1>1. /\ s \in work /\ work' = work \ {s}
      /\ index' = [index EXCEPT ![s] = (index[s] + 1) % CMod]
      /\ index \in [Stages -> 0 .. (CMod - 1)]
  BY DEF Done, UInt8, QInv, TypeOK
<1>2. Lead(s) < Size /\ (s # 1 => Lead(s) < Lead(s - 1))
  <2>1. CASE s = 1
    BY <1>1, <2>1 DEF QInv
  <2>2. CASE s # 1
    <3>1. s - 1 \in Stages /\ s - 1 >= 1
      BY <2>2 DEF Stages
    <3>2. /\ Lead(s) < Lead(s - 1) /\ Lead(s - 1) <= Lead(1)
          /\ Lead(1) <= Size
      BY <1>1, <2>2, <3>1 DEF QInv, InOrder
    <3>3. Lead(s) \in Int /\ Lead(s - 1) \in Int /\ Lead(1) \in Int
      BY <3>1, LeadType DEF QInv
    <3> QED BY <2>2, <3>2, <3>3
  <2> QED BY <2>1, <2>2
<1>3. (index[s] + 1) % CMod \in 0 .. (CMod - 1)
  <2>1. index[s] + 1 \in Int
    BY <1>1
  <2> QED BY <2>1, DivModDef
<1>4. TypeOK'
  <2>1. index' \in [Stages -> 0 .. (CMod - 1)]
    BY <1>1, <1>3
  <2>2. buffer' \in [0 .. (Size - 1) -> Values]
    BY DEF Done, QInv, TypeOK
  <2>3. work' \subseteq Stages
    BY <1>1 DEF QInv, TypeOK
  <2> QED BY <2>1, <2>2, <2>3 DEF TypeOK
<1>5. Lead(s)' = Lead(s) + 1
  <2>1. PICK x \in Int, y \in Int : x = index[s] /\ y = index[Last]
    BY <1>1
  <2>2. ((x - y) % CMod) + 1 \in 0 .. (CMod - 1)
    BY <1>2, <2>1, LeadType DEF Lead, UInt8, QInv
  <2>3. (((x + 1) % CMod) - y) % CMod = ((x - y) % CMod) + 1
    BY <2>2, AheadBy
  <2>4. index'[s] = (x + 1) % CMod /\ index'[Last] = y
    BY <1>1, <2>1
  <2> QED BY <2>1, <2>3, <2>4 DEF Lead, UInt8
<1>6. ASSUME NEW t \in Stages, t # s PROVE Lead(t)' = Lead(t)
  BY <1>1, <1>6 DEF Lead
<1> QED
  BY <1>2, <1>4, <1>5, <1>6

\* ..._done of the last stage: every other one has one entry less ahead.
LEMMA DoneLast ==
  ASSUME QInv, NEW v \in Values, Done(Last, v)
  PROVE  /\ TypeOK' /\ UNCHANGED buffer
         /\ index'[Last] = (index[Last] + 1) % CMod
         /\ \A t \in Stages : t # Last => Lead(t) > 0 /\ Lead(t)' = Lead(t) - 1
<1> USE QueueConstantTypes
<1>1. /\ Last \in work /\ work' = work \ {Last} /\ buffer' = buffer
      /\ index' = [index EXCEPT ![Last] = (index[Last] + 1) % CMod]
      /\ index \in [Stages -> 0 .. (CMod - 1)]
  BY DEF Done, UInt8, QInv, TypeOK
<1>2. ASSUME NEW t \in Stages, t # Last PROVE Lead(t) > 0
  <2>1. Last - 1 \in Stages /\ t <= Last - 1
    BY <1>2 DEF Stages
  <2>2. Lead(Last) < Lead(Last - 1) /\ Lead(Last - 1) <= Lead(t)
    BY <1>1, <2>1 DEF QInv, InOrder
  <2>3. Lead(Last) = 0 /\ Lead(Last - 1) \in Int /\ Lead(t) \in Int
    BY <2>1, LeadType DEF QInv
  <2> QED BY <2>2, <2>3
<1>3. (index[Last] + 1) % CMod \in 0 .. (CMod - 1)
  <2>1. index[Last] + 1 \in Int
    BY <1>1
  <2> QED BY <2>1, DivModDef
<1>4. TypeOK'
  <2>1. index' \in [Stages -> 0 .. (CMod - 1)]
    BY <1>1, <1>3
  <2> QED BY <1>1, <2>1 DEF TypeOK, QInv
<1>5. ASSUME NEW t \in Stages, t # Last PROVE Lead(t)' = Lead(t) - 1
  <2>1. PICK x \in 0 .. (CMod - 1), y \in Int :
          x = index[t] /\ y = index[Last]
    BY <1>1
  <2>2. ((x - y) % CMod) - 1 \in 0 .. (CMod - 1)
    BY <1>2, <1>5, <2>1, LeadType DEF Lead, UInt8, QInv
  <2>3. (x - ((y + 1) % CMod)) % CMod = ((x - y) % CMod) - 1
    BY <2>2, BehindBy
  <2>4. index'[t] = x /\ index'[Last] = (y + 1) % CMod
    BY <1>1, <1>5, <2>1
  <2> QED BY <2>1, <2>3, <2>4 DEF Lead, UInt8
<1> QED
  BY <1>1, <1>2, <1>4, <1>5

\* ..._undo: the stage loses one entry to all others.
LEMMA UndoLead ==
  ASSUME QInv, NEW s \in 1 .. (Last - 1), Undo(s)
  PROVE  /\ TypeOK' /\ Lead(s)' = Lead(s) - 1
         /\ \A t \in Stages : t # s => Lead(t)' = Lead(t)
         /\ Lead(s + 1) < Lead(s)
         /\ s + 1 \in work => Lead(s + 1) < Lead(s) - 1
<1> USE QueueConstantTypes
<1>1. /\ index' = [index EXCEPT ![s] = (index[s] - 1) % CMod]
      /\ UNCHANGED <<buffer, work>>
      /\ index \in [Stages -> 0 .. (CMod - 1)]
  BY DEF Undo, UInt8, QInv, TypeOK
<1>2. s \in Stages /\ s + 1 \in Stages /\ s # Last /\ s + 1 \in 2 .. Last
  BY DEF Stages
<1>3. Cap(s + 1) = Lead(s) - Lead(s + 1)
  <2>1. CapExact /\ (s + 1) - 1 = s
    BY CapAndReady DEF QInv
  <2> QED BY <1>2, <2>1 DEF CapExact
<1>4. Lead(s) \in 0 .. (CMod - 1) /\ Lead(s + 1) \in 0 .. (CMod - 1)
  BY <1>2, LeadType DEF QInv
<1>5. /\ Lead(s + 1) < Lead(s)
      /\ s + 1 \in work => Lead(s + 1) < Lead(s) - 1
  BY <1>3, <1>4 DEF Undo
<1>6. TypeOK'
  <2>1. index[s] - 1 \in Int
    BY <1>1, <1>2
  <2>2. (index[s] - 1) % CMod \in 0 .. (CMod - 1)
    BY <2>1, DivModDef
  <2>3. index' \in [Stages -> 0 .. (CMod - 1)]
    BY <1>1, <2>2
  <2> QED BY <1>1, <2>3 DEF TypeOK, QInv
<1>7. Lead(s)' = Lead(s) - 1
  <2>1. PICK x \in Int, y \in Int, e \in Int :
          x = index[s] /\ y = index[Last] /\ e = -1
    BY <1>1, <1>2
  <2>2. ((x - y) % CMod) + e \in 0 .. (CMod - 1)
    BY <1>4, <1>5, <2>1 DEF Lead, UInt8
  <2>3. (((x + e) % CMod) - y) % CMod = ((x - y) % CMod) + e
    BY <2>2, AheadBy
  <2>4. index'[s] = (x + e) % CMod /\ index'[Last] = y
    BY <1>1, <1>2, <2>1
  <2>5. (index'[s] - index'[Last]) % CMod = Lead(s) + e
    BY <2>1, <2>3, <2>4 DEF Lead, UInt8
  <2> QED BY <1>4, <2>1, <2>5 DEF Lead, UInt8
<1>8. ASSUME NEW t \in Stages, t # s PROVE Lead(t)' = Lead(t)
  BY <1>1, <1>2, <1>8 DEF Lead
<1> QED
  BY <1>5, <1>6, <1>7, <1>8

-----------------------------------------------------------------------------
(***************************************************************************)
(* The invariant                                                           *)
(***************************************************************************)
LEMMA QInvInit == Init => QInv
<1> USE QueueConstantTypes
<1> SUFFICES ASSUME Init PROVE QInv
  OBVIOUS
<1>1. TypeOK /\ work = {}
  BY DEF Init, TypeOK
<1>2. ASSUME NEW s \in Stages PROVE Lead(s) = 0
  <2>1. index[s] - index[Last] = 0
    BY DEF Init
  <2> QED BY <2>1, ModSmall DEF Lead, UInt8
<1> QED
  BY <1>1, <1>2 DEF QInv, InOrder

LEMMA QInvStep == QInv /\ [Next]_vars => QInv'
<1> USE QueueConstantTypes
<1> SUFFICES ASSUME QInv, [Next]_vars PROVE QInv'
  OBVIOUS
<1>0. \A s \in Stages : Lead(s) \in 0 .. (CMod - 1)
  BY LeadType DEF QInv
<1>1. ASSUME NEW s \in Stages, Begin(s) PROVE QInv'
  <2>1. work' = work \union {s} /\ UNCHANGED <<index, buffer>>
    BY <1>1 DEF Begin
  <2>2. \A t \in Stages : Lead(t)' = Lead(t)
    BY <2>1 DEF Lead
  <2>3. TypeOK' /\ InOrder'
    BY <2>1, <2>2 DEF TypeOK, InOrder, QInv
  <2>4. Cap(s) > 0
    BY <1>1, CapAndReady DEF Begin, CapExact, QInv
  <2>5. s = 1 => Lead(1) < Size
    BY <1>0, <2>4, CapAndReady DEF CapExact, QInv
  <2>6. s # 1 => Lead(s) < Lead(s - 1)
    <3>1. s # 1 => s \in 2 .. Last /\ s - 1 \in Stages
      BY DEF Stages
    <3> QED BY <1>0, <2>4, <3>1, CapAndReady DEF CapExact, QInv
  <2>7. \A t \in Stages : t # 1 => t - 1 \in Stages
    BY DEF Stages
  <2> QED
    BY <2>1, <2>2, <2>3, <2>5, <2>6, <2>7 DEF QInv, TypeOK
<1>2. ASSUME NEW s \in Stages, s # Last, NEW v \in Values, Done(s, v)
      PROVE  QInv'
  <2>1. /\ TypeOK' /\ Lead(s)' = Lead(s) + 1
        /\ \A t \in Stages : t # s => Lead(t)' = Lead(t)
        /\ Lead(s) < Size
        /\ s # 1 => Lead(s) < Lead(s - 1)
    BY <1>2, DoneInner
  <2>2. work' = work \ {s} /\ work \subseteq Stages
    BY <1>2 DEF Done, QInv, TypeOK
  <2>3. InOrder'
    <3>1. Lead(1)' <= Size
      BY <1>0, <2>1 DEF QInv, InOrder
    <3>2. ASSUME NEW t \in Stages, NEW u \in Stages, t <= u
          PROVE  Lead(u)' <= Lead(t)'
      <4>1. Lead(u) <= Lead(t)
        BY <3>2 DEF QInv, InOrder
      <4>2. CASE u = s /\ t # s
        <5>1. s # 1 /\ s - 1 \in Stages /\ t <= s - 1
          BY <3>2, <4>2 DEF Stages
        <5>2. Lead(s - 1) <= Lead(t)
          BY <5>1 DEF QInv, InOrder
        <5> QED BY <1>0, <2>1, <4>2, <5>1, <5>2
      <4>3. CASE u # s \/ t = s
        BY <1>0, <2>1, <4>1, <4>3
      <4> QED BY <4>2, <4>3
    <3> QED BY <3>1, <3>2 DEF InOrder
  <2>4. ASSUME NEW t \in work', t # 1 PROVE Lead(t)' < Lead(t - 1)'
    <3>1. t \in work /\ t # s /\ t \in Stages /\ t - 1 \in Stages
      BY <2>2, <2>4 DEF Stages
    <3>2. Lead(t) < Lead(t - 1)
      BY <2>4, <3>1 DEF QInv
    <3>3. CASE t - 1 = s
      BY <1>0, <2>1, <3>1, <3>2, <3>3
    <3>4. CASE t - 1 # s
      BY <2>1, <3>1, <3>2, <3>4
    <3> QED BY <3>3, <3>4
  <2>5. 1 \in work' => Lead(1)' < Size
    BY <2>1, <2>2 DEF QInv
  <2> QED
    BY <2>1, <2>3, <2>4, <2>5 DEF QInv
<1>3. ASSUME NEW v \in Values, Done(Last, v) PROVE QInv'
  <2>1. /\ TypeOK'
        /\ \A t \in Stages : t # Last => Lead(t) > 0 /\ Lead(t)' = Lead(t) - 1
    BY <1>3, DoneLast
  <2>2. work' = work \ {Last} /\ work \subseteq Stages
    BY <1>3 DEF Done, QInv, TypeOK
  <2>3. Lead(Last)' = 0 /\ Lead(Last) = 0
    <3>1. ASSUME TypeOK PROVE Lead(Last) = 0
      BY <3>1, LeadType
    <3>2. Lead(Last) = 0
      BY <3>1 DEF QInv
    <3>3. index'[Last] - index'[Last] = 0
      BY <2>1 DEF TypeOK
    <3> QED BY <3>2, <3>3, ModSmall DEF Lead, UInt8
  <2>4. InOrder'
    <3>1. Lead(1)' <= Size
      BY <1>0, <2>1 DEF QInv, InOrder
    <3>2. ASSUME NEW t \in Stages, NEW u \in Stages, t <= u
          PROVE  Lead(u)' <= Lead(t)'
      <4>1. Lead(u) <= Lead(t)
        BY <3>2 DEF QInv, InOrder
      <4>2. CASE u = Last
        BY <1>0, <2>1, <2>3, <4>2
      <4>3. CASE u # Last
        <5>1. t # Last
          BY <3>2, <4>3 DEF Stages
        <5> QED BY <1>0, <2>1, <4>1, <4>3, <5>1
      <4> QED BY <4>2, <4>3
    <3> QED BY <3>1, <3>2 DEF InOrder
  <2>5. ASSUME NEW t \in work', t # 1 PROVE Lead(t)' < Lead(t - 1)'
    <3>1. t \in work /\ t # Last /\ t \in Stages /\ t - 1 \in Stages /\ t - 1 # Last
      BY <2>2, <2>5 DEF Stages
    <3>2. Lead(t) < Lead(t - 1)
      BY <2>5, <3>1 DEF QInv
    <3> QED BY <1>0, <2>1, <3>1, <3>2
  <2>6. 1 \in work' => Lead(1)' < Size
    BY <1>0, <2>1, <2>2 DEF QInv
  <2> QED
    BY <2>1, <2>4, <2>5, <2>6 DEF QInv
<1>4. ASSUME NEW s \in 1 .. (Last - 1), Undo(s) PROVE QInv'
  <2>1. /\ TypeOK' /\ Lead(s)' = Lead(s) - 1
        /\ \A t \in Stages : t # s => Lead(t)' = Lead(t)
        /\ Lead(s + 1) < Lead(s)
        /\ s + 1 \in work => Lead(s + 1) < Lead(s) - 1
    BY <1>4, UndoLead
  <2>2. /\ work' = work /\ work \subseteq Stages /\ s \notin work
        /\ s \in Stages /\ s + 1 \in Stages
    BY <1>4 DEF Undo, QInv, TypeOK, Stages
  <2>3. InOrder'
    <3>1. Lead(1)' <= Size
      BY <1>0, <2>1, <2>2 DEF QInv, InOrder
    <3>2. ASSUME NEW t \in Stages, NEW u \in Stages, t <= u
          PROVE  Lead(u)' <= Lead(t)'
      <4>1. Lead(u) <= Lead(t)
        BY <3>2 DEF QInv, InOrder
      <4>2. CASE t = s /\ u # s
        <5>1. s + 1 <= u
          BY <3>2, <4>2 DEF Stages
        <5>2. Lead(u) <= Lead(s + 1)
          BY <2>2, <5>1 DEF QInv, InOrder
        <5> QED BY <1>0, <2>1, <2>2, <4>2, <5>2
      <4>3. CASE t # s \/ u = s
        BY <1>0, <2>1, <2>2, <4>1, <4>3
      <4> QED BY <4>2, <4>3
    <3> QED BY <3>1, <3>2 DEF InOrder
  <2>4. ASSUME NEW t \in work', t # 1 PROVE Lead(t)' < Lead(t - 1)'
    <3>1. t \in work /\ t # s /\ t \in Stages /\ t - 1 \in Stages
      BY <2>2, <2>4 DEF Stages
    <3>2. Lead(t) < Lead(t - 1)
      BY <2>4, <3>1 DEF QInv
    <3>3. CASE t - 1 = s
      <4>1. t = s + 1
        BY <3>1, <3>3 DEF Stages
      <4> QED BY <2>1, <3>1, <3>3, <4>1
    <3>4. CASE t - 1 # s
      BY <2>1, <3>1, <3>2, <3>4
    <3> QED BY <3>3, <3>4
  <2>5. 1 \in work' => Lead(1)' < Size
    BY <2>1, <2>2 DEF QInv
  <2> QED
    BY <2>1, <2>3, <2>4, <2>5 DEF QInv
<1>5. CASE UNCHANGED vars
  BY <1>5 DEF vars, QInv, TypeOK, InOrder, Lead
<1> QED
  BY <1>1, <1>2, <1>3, <1>4, <1>5 DEF Next

\* The slot of a stage, counted from that of the last stage.
LEMMA PtrOf ==
  ASSUME TypeOK, NEW u \in Stages, NEW z \in Int, z = index[Last] + Lead(u)
  PROVE  Ptr(u) = z % Size
<1> USE QueueConstantTypes
<1>m. ASSUME NEW a \in Int, NEW b \in Int
      PROVE  ((a % CMod) + b) % CMod = (a + b) % CMod
  BY ModAdd
<1>1. index[u] \in 0 .. (CMod - 1) /\ index[Last] \in 0 .. (CMod - 1)
  BY DEF TypeOK
<1>2. PICK a \in Int, b \in Int :
        a = index[u] - index[Last] /\ b = index[Last]
  BY <1>1
<1>3. ((a % CMod) + b) % CMod = (a + b) % CMod
  BY <1>m
<1>4. a + b = index[u]
  BY <1>1, <1>2
<1>5. index[u] % CMod = index[u]
  BY <1>1, ModSmall
<1>6. z = (a % CMod) + b
  <2>1. a % CMod \in Int
    BY DivModDef
  <2> QED BY <1>1, <1>2, <2>1 DEF Lead, UInt8
<1>7. z % CMod = index[u]
  BY <1>3, <1>4, <1>5, <1>6
<1> QED
  BY <1>7, MaskOfIndex DEF Ptr

\* Stages that work at the same time are less than Size apart.
LEMMA OwnersApart ==
  ASSUME QInv, NEW s \in Stages, NEW t \in Stages, s \in work, t \in work,
         s < t
  PROVE  Ptr(s) # Ptr(t)
<1> USE QueueConstantTypes
<1>0. \A u \in Stages : Lead(u) \in 0 .. (CMod - 1)
  BY LeadType DEF QInv
<1>1. /\ s \in Stages /\ t \in Stages /\ t - 1 \in Stages /\ t # 1
      /\ s <= t - 1 /\ index \in [Stages -> 0 .. (CMod - 1)]
  BY DEF QInv, TypeOK, Stages
<1>2. /\ Lead(s) \in Int /\ Lead(t) \in 0 .. (CMod - 1)
      /\ Lead(t) < Lead(t - 1) /\ Lead(t - 1) <= Lead(s)
      /\ Lead(t - 1) \in Int
  BY <1>1, LeadType DEF QInv, InOrder
<1>3. Lead(s) < Size
  <2>1. CASE s = 1
    BY <2>1 DEF QInv
  <2>2. CASE s # 1
    <3>1. s - 1 \in Stages /\ 1 <= s - 1
      BY <1>1, <2>2 DEF Stages
    <3>2. Lead(s) < Lead(s - 1) /\ Lead(s - 1) <= Lead(1) /\ Lead(1) <= Size
      BY <2>2, <3>1 DEF QInv, InOrder
    <3>3. Lead(s - 1) \in Int /\ Lead(1) \in Int
      BY <1>0, <3>1
    <3> QED BY <1>2, <3>2, <3>3
  <2> QED BY <2>1, <2>2
<1>4. PICK x \in Int, y \in Int :
        x = index[Last] + Lead(s) /\ y = index[Last] + Lead(t)
  BY <1>1, <1>2
<1>5. x % Size # y % Size
  <2>1. y < x /\ x - y < Size
    BY <1>1, <1>2, <1>3, <1>4
  <2> QED BY <2>1, SlotsDiffer
<1> QED
  BY <1>1, <1>4, <1>5, PtrOf DEF QInv

\* An entry has one owner from ..._ready to ..._done, stages keep their
\* order, and ..._cap and ..._ready are exact, for every number of stages,
\* every size and every interleaving.
THEOREM QueueSafe == Spec => [](OneOwner /\ InOrder /\ CapExact /\ TypeOK)
<1>1. QInv => OneOwner /\ InOrder /\ CapExact /\ TypeOK
  <2> SUFFICES ASSUME QInv PROVE OneOwner /\ InOrder /\ CapExact /\ TypeOK
    OBVIOUS
  <2>1. \A s, t \in work : /\ s \in Stages /\ t \in Stages
                           /\ s # t => s < t \/ t < s
    BY QueueConstantTypes DEF QInv, TypeOK, Stages
  <2>2. OneOwner
    BY <2>1, OwnersApart DEF OneOwner
  <2>3. InOrder /\ CapExact /\ TypeOK
    BY CapAndReady DEF QInv
  <2> QED BY <2>2, <2>3
<1> QED
  BY <1>1, QInvInit, QInvStep, PTL DEF Spec

\* The 8-bit ..._cap of every stage is exactly its room or its backlog, and
\* ..._ready holds exactly when that is not zero, for every number of stages
\* and every size.
THEOREM CapacitiesExact == Spec => []CapExact
  BY QueueSafe, PTL

-----------------------------------------------------------------------------
(***************************************************************************)
(* The refinement                                                          *)
(***************************************************************************)
Slot(i) == (index[Last] + i - 1) % Size
Passed == [s \in Stages |-> Lead(s)]

\* What the queue holds, as a sequence.
LEMMA ContentSeq ==
  ASSUME TypeOK, InOrder
  PROVE  /\ Lead(1) \in 0 .. Size
         /\ Content \in Seq(Values) /\ Len(Content) = Lead(1)
         /\ Content = [i \in 1 .. Lead(1) |-> buffer[Slot(i)]]
         /\ \A i \in Int : Slot(i) \in 0 .. (Size - 1)
<1> USE QueueConstantTypes
<1>1. Lead(1) \in 0 .. Size
  BY LeadType DEF InOrder
<1>2. ASSUME NEW i \in Int PROVE Slot(i) \in 0 .. (Size - 1)
  <2>1. index[Last] + i - 1 \in Int
    BY DEF TypeOK
  <2> QED BY <2>1, DivModDef DEF Slot
<1>3. Content = [i \in 1 .. Lead(1) |-> buffer[Slot(i)]]
  BY DEF Content, Slot
<1>4. \A i \in 1 .. Lead(1) : buffer[Slot(i)] \in Values
  BY <1>1, <1>2 DEF TypeOK
<1>5. Content \in Seq(Values) /\ Len(Content) = Lead(1)
  BY <1>1, <1>3, <1>4
<1> QED
  BY <1>1, <1>2, <1>3, <1>5

LEMMA FifoInit == Init => Fifo!Init
<1> USE QueueConstantTypes
<1> SUFFICES ASSUME Init PROVE Fifo!Init
  OBVIOUS
<1>1. ASSUME NEW s \in Stages PROVE Lead(s) = 0
  <2>1. index[s] - index[Last] = 0
    BY DEF Init
  <2> QED BY <2>1, ModSmall DEF Lead, UInt8
<1>2. QInv
  BY QInvInit
<1>3. Content \in Seq(Values) /\ Len(Content) = 0
  BY <1>1, <1>2, ContentSeq DEF QInv
<1>4. Content = <<>>
  BY <1>3
<1> QED
  BY <1>1, <1>4 DEF Fifo!Init, Fifo!Stages, Stages

\* The first stage enters an entry at the end.
LEMMA EnterStep ==
  ASSUME QInv, NEW v \in Values, Done(1, v)
  PROVE  Fifo!Enter(v)
<1> USE QueueConstantTypes
<1>1. /\ TypeOK' /\ Lead(1)' = Lead(1) + 1 /\ Lead(1) < Size
      /\ \A t \in Stages : t # 1 => Lead(t)' = Lead(t)
  BY DoneInner
<1>2. /\ buffer' = [buffer EXCEPT ![Ptr(1)] = v]
      /\ index'[Last] = index[Last]
      /\ buffer \in [0 .. (Size - 1) -> Values]
      /\ index[Last] \in Int
  BY DEF Done, QInv, TypeOK
<1>3. /\ Lead(1) \in 0 .. Size
      /\ Content \in Seq(Values) /\ Len(Content) = Lead(1)
      /\ Content = [i \in 1 .. Lead(1) |-> buffer[Slot(i)]]
      /\ \A i \in Int : Slot(i) \in 0 .. (Size - 1)
  BY ContentSeq DEF QInv
<1>a. index[Last] \in Int /\ Lead(1) \in Int /\ Lead(1) < Size
  BY <1>1, <1>2, <1>3
<1>4. Ptr(1) = Slot(Lead(1) + 1)
  <2>1. PICK z \in Int : z = index[Last] + Lead(1)
    BY <1>a
  <2>2. Ptr(1) = z % Size
    BY <2>1, PtrOf DEF QInv
  <2>3. z = index[Last] + (Lead(1) + 1) - 1
    BY <1>a, <2>1
  <2> QED BY <2>2, <2>3 DEF Slot
<1>5. ASSUME NEW i \in 1 .. Lead(1) PROVE Slot(i) # Ptr(1)
  <2>1. PICK a \in Int, b \in Int :
          a = index[Last] + i - 1 /\ b = index[Last] + (Lead(1) + 1) - 1
    BY <1>a
  <2>2. a < b /\ b - a < Size
    BY <1>a, <2>1
  <2>3. a % Size # b % Size
    BY <2>2, SlotsDiffer
  <2> QED BY <1>4, <2>1, <2>3 DEF Slot
<1>6. Content' = [i \in 1 .. (Lead(1) + 1) |-> buffer'[Slot(i)]]
  BY <1>1, <1>2 DEF Content, Slot
<1>7. Content' = Append(Content, v)
  <2>1. ASSUME NEW i \in 1 .. Lead(1) PROVE buffer'[Slot(i)] = Content[i]
    BY <1>2, <1>3, <1>5
  <2>2. buffer'[Slot(Lead(1) + 1)] = v
    BY <1>2, <1>3, <1>4
  <2>3. PICK n \in Nat : n = Lead(1)
    BY <1>3
  <2>4. ASSUME NEW i \in 1 .. (n + 1)
        PROVE  buffer'[Slot(i)] = IF i <= n THEN Content[i] ELSE v
    <3>1. CASE i \in 1 .. n
      BY <2>1, <2>3, <3>1
    <3>2. CASE i = n + 1
      BY <2>2, <2>3, <3>2
    <3> QED BY <3>1, <3>2
  <2>5. /\ Append(Content, v) \in Seq(Values)
        /\ Len(Append(Content, v)) = n + 1
        /\ \A i \in 1 .. n : Append(Content, v)[i] = Content[i]
        /\ Append(Content, v)[n + 1] = v
    BY <1>3, <2>3, AppendProperties
  <2>6. /\ Append(Content, v) \in [1 .. (n + 1) -> Values]
        /\ \A i \in 1 .. (n + 1) :
             Append(Content, v)[i] = IF i <= n THEN Content[i] ELSE v
    <3>1. Append(Content, v) \in [1 .. (n + 1) -> Values]
      BY <2>5, LenProperties
    <3>2. \A i \in 1 .. (n + 1) : i <= n => i \in 1 .. n
      OBVIOUS
    <3>3. \A i \in 1 .. (n + 1) : ~(i <= n) => i = n + 1
      OBVIOUS
    <3> QED BY <2>5, <3>1, <3>2, <3>3
  <2>7. Append(Content, v) = [i \in 1 .. (n + 1) |-> buffer'[Slot(i)]]
    BY <2>4, <2>6
  <2> QED BY <1>6, <2>3, <2>7
<1>8. Passed' = [Passed EXCEPT ![1] = @ + 1]
  BY <1>1 DEF Passed
<1> QED
  BY <1>1, <1>3, <1>7, <1>8 DEF Fifo!Enter, Passed

\* The last stage takes the oldest entry out.
LEMMA LeaveStep ==
  ASSUME QInv, NEW v \in Values, Done(Last, v)
  PROVE  Fifo!Leave
<1> USE QueueConstantTypes
<1>1. /\ TypeOK' /\ buffer' = buffer
      /\ index'[Last] = (index[Last] + 1) % CMod
      /\ \A t \in Stages : t # Last => Lead(t) > 0 /\ Lead(t)' = Lead(t) - 1
      /\ Last - 1 \in Stages
  BY DoneLast DEF Stages
<1>2. /\ Lead(1) \in 0 .. Size
      /\ Content \in Seq(Values) /\ Len(Content) = Lead(1)
      /\ Content = [i \in 1 .. Lead(1) |-> buffer[Slot(i)]]
  BY ContentSeq DEF QInv
<1>3. ASSUME NEW i \in Int PROVE Slot(i)' = Slot(i + 1)
  <2>1. PICK x \in Int, e \in Int : x = index[Last] + 1 /\ e = i - 1
    BY DEF QInv, TypeOK
  <2>2. (x % CMod) % Size = x % Size
    BY MaskOfIndex
  <2>m. ASSUME NEW a \in Int, NEW b \in Int
        PROVE  ((a % Size) + b) % Size = (a + b) % Size
    BY ModAdd
  <2>3. PICK y \in Int : y = x % CMod
    <3>1. x % CMod \in Int
      BY DivModDef
    <3> QED BY <3>1
  <2>4. (y + e) % Size = (x + e) % Size
    <3>1. ((y % Size) + e) % Size = (y + e) % Size
      BY <2>m
    <3>2. ((x % Size) + e) % Size = (x + e) % Size
      BY <2>m
    <3> QED BY <2>2, <2>3, <3>1, <3>2
  <2>5. x + e = index[Last] + (i + 1) - 1
    <3>1. index[Last] \in Int
      BY DEF QInv, TypeOK
    <3> HIDE QueueConstantTypes
    <3> QED BY <2>1, <3>1
  <2>6. y + e = index'[Last] + i - 1
    BY <1>1, <2>1, <2>3
  <2> QED BY <2>4, <2>5, <2>6 DEF Slot
<1>4. Content' = [i \in 1 .. (Lead(1) - 1) |-> buffer[Slot(i + 1)]]
  <2>1. Content' = [i \in 1 .. Lead(1)' |-> buffer'[Slot(i)']]
    BY DEF Content, Slot
  <2>2. 1 # Last /\ Lead(1)' = Lead(1) - 1
    BY <1>1
  <2>3. PICK n \in Int : n = Lead(1) - 1
    BY <1>2
  <2>4. \A i \in 1 .. n : Slot(i)' = Slot(i + 1)
    BY <1>3
  <2>5. Content' = [i \in 1 .. n |-> buffer[Slot(i)']]
    BY <1>1, <2>1, <2>2, <2>3
  <2>6. Content' = [i \in 1 .. n |-> buffer[Slot(i + 1)]]
    BY <2>4, <2>5, Zenon
  <2> QED BY <2>3, <2>6
<1>5. Content' = Tail(Content)
  <2>1. \A i \in 1 .. (Lead(1) - 1) : Content[i + 1] = buffer[Slot(i + 1)]
    BY <1>2
  <2>2. Content' = [i \in 1 .. (Lead(1) - 1) |-> Content[i + 1]]
    BY <1>4, <2>1
  <2>3. Content # <<>>
    BY <1>1, <1>2
  <2> QED BY <1>2, <2>2, <2>3
<1>6. Passed' = [s \in Stages |-> IF s = Last THEN 0 ELSE Passed[s] - 1]
  <2>1. Lead(Last)' = 0
    <3>1. index'[Last] - index'[Last] = 0
      BY <1>1 DEF TypeOK
    <3> QED BY <3>1, ModSmall DEF Lead, UInt8
  <2> QED BY <1>1, <2>1 DEF Passed
<1> QED
  BY <1>1, <1>5, <1>6 DEF Fifo!Leave, Fifo!Stages, Stages, Passed

\* A stage in between hands an entry on.
LEMMA PassStep ==
  ASSUME QInv, NEW s \in 2 .. (Last - 1), NEW v \in Values, Done(s, v)
  PROVE  Fifo!Pass(s)
<1> USE QueueConstantTypes
<1>0. s \in Stages /\ s - 1 \in Stages /\ s # Last /\ s # 1
  BY DEF Stages
<1>1. /\ Lead(s)' = Lead(s) + 1 /\ Lead(s) < Lead(s - 1)
      /\ \A t \in Stages : t # s => Lead(t)' = Lead(t)
  BY <1>0, DoneInner
<1>2. buffer' = buffer /\ index'[Last] = index[Last]
  BY <1>0 DEF Done, QInv, TypeOK
<1>3. Content' = Content
  BY <1>0, <1>1, <1>2 DEF Content
<1>4. Passed' = [Passed EXCEPT ![s] = @ + 1]
  BY <1>0, <1>1 DEF Passed
<1>5. Passed[s] < Passed[s - 1]
  BY <1>0, <1>1 DEF Passed
<1> QED
  BY <1>3, <1>4, <1>5 DEF Fifo!Pass, Passed

\* ..._undo of the first stage withdraws the newest entry.
LEMMA WithdrawStep ==
  ASSUME QInv, Undo(1)
  PROVE  Fifo!Withdraw
<1> USE QueueConstantTypes
<1>0. 1 \in 1 .. (Last - 1) /\ 1 + 1 = 2 /\ 2 \in Stages
  BY DEF Stages
<1>1. /\ Lead(1)' = Lead(1) - 1 /\ Lead(2) < Lead(1)
      /\ \A t \in Stages : t # 1 => Lead(t)' = Lead(t)
  BY <1>0, UndoLead
<1>2. buffer' = buffer /\ index'[Last] = index[Last]
  BY DEF Undo, QInv, TypeOK
<1>3. /\ Content \in Seq(Values) /\ Len(Content) = Lead(1)
      /\ Content = [i \in 1 .. Lead(1) |-> buffer[Slot(i)]]
  BY ContentSeq DEF QInv
<1>4. PICK n \in Nat : Lead(1) = n + 1 /\ n = Lead(1) - 1
  <2>1. Lead(1) \in 0 .. Size /\ Lead(2) \in 0 .. (CMod - 1)
    BY <1>0, ContentSeq, LeadType DEF QInv
  <2> QED BY <1>1, <2>1
<1>5. Content' = [i \in 1 .. n |-> buffer[Slot(i)]]
  BY <1>1, <1>2, <1>4 DEF Content, Slot
<1>6. \A i \in 1 .. n : Content[i] = buffer[Slot(i)]
  BY <1>3, <1>4
<1>7. SubSeq(Content, 1, n) = [i \in 1 .. n |-> Content[i]]
  <2>1. n \in 0 .. Len(Content)
    BY <1>3, <1>4
  <2>2. SubSeq(Content, 1, n) = Restrict(Content, 1 .. n)
    BY <1>3, <2>1, SubSeqRestrict
  <2> QED BY <2>2 DEF Restrict
<1>8. SubSeq(Content, 1, n) = [i \in 1 .. n |-> buffer[Slot(i)]]
  BY <1>6, <1>7, Zenon
<1>9. Passed' = [Passed EXCEPT ![1] = @ - 1]
  BY <1>1 DEF Passed
<1>10. Passed[2] < Passed[1]
  BY <1>0, <1>1 DEF Passed
<1>11. Content' = SubSeq(Content, 1, Len(Content) - 1)
  BY <1>3, <1>4, <1>5, <1>8
<1> QED
  BY <1>9, <1>10, <1>11 DEF Fifo!Withdraw, Passed

\* ..._undo of a stage in between.
LEMMA ReturnStep ==
  ASSUME QInv, NEW s \in 2 .. (Last - 1), Undo(s)
  PROVE  Fifo!Return(s)
<1> USE QueueConstantTypes
<1>0. s \in Stages /\ s + 1 \in Stages /\ s # Last /\ s # 1
      /\ s \in 1 .. (Last - 1)
  BY DEF Stages
<1>1. /\ Lead(s)' = Lead(s) - 1 /\ Lead(s + 1) < Lead(s)
      /\ \A t \in Stages : t # s => Lead(t)' = Lead(t)
  BY <1>0, UndoLead
<1>2. buffer' = buffer /\ index'[Last] = index[Last]
  BY <1>0 DEF Undo, QInv, TypeOK
<1>3. Content' = Content
  BY <1>0, <1>1, <1>2 DEF Content
<1>4. Passed' = [Passed EXCEPT ![s] = @ - 1]
  BY <1>0, <1>1 DEF Passed
<1>5. Passed[s + 1] < Passed[s]
  BY <1>0, <1>1 DEF Passed
<1> QED
  BY <1>3, <1>4, <1>5 DEF Fifo!Return, Passed

\* Every step of the ring is a step of the queue, or none.
LEMMA FifoStep == QInv /\ [Next]_vars => [Fifo!Next]_(Fifo!vars)
<1> USE QueueConstantTypes
<1> SUFFICES ASSUME QInv, [Next]_vars PROVE [Fifo!Next]_(Fifo!vars)
  OBVIOUS
<1>1. ASSUME UNCHANGED <<index, buffer>> PROVE UNCHANGED Fifo!vars
  <2>1. Content' = Content /\ Passed' = Passed
    BY <1>1 DEF Content, Passed, Lead
  <2> QED BY <2>1 DEF Fifo!vars, Passed
<1>2. CASE UNCHANGED vars
  BY <1>1, <1>2 DEF vars
<1>3. ASSUME NEW s \in Stages, Begin(s) PROVE UNCHANGED Fifo!vars
  BY <1>1, <1>3 DEF Begin
<1>4. ASSUME NEW s \in Stages, NEW v \in Values, Done(s, v)
      PROVE  Fifo!Next
  <2>1. CASE s = 1
    BY <1>4, <2>1, EnterStep DEF Fifo!Next
  <2>2. CASE s = Last
    BY <1>4, <2>2, LeaveStep DEF Fifo!Next
  <2>3. CASE s # 1 /\ s # Last
    <3>1. s \in 2 .. (Last - 1)
      BY <2>3 DEF Stages
    <3> QED BY <1>4, <3>1, PassStep DEF Fifo!Next
  <2> QED BY <2>1, <2>2, <2>3
<1>5. ASSUME NEW s \in 1 .. (Last - 1), Undo(s) PROVE Fifo!Next
  <2>1. CASE s = 1
    BY <1>5, <2>1, WithdrawStep DEF Fifo!Next
  <2>2. CASE s # 1
    <3>1. s \in 2 .. (Last - 1)
      BY <2>2
    <3> QED BY <1>5, <3>1, ReturnStep DEF Fifo!Next
  <2> QED BY <2>1, <2>2
<1> QED
  BY <1>2, <1>3, <1>4, <1>5 DEF Next

\* The ring implements the staged FIFO queue: no entry is lost, duplicated,
\* overwritten or handled out of turn, for every number of stages, every
\* size and every interleaving of the stages.
THEOREM QueueRefinesFifo == Spec => ImplementsFifo
<1>1. Fifo!Init /\ [][Fifo!Next]_(Fifo!vars) => Fifo!Spec
  BY PTL DEF Fifo!Spec
<1> QED
  BY <1>1, QInvInit, QInvStep, FifoInit, FifoStep, PTL DEF Spec, ImplementsFifo
=============================================================================
