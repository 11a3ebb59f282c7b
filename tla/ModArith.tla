------------------------------ MODULE ModArith ------------------------------
(***************************************************************************)
(* Facts about division and remainder by an arbitrary positive modulus,    *)
(* for the proofs about unsigned C arithmetic.                             *)
(***************************************************************************)
EXTENDS Integers, TLAPS

\* What \div and % mean: quotient and remainder.
LEMMA DivModDef ==
  ASSUME NEW a \in Int, NEW m \in Nat \ {0}
  PROVE  /\ a \div m \in Int
         /\ a % m \in 0 .. (m - 1)
         /\ a = m * (a \div m) + (a % m)
  OBVIOUS

\* A positive multiple of m is at least m.
LEMMA MultipleAtLeast ==
  ASSUME NEW m \in Nat \ {0}, NEW x \in Int, x >= 1
  PROVE  m * x >= m
  OBVIOUS

\* Quotient and remainder are determined by their defining equation.
LEMMA DivModUnique ==
  ASSUME NEW a \in Int, NEW m \in Nat \ {0}, NEW q \in Int,
         NEW r \in 0 .. (m - 1), a = m * q + r
  PROVE  a \div m = q /\ a % m = r
<1>1. PICK q2 \in Int, r2 \in 0 .. (m - 1) :
        q2 = a \div m /\ r2 = a % m /\ a = m * q2 + r2
  BY DivModDef
<1>2. m * (q - q2) = r2 - r
  BY <1>1
<1>3. m * (q2 - q) = r - r2
  BY <1>1
<1>4. ~(q - q2 >= 1)
  <2> SUFFICES ASSUME q - q2 >= 1 PROVE FALSE
    OBVIOUS
  <2>1. m * (q - q2) >= m
    BY MultipleAtLeast
  <2> QED BY <2>1, <1>2
<1>5. ~(q2 - q >= 1)
  <2> SUFFICES ASSUME q2 - q >= 1 PROVE FALSE
    OBVIOUS
  <2>1. m * (q2 - q) >= m
    BY MultipleAtLeast
  <2> QED BY <2>1, <1>3
<1>6. q = q2
  BY <1>4, <1>5
<1>7. r = r2
  BY <1>6, <1>2
<1> QED
  BY <1>1, <1>6, <1>7

\* Numbers that differ by a multiple of m have the same remainder.
LEMMA ModShift ==
  ASSUME NEW a \in Int, NEW m \in Nat \ {0}, NEW k \in Int
  PROVE  (a + m * k) % m = a % m
<1>1. PICK q \in Int, r \in 0 .. (m - 1) :
        r = a % m /\ a = m * q + r
  BY DivModDef
<1>2. q + k \in Int /\ a + m * k \in Int
  OBVIOUS
<1>3. a + m * k = m * (q + k) + r
  BY <1>1
<1> QED
  BY <1>1, <1>2, <1>3, DivModUnique

\* A reduced summand may be replaced by the full one.
LEMMA ModAdd ==
  ASSUME NEW a \in Int, NEW b \in Int, NEW m \in Nat \ {0}
  PROVE  ((a % m) + b) % m = (a + b) % m
<1>1. PICK q \in Int, r \in 0 .. (m - 1) :
        r = a % m /\ a = m * q + r
  BY DivModDef
<1>2. r + b \in Int /\ a + b = (r + b) + m * q
  BY <1>1
<1>3. ((r + b) + m * q) % m = (r + b) % m
  BY <1>2, ModShift
<1> QED
  BY <1>1, <1>2, <1>3

\* Unsigned subtraction depends on the remainders only.
LEMMA ModSub ==
  ASSUME NEW a \in Int, NEW b \in Int, NEW m \in Nat \ {0}
  PROVE  ((a % m) - (b % m)) % m = (a - b) % m
<1>1. PICK q \in Int, r \in 0 .. (m - 1) :
        r = a % m /\ a = m * q + r
  BY DivModDef
<1>2. PICK p \in Int, s \in 0 .. (m - 1) :
        s = b % m /\ b = m * p + s
  BY DivModDef
<1>3. q - p \in Int /\ r - s \in Int
  BY <1>1, <1>2
<1>4. a - b = (r - s) + m * (q - p)
  BY <1>1, <1>2
<1>5. ((r - s) + m * (q - p)) % m = (r - s) % m
  BY <1>3, ModShift
<1> QED
  BY <1>1, <1>2, <1>4, <1>5

\* A number below the modulus is its own remainder.
LEMMA ModSmall ==
  ASSUME NEW m \in Nat \ {0}, NEW a \in 0 .. (m - 1)
  PROVE  a % m = a
  BY DivModUnique, a = m * 0 + a

\* The time from s to t on a clock of modulus m grows with the clock, across
\* its wrap, as long as it is less than the period.
LEMMA ElapsedMod ==
  ASSUME NEW m \in Nat \ {0}, NEW t \in Int, NEW s \in Int, NEW d \in Nat,
         ((t - s) % m) + d < m
  PROVE  (((t + d) % m) - s) % m = ((t - s) % m) + d
<1>1. PICK x \in Int, y \in Int, z \in Int :
        x = t + d /\ y = -s /\ z = t - s
  OBVIOUS
<1>2. ((x % m) + y) % m = (x + y) % m
  BY ModAdd
<1>3. ((z % m) + d) % m = (z + d) % m
  BY d \in Int, ModAdd
<1>4. x % m \in 0 .. (m - 1) /\ z % m \in 0 .. (m - 1)
  BY DivModDef
<1>5. (z % m) + d \in 0 .. (m - 1)
  BY <1>1, <1>4
<1>6. ((z % m) + d) % m = (z % m) + d
  BY <1>5, ModSmall
<1>7. x + y = z + d /\ (x % m) - s = (x % m) + y
  BY <1>1, <1>4
<1> QED
  BY <1>1, <1>2, <1>3, <1>6, <1>7

\* On the clock it never grows by more than has really passed.
LEMMA ElapsedAtMost ==
  ASSUME NEW m \in Nat \ {0}, NEW t \in Int, NEW s \in Int, NEW d \in Nat
  PROVE  (((t + d) % m) - s) % m <= ((t - s) % m) + d
<1>1. (t - s) % m \in 0 .. (m - 1)
  BY t - s \in Int, DivModDef
<1>2. (((t + d) % m) - s) % m \in 0 .. (m - 1)
  <2>1. (t + d) % m \in Int
    BY t + d \in Int, DivModDef
  <2>2. ((t + d) % m) - s \in Int
    BY <2>1
  <2> QED
    BY <2>2, DivModDef
<1>3. PICK k \in 0 .. (m - 1), n \in 0 .. (m - 1) :
        k = (t - s) % m /\ n = (((t + d) % m) - s) % m
  BY <1>1, <1>2
<1>4. k + d < m => n = k + d
  BY <1>3, ElapsedMod
<1>5. n <= k + d
  BY <1>4
<1> QED
  BY <1>3, <1>5

\* A step of less than m changes the quotient by at most one, and the
\* remainder gets smaller exactly when it changes it.
LEMMA QuotientStep ==
  ASSUME NEW m \in Nat \ {0}, NEW s \in Int, NEW t \in Int,
         s <= t, t - s < m
  PROVE  /\ (t % m < s % m)    => t \div m = (s \div m) + 1
         /\ ~(t % m < s % m)   => t \div m = s \div m
<1>1. PICK q \in Int, r \in 0 .. (m - 1) :
        q = s \div m /\ r = s % m /\ s = m * q + r
  BY DivModDef
<1>2. CASE r + (t - s) < m
  <2>1. t = m * q + (r + (t - s)) /\ r + (t - s) \in 0 .. (m - 1)
    BY <1>1, <1>2
  <2>2. t \div m = q /\ t % m = r + (t - s)
    BY <2>1, DivModUnique
  <2> QED BY <2>2, <1>1
<1>3. CASE ~(r + (t - s) < m)
  <2>1. /\ t = m * (q + 1) + (r + (t - s) - m)
        /\ r + (t - s) - m \in 0 .. (m - 1)
        /\ q + 1 \in Int
    BY <1>1, <1>3
  <2>2. t \div m = q + 1 /\ t % m = r + (t - s) - m
    BY <2>1, DivModUnique
  <2> QED BY <2>2, <1>1
<1> QED
  BY <1>2, <1>3

\* A division by n in two steps, by way of a multiple k * n of n.
LEMMA DivSplit ==
  \A t \in Nat, k \in Nat \ {0}, n \in Nat \ {0} :
    t \div n = (t \div (k * n)) * k + ((t % (k * n)) \div n)
<1> TAKE t \in Nat, k \in Nat \ {0}, n \in Nat \ {0}
<1>1. PICK m \in Nat \ {0} : m = k * n
  OBVIOUS
<1>2. PICK q \in Int, r \in 0 .. (m - 1) :
        q = t \div m /\ r = t % m /\ t = m * q + r
  BY DivModDef
<1>3. PICK p \in Int, u \in 0 .. (n - 1) :
        p = r \div n /\ r = n * p + u
  BY DivModDef
<1>4. m * q = n * (q * k)
  <2>1. (k * n) * q = n * (q * k)
    OBVIOUS
  <2> QED BY <2>1, <1>1
<1>5. t = n * (q * k + p) + u
  BY <1>2, <1>3, <1>4
<1>6. q * k + p \in Int
  BY <1>2, <1>3
<1>7. t \div n = q * k + p
  BY <1>5, <1>6, DivModUnique
<1> QED
  BY <1>1, <1>2, <1>3, <1>7

\* Going from a to b with a <= b, the quotient grows by d or more only if b
\* is more than d - 1 multiples of m away, and by less than d only if b is
\* less than d multiples of m away.
LEMMA QuotientGap ==
  ASSUME NEW a \in Int, NEW b \in Int, NEW m \in Nat \ {0}, NEW d \in Int
  PROVE  /\ (b \div m) - (a \div m) >= d => b - a > (d - 1) * m
         /\ (b \div m) - (a \div m) < d  => b - a < d * m
<1>1. PICK q \in Int, r \in 0 .. (m - 1) :
        q = a \div m /\ a = m * q + r
  BY DivModDef
<1>2. PICK p \in Int, s \in 0 .. (m - 1) :
        p = b \div m /\ b = m * p + s
  BY DivModDef
<1>3. b - a = m * (p - q) + (s - r)
  BY <1>1, <1>2
<1>4. ASSUME p - q >= d PROVE b - a > (d - 1) * m
  <2>1. m * (p - q) >= m * d
    BY <1>4
  <2> QED BY <2>1, <1>3
<1>5. ASSUME p - q < d PROVE b - a < d * m
  <2>1. m * (p - q) <= m * (d - 1)
    BY <1>5
  <2> QED BY <2>1, <1>3
<1> QED
  BY <1>1, <1>2, <1>4, <1>5
=============================================================================
