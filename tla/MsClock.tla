------------------------------ MODULE MsClock ------------------------------
(***************************************************************************)
(* The millisecond clock as the modules of the main loop use it: an        *)
(* unsigned counter of modulus W, read once in a while.  That a reading is *)
(* right is what SysTick shows.                                            *)
(***************************************************************************)
EXTENDS Integers

CONSTANTS
  W,         \* 2^32
  MaxStall   \* longest time between two readings

VARIABLE now \* the last reading: SysTick_GetTickMs, T1S_GetTickCountMs

\* The difference of two readings, in unsigned arithmetic.
Minus(a, b) == (a - b) % W
=============================================================================
