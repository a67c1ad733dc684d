------------------------------ MODULE CyclicU16 ------------------------------
(***************************************************************************)
(* The cyclic counters of libflagship/cyclic.py: packet indexes that wrap   *)
(* at M, compared so that a counter that wrapped recently (less than `wrap` *)
(* steps ago) still counts as the larger one.  The program has M = 2^16 and *)
(* wrap = 2^8.                                                              *)
(***************************************************************************)
EXTENDS Integers

CONSTANTS M, Wrap

ASSUME CyclicAssumption ==
  /\ M \in Nat /\ Wrap \in Nat /\ 0 < Wrap
  /\ M % 2 = 0 /\ 2 * Wrap < M

U16 == 0 .. (M - 1)

trunc(n) == n % M
Plus(x, k)  == trunc(x + k)
Minus(x, k) == trunc(x - k)

\* (x ^ y) & 0x8000
SignDiffers(x, y) == (2 * x < M) # (2 * y < M)

Lt(x, y) == IF SignDiffers(x, y) THEN Minus(x, Wrap) < Minus(y, Wrap) ELSE x < y
Gt(x, y) == IF SignDiffers(x, y) THEN Minus(x, Wrap) > Minus(y, Wrap) ELSE x > y
Le(x, y) == ~Gt(x, y)
Ge(x, y) == ~Lt(x, y)
=============================================================================
