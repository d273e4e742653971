----------------------------- MODULE MachineInts ------------------------------
(* The int of Go, as narrow as an instance needs it.                          *)
EXTENDS Integers

CONSTANT MaxInt   \* the largest int; nothing has as many lines

ASSUME IntAssumption == MaxInt \in Nat \ {0}

Ints == (-MaxInt - 1)..MaxInt

\* The sum or difference of two ints, which wraps around.
Wrap(n) ==
  CASE n > MaxInt -> n - 2 * (MaxInt + 1)
    [] n < -MaxInt - 1 -> n + 2 * (MaxInt + 1)
    [] OTHER -> n
=============================================================================
