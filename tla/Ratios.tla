------------------------------- MODULE Ratios -------------------------------
(***************************************************************************)
(* The exact rationals the decision compares (pool-decision ratio.rs):     *)
(* pairs in lowest terms of integers of a fixed width, where every         *)
(* operation is checked.                                                   *)
(***************************************************************************)
EXTENDS Integers

CONSTANTS
  Bits,   \* the width of the integers: 128
  Err     \* RatioError

Gcd[a \in Nat, b \in Nat] == IF b = 0 THEN a ELSE Gcd[b, a % b]

\* Mutant: what does not fit wraps.
Wrapped(n) == n % 2 ^ Bits

Checked(n) == IF n < 2 ^ Bits THEN n ELSE Err

Ratio(n, d) ==
  IF d = 0 THEN Err
  ELSE LET g == Gcd[n, d] IN [n |-> n \div g, d |-> d \div g]

Zero == [n |-> 0, d |-> 1]
Whole(n) == [n |-> n, d |-> 1]

(* What a failed step leaves is the error.                                 *)
Then(x, Op(_)) == IF x = Err THEN Err ELSE Op(x)

CheckedAdd(a, b) ==
  LET g == Gcd[a.d, b.d]
      left == Checked(a.n * (b.d \div g))
      right == Checked(b.n * (a.d \div g))
      denominator == Checked(a.d * (b.d \div g))
      sum(l, r) == Checked(l + r)
  IN IF Err \in {left, right, denominator} THEN Err
     ELSE Then(sum(left, right), LAMBDA n : Ratio(n, denominator))

CheckedMulInt(a, k) == Then(Checked(a.n * k), LAMBDA n : Ratio(n, a.d))

(* a < b, a = b or a > b.                                                  *)
CheckedCmp(a, b) ==
  LET left == Checked(a.n * b.d)
      right == Checked(b.n * a.d)
  IN IF Err \in {left, right} THEN Err
     ELSE IF left < right THEN "Less" ELSE IF left = right THEN "Equal" ELSE "Greater"
=============================================================================
