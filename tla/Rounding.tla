------------------------------ MODULE Rounding ------------------------------
(***************************************************************************)
(* Binary floating point with Precision bits of mantissa, on integers: the *)
(* nearest representable number, a tie going to the even mantissa.  The    *)
(* doubles of the programs have 53 bits.  A value is an integer multiple   *)
(* of the model's price unit, so a product or a quotient by a power of two *)
(* only moves the exponent and is not rounded; overflow and subnormal      *)
(* numbers do not occur.                                                   *)
(***************************************************************************)
EXTENDS Integers, FiniteSetsExt

CONSTANTS Precision,  \* 53 in the programs
          MaxExponent \* bound: exponents looked at

ASSUME RoundingAssumption == Precision \in Nat \ {0} /\ MaxExponent \in Nat

Abs(x) == IF x < 0 THEN -x ELSE x

\* The distance of the representable numbers of the size of x.
Ulp(x) == 2 ^ Min({e \in 0 .. MaxExponent : Abs(x) \div 2 ^ e < 2 ^ Precision})

\* There are exponents enough for numbers up to x.
InRange(x) == x \div 2 ^ MaxExponent < 2 ^ Precision

\* The integer nearest to n / d, a tie going to the even one.
Nearest(n, d) ==
  LET below == Abs(n) \div d
      rest == 2 * (Abs(n) % d)
      nearest == IF rest > d \/ (rest = d /\ below % 2 = 1) THEN below + 1 ELSE below
  IN  IF n < 0 THEN -nearest ELSE nearest

\* The result the hardware gives for an operation whose exact result is n / d, at least
\* as large as 2 ^ (Precision - 1) in the unit used.
RoundedRatio(n, d) ==
  LET u == Ulp(Abs(n) \div d)
  IN  u * Nearest(n, d * u)

\* The same for an operation whose exact result is an integer.
Rounded(x) == RoundedRatio(x, 1)
=============================================================================
