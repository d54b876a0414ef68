----------------------------- MODULE Rationals -----------------------------
(***************************************************************************)
(* Exact fractions <<numerator, denominator>>, denominator > 0, in lowest  *)
(* terms.  The program computes with double precision; the models compute  *)
(* exactly, so what they show is the arithmetic of the formulas and not    *)
(* the rounding of their last bits.                                        *)
(***************************************************************************)
EXTENDS Integers

RECURSIVE Gcd(_, _)
Gcd(a, b) == IF b = 0 THEN a ELSE Gcd(b, a % b)

Magnitude(n) == IF n < 0 THEN -n ELSE n

Frac(n, d) == LET g == Gcd(Magnitude(n), Magnitude(d)) IN
    IF d > 0 THEN <<n \div g, d \div g>> ELSE <<(-n) \div g, (-d) \div g>>
Whole(n) == <<n, 1>>
Zero == Whole(0)

x ++ y == Frac(x[1] * y[2] + y[1] * x[2], x[2] * y[2])
x -- y == Frac(x[1] * y[2] - y[1] * x[2], x[2] * y[2])
x ** y == Frac(x[1] * y[1], x[2] * y[2])
x // y == Frac(x[1] * y[2], x[2] * y[1])
x \preceq y == x[1] * y[2] <= y[1] * x[2]
x \prec y == x[1] * y[2] < y[1] * x[2]

Larger(x, y) == IF x \preceq y THEN y ELSE x
Smaller(x, y) == IF x \preceq y THEN x ELSE y
Gap(x, y) == IF x \preceq y THEN y -- x ELSE x -- y
Floor(x) == x[1] \div x[2]
=============================================================================
