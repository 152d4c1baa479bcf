----------------------------- MODULE Fractions -----------------------------
(***************************************************************************)
(* Fractions in lowest terms, for what the code computes with doubles:     *)
(* positions in a document and in an adjustment, without their rounding.   *)
(***************************************************************************)
EXTENDS Integers

\* Gcd[b][a], for a and b.
Gcd[b \in Nat] == [a \in Nat |-> IF b = 0 THEN a ELSE Gcd[a % b][b]]

Size(i) == IF i < 0 THEN -i ELSE i

Divided(n, d, g) == <<n \div g, d \div g>>

\* n / d, for a positive d.
Frac(n, d) == Divided(n, d, Gcd[d][Size(n)])

Reduced(x) == x \in Int \X (Nat \ {0}) /\ Gcd[x[2]][Size(x[1])] = 1

Whole(n) == <<n, 1>>

Plus(x, y) == Frac(x[1] * y[2] + y[1] * x[2], x[2] * y[2])
Minus(x, y) == Frac(x[1] * y[2] - y[1] * x[2], x[2] * y[2])
Times(x, y) == Frac(x[1] * y[1], x[2] * y[2])
Over(x, n) == Frac(x[1], x[2] * n)
Scaled(x, n, d) == Frac(x[1] * n, x[2] * d)

Less(x, y) == x[1] * y[2] < y[1] * x[2]
AtMost(x, y) == ~Less(y, x)
Least(x, y) == IF Less(x, y) THEN x ELSE y
Greatest(x, y) == IF Less(x, y) THEN y ELSE x
Clamped(x, lo, hi) == IF Less(x, lo) THEN lo ELSE IF Less(hi, x) THEN hi ELSE x

Floor(x) == x[1] \div x[2]
=============================================================================
