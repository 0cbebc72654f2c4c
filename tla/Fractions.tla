----------------------------- MODULE Fractions -----------------------------
(***************************************************************************)
(* Rational numbers as the terms hold them (src/lra/Rational.h): a pair of *)
(* a numerator and a positive denominator in lowest terms.                 *)
(***************************************************************************)
EXTENDS Integers

Euclid[p \in Nat \X Nat] == IF p[2] = 0 THEN p[1] ELSE Euclid[<<p[2], p[1] % p[2]>>]

gcd(a, b) == Euclid[<<a, b>>]

Abs(n) == IF n < 0 THEN -n ELSE n

\* n / d in lowest terms, for d # 0.
Frac(n, d) ==
  LET sign == IF d < 0 THEN -1 ELSE 1
      g == gcd(Abs(n), Abs(d))
  IN <<(sign * n) \div g, (sign * d) \div g>>

Zero == <<0, 1>>

One == <<1, 1>>

MinusOne == <<-1, 1>>

Plus(p, q) == Frac(p[1] * q[2] + q[1] * p[2], p[2] * q[2])

Times(p, q) == Frac(p[1] * q[1], p[2] * q[2])

Over(p, q) == Frac(p[1] * q[2], p[2] * q[1])

Minus(p, q) == Plus(p, Times(MinusOne, q))

AtLeast(p, q) == p[1] * q[2] >= q[1] * p[2]
=============================================================================
