------------------------------- MODULE Words -------------------------------
(***************************************************************************)
(* The machine words a rational number is held in as long as it fits them, *)
(* and the one operation on them that no test guards: inv(), with the      *)
(* constructor it calls (src/lra/Long_fraction.h).                         *)
(*                                                                         *)
(* W is the number of negative words: a word lies in -W .. W - 1 and an    *)
(* unsigned one in 0 .. 2 W - 1 (W is 2^31 in the build).                  *)
(***************************************************************************)
EXTENDS Fractions

CONSTANT W  \* half the number of values of a machine word

\* The words hold one.
ASSUME WidthAssumption == W \in Nat \ {0, 1}

Word == -W .. W - 1

UWord == 0 .. 2 * W - 1

\* The conversions to word and to uword.
word(v) == ((v + W) % (2 * W)) - W

uword(v) == v % (2 * W)

\* mpz_fits_sint_p and mpz_fits_uint_p.
FitsWord(p) == p[1] \in Word /\ p[2] \in UWord

\* The constructor from two words.  The quotient n / common is unsigned.
OfWords(n, d) ==
  LET common == gcd(Abs(n), d) IN
  IF n = 0 THEN Zero
  ELSE IF common > 1 THEN <<word(uword(n) \div common), d \div common>>
  ELSE <<n, d>>

\* inv() of a number held in words: the casts are not checked.
InvOfWords(p) ==
  IF p[1] >= 0 THEN OfWords(word(p[2]), uword(p[1])) ELSE OfWords(word(-p[2]), uword(-p[1]))

\* The numerator that the reciprocal has to have.
SignedDenominator(p) == IF p[1] < 0 THEN -p[2] ELSE p[2]
=============================================================================
