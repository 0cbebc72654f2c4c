---------------------------- MODULE LongFraction ----------------------------
(***************************************************************************)
(* The rational numbers of the program (src/lra/Long_fraction.h).  A       *)
(* number is held as a pair of machine words as long as it fits them and   *)
(* as a GMP rational otherwise; one that has been both keeps both until it *)
(* is changed.  The operators compute on words where they can, with        *)
(* products of double width, and fall back on GMP ("goto overflow") when a *)
(* result, or a sum on the way to it, is too large.                        *)
(*                                                                         *)
(* The double words are in proportion to the words.  Signed arithmetic     *)
(* that leaves its type wraps here: no outcome of it would be right.  GMP  *)
(* is exact.                                                               *)
(***************************************************************************)
EXTENDS Words

CONSTANTS
  Regs,      \* the numbers the program holds
  MaxNum,    \* bound on the numerators that are explored
  MaxDen     \* bound on the denominators that are explored

VARIABLES
  num,    \* register -> its representation
  exact   \* history: register -> the rational number it has to be

vars == <<num, exact>>

\* A word or GMP part whose valid bit is not set.
Invalid == <<>>

\* A result that GMP has to compute.
Overflow == <<>>

-----------------------------------------------------------------------------
(* The machine's integers. *)

LWordMax == 2 * W * W - 1

LWordMin == -2 * W * W

\* The value of an expression of type lword, and of type ulword.
lword(v) == ((v - LWordMin) % (4 * W * W)) + LWordMin

ulword(v) == v % (4 * W * W)

\* Only sums that are too small are caught.
SmallSumOverflows(s, t) == s < 0 /\ t < LWordMin - s

\* CHECK_SUM_OVERFLOWS_LWORD and CHECK_SUB_OVERFLOWS_LWORD, for lwords s and t.
SumOverflows(s, t) ==
  \/ s > 0 /\ t > LWordMax - s
  \/ s < 0 /\ t < LWordMin - s

DifferenceOverflows(s, t) ==
  \/ s >= 0 /\ t < s - LWordMax
  \/ s < 0 /\ t > (s + 1) + LWordMax

\* CHECK_WORD on n, of type lword, and CHECK_UWORD on d, of type ulword.
Checked(n, d) == IF n \in Word /\ d \in UWord THEN <<n, d>> ELSE Overflow

-----------------------------------------------------------------------------
(* The representation and the operations on it that the others share. *)

FromWord(w) == [word |-> w, long |-> Invalid, memory |-> FALSE]

\* A result computed by GMP, after try_fit_word.
FromLong(p) ==
  [word |-> IF FitsWord(p) THEN p ELSE Invalid, long |-> p, memory |-> TRUE]

\* The GMP part stays valid.
SetWordOnly(r, w) == [word |-> w, long |-> r.long, memory |-> r.memory]

\* A result stored in the words of r; the memory of the GMP part is kept.
SetWord(r, w) == [word |-> w, long |-> Invalid, memory |-> r.memory]

EnsureMpq(r) ==
  IF r.long = Invalid THEN [word |-> r.word, long |-> r.word, memory |-> TRUE] ELSE r

\* Copy assignment to r, and the copy constructor.
CopyTo(r, s) ==
  IF s.word # Invalid THEN SetWord(r, s.word)
  ELSE [word |-> Invalid, long |-> s.long, memory |-> TRUE]

CopyOf(s) == CopyTo(FromWord(Zero), s)

Constructed(n, d) == FromWord(OfWords(n, d))

\* The constructor from a GMP integer.
FromInteger(n) ==
  IF n \in Word THEN FromWord(<<n, 1>>)
  ELSE [word |-> Invalid, long |-> <<n, 1>>, memory |-> TRUE]

\* The number a representation stands for.
Value(r) == IF r.word # Invalid THEN r.word ELSE r.long

BothWords(r, s) == r.word # Invalid /\ s.word # Invalid

-----------------------------------------------------------------------------
(***************************************************************************)
(* The computations on words: for two fractions the pair of words of the   *)
(* result, or Overflow.  Every product and sum is of the type it has in    *)
(* the code.                                                               *)
(***************************************************************************)

\* C's integer division truncates towards zero.
Quotient(n, d) == IF n < 0 THEN -((-n) \div d) ELSE n \div d

\* The fraction n / d of a lword and a ulword, divided by a common factor that
\* was stored in a variable of a narrower type.
Reduced(n, d, common) ==
  IF common = 1 THEN Checked(n, d)
  ELSE Checked(Quotient(n, common), d \div common)

\* A result of opposite signs gets its sign last.
Signed(p, q, w) ==
  IF w # Overflow /\ ((q[1] < 0 /\ p[1] >= 0) \/ (q[1] > 0 /\ p[1] <= 0))
  THEN <<-w[1], w[2]>> ELSE w

AdditionWord(p, q) ==
  LET common == gcd(p[2], q[2])
      n1 == lword(p[1] * (q[2] \div common))
      n2 == lword(q[1] * (p[2] \div common))
      d == ulword(p[2] * (q[2] \div common))
  IN CASE q[1] = 0 -> p
       [] p[1] = 0 -> q
       [] p[2] = q[2] /\ q[1] > -W /\ p[1] = -q[1] -> Zero
       [] q[2] = 1 -> Checked(lword(p[1] + q[1] * p[2]), p[2])
       [] p[2] = 1 -> Checked(lword(q[1] + p[1] * q[2]), q[2])
       [] OTHER -> IF SumOverflows(n1, n2) THEN Overflow
                   ELSE LET n == lword(n1 + n2) IN Reduced(n, d, uword(gcd(Abs(n), d)))

SubstractionWord(p, q) ==
  LET common == gcd(p[2], q[2])
      n1 == lword(p[1] * (q[2] \div common))
      n2 == lword(q[1] * (p[2] \div common))
      d == ulword(p[2] * (q[2] \div common))
  IN CASE q[1] = 0 -> p
       [] p[1] = 0 -> Checked(-q[1], q[2])
       [] p = q -> Zero
       [] q[2] = 1 -> Checked(lword(p[1] - q[1] * p[2]), p[2])
       [] p[2] = 1 -> Checked(lword(p[1] * q[2] - q[1]), q[2])
       [] OTHER -> IF common = 1 /\ DifferenceOverflows(n1, n2) THEN Overflow
                   ELSE LET n == lword(n1 - n2) IN Reduced(n, d, uword(gcd(Abs(n), d)))

MultiplicationWord(p, q) ==
  LET common1 == gcd(Abs(p[1]), q[2])
      common2 == gcd(p[2], Abs(q[1]))
  IN Checked(lword(Quotient(p[1], common1) * Quotient(q[1], common2)),
             ulword((p[2] \div common2) * (q[2] \div common1)))

DivisionWord(p, q) ==
  LET common1 == gcd(Abs(p[1]), Abs(q[1]))
      common2 == gcd(p[2], q[2])
  IN IF p = q THEN One
     ELSE Signed(p, q, Checked(lword((Abs(p[1]) \div common1) * (q[2] \div common2)),
                               ulword((Abs(q[1]) \div common1) * (p[2] \div common2))))

AdditionAssignWord(p, q) ==
  LET c1 == lword(p[1] * q[2])
      c2 == lword(q[1] * p[2])
      n == lword(c1 + c2)
      d == ulword(p[2] * q[2])
      common == lword(gcd(Abs(n), d))
  IN CASE q[2] = 1 -> Checked(lword(p[1] + q[1] * p[2]), p[2])
       [] p[1] = 0 -> q
       [] OTHER -> IF SumOverflows(c1, c2) THEN Overflow
                   ELSE Reduced(n, d, IF common > 1 THEN common ELSE 1)

SubstractionAssignWord(p, q) ==
  LET common == gcd(p[2], q[2])
      n1 == lword(p[1] * (q[2] \div common))
      n2 == lword(q[1] * (p[2] \div common))
      n == lword(n1 - n2)
      d == ulword(p[2] * (q[2] \div common))
  IN IF n1 \in Word /\ n2 \in Word THEN Reduced(n, d, uword(gcd(Abs(n), d)))
     ELSE Overflow

MultiplicationAssignWord(p, q) ==
  LET common1 == gcd(Abs(p[1]), q[2])
      common2 == gcd(p[2], Abs(q[1]))
  IN Signed(p, q, Checked(lword((Abs(p[1]) \div common1) * (Abs(q[1]) \div common2)),
                          ulword((p[2] \div common2) * (q[2] \div common1))))

DivisionAssignWord(p, q) ==
  LET common1 == gcd(Abs(p[1]), Abs(q[1]))
      common2 == gcd(p[2], q[2])
  IN Signed(p, q, Checked(lword((Abs(p[1]) \div common1) * (q[2] \div common2)),
                          ulword((Abs(q[1]) \div common1) * (p[2] \div common2))))

InverseWord(p) ==
  IF p[1] > 0 THEN Checked(p[2], p[1]) ELSE Checked(-p[2], -p[1])

-----------------------------------------------------------------------------
(***************************************************************************)
(* An operation on numbers is a record: the number it stores, and whether  *)
(* it made the GMP parts of its operands valid on the way.  dst is the     *)
(* number stored to, which may be an operand.                              *)
(***************************************************************************)
Stored(r) == [result |-> r, forced |-> FALSE]

ByLong(p) == [result |-> FromLong(p), forced |-> TRUE]

ByWords(dst, w, p) == IF w = Overflow THEN ByLong(p) ELSE Stored(SetWord(dst, w))

addition(dst, r, s) ==
  LET sum == Plus(Value(r), Value(s))
  IN IF BothWords(r, s) THEN ByWords(dst, AdditionWord(r.word, s.word), sum)
     ELSE ByLong(sum)

substraction(dst, r, s) ==
  LET difference == Minus(Value(r), Value(s))
  IN IF BothWords(r, s)
     THEN ByWords(dst, SubstractionWord(r.word, s.word), difference)
     ELSE ByLong(difference)

multiplication(dst, r, s) ==
  LET product == Times(Value(r), Value(s))
  IN IF Zero \in {r.word, s.word} THEN Stored(SetWord(dst, Zero))
     ELSE IF r.word = One THEN Stored(CopyTo(dst, s))
     ELSE IF s.word = One THEN Stored(CopyTo(dst, r))
     ELSE IF BothWords(r, s)
     THEN ByWords(dst, MultiplicationWord(r.word, s.word), product)
     ELSE ByLong(product)

division(dst, r, s) ==
  LET quotient == Over(Value(r), Value(s))
  IN IF s.word = One THEN Stored(CopyTo(dst, r))
     ELSE IF r.word = Zero THEN Stored(FromWord(Zero))
     ELSE IF BothWords(r, s)
     THEN ByWords(dst, DivisionWord(r.word, s.word), quotient)
     ELSE ByLong(quotient)

\* r += s changes nothing when s is the word zero.
additionAssign(r, s) ==
  LET sum == Plus(Value(r), Value(s))
  IN IF s.word = Zero THEN Stored(r)
     ELSE IF BothWords(r, s)
     THEN ByWords(r, AdditionAssignWord(r.word, s.word), sum)
     ELSE ByLong(sum)

substractionAssign(r, s) ==
  LET difference == Minus(Value(r), Value(s))
  IN IF BothWords(r, s)
     THEN ByWords(r, SubstractionAssignWord(r.word, s.word), difference)
     ELSE ByLong(difference)

multiplicationAssign(r, s) ==
  LET product == Times(Value(r), Value(s))
  IN IF BothWords(r, s)
     THEN ByWords(r, MultiplicationAssignWord(r.word, s.word), product)
     ELSE ByLong(product)

divisionAssign(r, s) ==
  LET quotient == Over(Value(r), Value(s))
  IN IF BothWords(r, s)
     THEN ByWords(r, DivisionAssignWord(r.word, s.word), quotient)
     ELSE ByLong(quotient)

\* Unary minus.
Negation(r) ==
  IF r.word # Invalid /\ r.word[1] > -W
  THEN Stored(Constructed(-r.word[1], r.word[2]))
  ELSE ByLong(Times(MinusOne, Value(r)))

negate(r) ==
  IF r.word # Invalid /\ r.word[1] > -W
  THEN Stored(SetWord(r, <<-r.word[1], r.word[2]>>))
  ELSE Stored(FromLong(Times(MinusOne, Value(r))))

inverse(r) ==
  LET reciprocal == Over(One, Value(r))
  IN IF r.word # Invalid THEN ByWords(FromWord(Zero), InverseWord(r.word), reciprocal)
     ELSE ByLong(reciprocal)

\* The sign stays in the denominator.
InvKeepingSigns(r) == Constructed(word(r.word[2]), uword(r.word[1]))

\* inv(), for a number whose word part is valid.
inv(r) == FromWord(InvOfWords(r.word))

isInteger(r) ==
  IF r.word # Invalid THEN r.word[2] = 1 ELSE r.long[2] \in UWord /\ r.long[2] = 1

ceil(r) ==
  IF isInteger(r) THEN CopyOf(r)
  ELSE IF r.word # Invalid THEN FromWord(<<-((-r.word[1]) \div r.word[2]), 1>>)
  ELSE FromInteger(-((-r.long[1]) \div r.long[2]))

floor(r) ==
  IF isInteger(r) THEN CopyOf(r)
  ELSE substraction(FromWord(Zero), ceil(r), FromWord(One)).result

SignOf(n) == IF n < 0 THEN -1 ELSE IF n > 0 THEN 1 ELSE 0

sign(r) == IF r.word # Invalid THEN SignOf(r.word[1]) ELSE SignOf(r.long[1])

\* The products are words.
CompareInWords(r, s) ==
  IF BothWords(r, s)
  THEN SignOf(word(r.word[1] * s.word[2]) - word(s.word[1] * r.word[2]))
  ELSE SignOf(Minus(EnsureMpq(r).long, EnsureMpq(s).long)[1])

\* compare(): the sign of r - s.
compare(r, s) ==
  IF BothWords(r, s)
  THEN IF r.word[2] = s.word[2] THEN SignOf(r.word[1] - s.word[1])
       ELSE SignOf(lword(r.word[1] * s.word[2]) - lword(s.word[1] * r.word[2]))
  ELSE SignOf(Minus(EnsureMpq(r).long, EnsureMpq(s).long)[1])

\* operator==.
Equal(r, s) ==
  IF BothWords(r, s) THEN r.word = s.word ELSE EnsureMpq(r).long = EnsureMpq(s).long

-----------------------------------------------------------------------------
(***************************************************************************)
(* The program reads integers (the constructor from a string) and computes *)
(* with them.  The bounds: a step is taken while every number is small;    *)
(* its result may be of any size, and can then only be compared and        *)
(* overwritten.                                                            *)
(***************************************************************************)
FromString(n) ==
  IF n \in Word THEN FromWord(<<n, 1>>)
  ELSE [word |-> Invalid, long |-> <<n, 1>>, memory |-> TRUE]

Small(p) == Abs(p[1]) <= MaxNum /\ p[2] <= MaxDen

AllSmall == \A k \in Regs : Small(exact[k])

LongFractionInit ==
  /\ exact \in [Regs -> {<<n, 1>> : n \in -MaxNum .. MaxNum}]
  /\ num = [k \in Regs |-> FromString(exact[k][1])]

\* The operation o on the registers in operands is stored in c, where the
\* number p has to be.
StoreIn(c, operands, o, p) ==
  /\ num' = [k \in Regs |->
               IF k = c THEN o.result
               ELSE IF o.forced /\ k \in operands THEN EnsureMpq(num[k])
               ELSE num[k]]
  /\ exact' = [exact EXCEPT ![c] = p]

\* c = a + b and so on: the result is computed in a new number that is moved to c.
Add(c, a, b) ==
  /\ AllSmall
  /\ StoreIn(c, {a, b}, addition(FromWord(Zero), num[a], num[b]), Plus(exact[a], exact[b]))

Subtract(c, a, b) ==
  /\ AllSmall
  /\ StoreIn(c, {a, b}, substraction(FromWord(Zero), num[a], num[b]),
             Minus(exact[a], exact[b]))

Multiply(c, a, b) ==
  /\ AllSmall
  /\ StoreIn(c, {a, b}, multiplication(FromWord(Zero), num[a], num[b]),
             Times(exact[a], exact[b]))

\* Callers do not divide by zero.
Divide(c, a, b) ==
  /\ AllSmall
  /\ exact[b] # Zero
  /\ StoreIn(c, {a, b}, division(FromWord(Zero), num[a], num[b]), Over(exact[a], exact[b]))

AddAssign(a, b) ==
  /\ AllSmall
  /\ StoreIn(a, {a, b}, additionAssign(num[a], num[b]), Plus(exact[a], exact[b]))

SubtractAssign(a, b) ==
  /\ AllSmall
  /\ StoreIn(a, {a, b}, substractionAssign(num[a], num[b]), Minus(exact[a], exact[b]))

MultiplyAssign(a, b) ==
  /\ AllSmall
  /\ StoreIn(a, {a, b}, multiplicationAssign(num[a], num[b]), Times(exact[a], exact[b]))

DivideAssign(a, b) ==
  /\ AllSmall
  /\ exact[b] # Zero
  /\ StoreIn(a, {a, b}, divisionAssign(num[a], num[b]), Over(exact[a], exact[b]))

Negated(c, a) ==
  /\ AllSmall
  /\ StoreIn(c, {a}, Negation(num[a]), Times(MinusOne, exact[a]))

Negate(a) ==
  /\ AllSmall
  /\ StoreIn(a, {a}, negate(num[a]), Times(MinusOne, exact[a]))

Inverted(c, a) ==
  /\ AllSmall
  /\ exact[a] # Zero
  /\ StoreIn(c, {a}, inverse(num[a]), Over(One, exact[a]))

Ceil(c, a) ==
  StoreIn(c, {}, Stored(ceil(num[a])), <<-((-exact[a][1]) \div exact[a][2]), 1>>)

Floor(c, a) ==
  StoreIn(c, {}, Stored(floor(num[a])), <<exact[a][1] \div exact[a][2], 1>>)

\* Another number is read.
Read(c, n) == StoreIn(c, {}, Stored(FromString(n)), <<n, 1>>)

\* c = a copies.
Copy(c, a) == StoreIn(c, {}, Stored(CopyTo(num[c], num[a])), exact[a])

\* Comparing two numbers makes their GMP parts valid if it cannot use the words.
Compare(a, b) ==
  /\ num' = [k \in Regs |->
               IF ~BothWords(num[a], num[b]) /\ k \in {a, b} THEN EnsureMpq(num[k])
               ELSE num[k]]
  /\ UNCHANGED exact

LongFractionNext ==
  \E a, b \in Regs :
    \/ \E n \in -MaxNum .. MaxNum : Read(a, n)
    \/ \E c \in Regs : Add(c, a, b) \/ Subtract(c, a, b) \/ Multiply(c, a, b) \/ Divide(c, a, b)
    \/ AddAssign(a, b)
    \/ SubtractAssign(a, b)
    \/ MultiplyAssign(a, b)
    \/ DivideAssign(a, b)
    \/ Negated(a, b)
    \/ Negate(a)
    \/ Inverted(a, b)
    \/ Ceil(a, b)
    \/ Floor(a, b)
    \/ Copy(a, b)
    \/ Compare(a, b)

LongFractionSpec == LongFractionInit /\ [][LongFractionNext]_vars

-----------------------------------------------------------------------------
(* Properties. *)

LegalParts(r) ==
  /\ r.long # Invalid => r.memory
  /\ r.word # Invalid \/ r.long # Invalid
  /\ r.word # Invalid /\ r.long # Invalid => r.word = r.long
  /\ r.word = Invalid => ~FitsWord(r.long)

\* The invariant of the state bits and isWellFormed(): no operation leaves a
\* number without a valid part, a GMP part without memory, two valid parts that
\* are different numbers (a stale GMP part after a change of the words, or the
\* other way round), or a number in GMP alone that fits the words, which the
\* comparisons with words take to be impossible.
PartsAgree == \A k \in Regs : LegalParts(num[k])

\* No sequence of operations, in place or not, on aliased operands or not,
\* through words, through GMP or from one to the other, loses the exact value,
\* leaves the words, or changes a number that is only an operand.
ComputesExactly ==
  \A k \in Regs :
    /\ Value(num[k]) = exact[k]
    /\ num[k].word # Invalid => FitsWord(num[k].word)

\* Comparisons, the sign and the integrality test answer for the exact values
\* whichever parts of the two numbers are valid.
ComparesExactly ==
  \A a, b \in Regs :
    /\ compare(num[a], num[b]) = SignOf(Minus(exact[a], exact[b])[1])
    /\ Equal(num[a], num[b]) <=> exact[a] = exact[b]
    /\ sign(num[a]) = SignOf(exact[a][1])
    /\ isInteger(num[a]) <=> exact[a][2] = 1

\* inv() returns the reciprocal of a number held in words exactly when the
\* denominator, with the sign of the number, is itself a word: a wider one is
\* cast to another number.
InverseNeedsSmallDenominator ==
  \A k \in Regs :
    LET r == num[k]
    IN r.word \notin {Invalid, Zero} =>
         (Value(inv(r)) = Over(One, exact[k]) <=> SignedDenominator(r.word) \in Word)
=============================================================================
