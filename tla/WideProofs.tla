----------------------------- MODULE WideProofs -----------------------------
(***************************************************************************)
(* Proofs about the wide integers of Arithmetic: for words of any number   *)
(* of bits from two on and values of any width, what the functions of      *)
(* gpga_wide.h do word by word is what they should do to the integers.     *)
(* A value, a word and an integer are compared digit by digit.             *)
(***************************************************************************)
EXTENDS Arithmetic, FourStateProofs

-----------------------------------------------------------------------------
(* Digits of integers.                                                     *)

\* A digit is a zero or a one.
LEMMA DigitIsBit ==
  ASSUME NEW m \in Int, NEW i \in Nat
  PROVE  BitOf(m, i) \in {0, 1} /\ (BitOf(m, i) = 1 <=> Digit(m, i))
<1> DEFINE q == m \div 2^i
<1>1. q \in Int
  BY TwoPositive, DivisionBy
<1>2. BitOf(m, i) = q % 2 /\ (Digit(m, i) <=> q % 2 = 1)
  BY DEF BitOf, Digit
<1> HIDE DEF q
<1>3. q % 2 \in {0, 1}
  BY <1>1
<1> QED
  BY <1>2, <1>3

LEMMA NoDigitBeyond ==
  ASSUME NEW n \in Nat, NEW m \in Nat, m < 2^n, NEW i \in Nat, n <= i
  PROVE  ~Digit(m, i)
<1>1. 2^i \in Nat /\ 2^n \in Nat /\ m < 2^i
  BY TwoGrows, TwoPositive
<1> DEFINE q == m \div 2^i
<1>2. q = 0
  BY <1>1, Remaining
<1>3. Digit(m, i) <=> q % 2 = 1
  BY DEF Digit
<1> HIDE DEF q
<1> QED
  BY <1>2, <1>3

\* A number is the sum of its digits.
Digits(m, n) == {i \in 0..(n - 1) : Digit(m, i)}

LEMMA DigitsMakeNumber ==
  ASSUME NEW n \in Nat, NEW m \in Nat, m < 2^n
  PROVE  Digits(m, n) \in FiniteWords /\ m = Num(Digits(m, n))
<1> DEFINE S == {k \in Nat : \A j \in Nat : j < 2^k =>
                    Digits(j, k) \in FiniteWords /\ j = Num(Digits(j, k))}
<1>1. 0 \in S
  <2>1. 2^0 = 1 /\ \A j : Digits(j, 0) = {}
    BY DEF Digits
  <2> QED
    BY <2>1, NumEmpty
<1>2. ASSUME NEW k \in Nat, k \in S, NEW j \in Nat, j < 2^(k + 1)
      PROVE  Digits(j, k + 1) \in FiniteWords /\ j = Num(Digits(j, k + 1))
  <2> HIDE DEF S
  <2> DEFINE p == 2^k  q == j \div p  r == j % p
  <2>0. \A i \in Nat : i < 2^k => Digits(i, k) \in FiniteWords /\ i = Num(Digits(i, k))
    BY <1>2 DEF S
  <2>1. p \in Nat /\ p > 0 /\ 2^(k + 1) = 2 * p
    BY TwoPositive, TwoTimes
  <2>2. q \in Int /\ r \in Nat /\ r < p /\ j = p * q + r
    BY <2>1, j \in Int, DivisionBy
  <2>3. ASSUME NEW i \in 0..(k - 1) PROVE Digit(r + p * q, i) <=> Digit(r, i)
    <3>1. r \in Int /\ q \in Int /\ i \in Nat /\ i < k
      BY <2>2
    <3> HIDE DEF r, q
    <3> QED
      BY <3>1, DigitModulo
  <2>4. Digits(r, k) \in FiniteWords /\ r = Num(Digits(r, k))
    BY <2>0, <2>2
  <2>5. Digit(j, k) <=> q % 2 = 1
    BY DEF Digit
  <2> HIDE DEF p, q, r
  <2>6. q \in {0, 1}
    BY <1>2, <2>1, <2>2
  <2>7. r + p * q = j
    BY <2>1, <2>2
  <2>8. \A i \in 0..(k - 1) : Digit(j, i) <=> Digit(r, i)
    BY <2>3, <2>7
  <2>9. CASE q = 0
    <3>1. Digits(j, k + 1) = Digits(r, k)
      BY <2>5, <2>8, <2>9 DEF Digits
    <3> QED
      BY <2>1, <2>2, <2>4, <2>9, <3>1
  <2>10. CASE q = 1
    <3>1. Digits(j, k + 1) = Digits(r, k) \cup {k}
      BY <2>5, <2>8, <2>10 DEF Digits
    <3>2. k \in Nat \ Digits(r, k)
      BY DEF Digits
    <3> QED
      BY <2>1, <2>2, <2>4, <2>10, <3>1, <3>2, NumAdd DEF p
  <2> QED
    BY <2>6, <2>9, <2>10
<1>3. \A k \in Nat : k \in S => k + 1 \in S
  BY <1>2
<1>4. \A k \in Nat : k \in S
  <2> HIDE DEF S
  <2> QED
    BY <1>1, <1>3, SetInduction
<1> QED
  BY <1>4

\* The remainder by 2^n is the number below 2^n with the same digits.
LEMMA ModuloDigits ==
  ASSUME NEW n \in Nat, NEW k \in Nat, k < 2^n, NEW m \in Int,
         \A i \in 0..(n - 1) : Digit(k, i) <=> Digit(m, i)
  PROVE  k = m % 2^n
<1> DEFINE p == 2^n  q == m \div p  r == m % p
<1>1. p \in Nat /\ p > 0
  BY TwoPositive
<1>2. q \in Int /\ r \in Nat /\ r < p /\ m = p * q + r
  BY <1>1, DivisionBy
<1>3. \A i \in 0..(n - 1) : Digit(r + p * q, i) <=> Digit(r, i)
  BY <1>2, r \in Int, DigitModulo
<1> HIDE DEF q, r
<1>4. r + p * q = m
  BY <1>1, <1>2
<1>5. Digits(k, n) = Digits(r, n)
  BY <1>3, <1>4 DEF Digits
<1>6. k = Num(Digits(k, n)) /\ r = Num(Digits(r, n))
  BY <1>2, DigitsMakeNumber
<1> QED
  BY <1>5, <1>6 DEF r

LEMMA DigitsDecide ==
  ASSUME NEW n \in Nat, NEW k \in Nat, k < 2^n, NEW m \in Nat, m < 2^n,
         \A i \in 0..(n - 1) : Digit(k, i) <=> Digit(m, i)
  PROVE  k = m
<1>1. Digits(k, n) = Digits(m, n)
  BY DEF Digits
<1> QED
  BY <1>1, DigitsMakeNumber

\* The number with given digits.
LEMMA NumberWithDigits ==
  ASSUME NEW n \in Nat, NEW s, s \subseteq 0..(n - 1)
  PROVE  Num(s) \in Nat /\ Num(s) < 2^n /\ \A i \in Nat : Digit(Num(s), i) <=> i \in s
BY NumBelow, NumDigit

\* Minus one minus m has the opposite digits.
LEMMA OppositeDigits ==
  ASSUME NEW m \in Int, NEW i \in Nat
  PROVE  Digit(-1 - m, i) <=> ~Digit(m, i)
<1> DEFINE p == 2^i  q == m \div p  r == m % p
<1>1. p \in Nat /\ p > 0
  BY TwoPositive
<1>2. q \in Int /\ r \in Nat /\ r < p /\ m = p * q + r
  BY <1>1, DivisionBy
<1> HIDE DEF q, r
<1>3. -1 - m = p * (-1 - q) + (p - 1 - r)
  BY <1>1, <1>2
<1>4. (-1 - m) \div p = -1 - q
  <2> HIDE DEF p
  <2>1. -1 - m \in Int /\ -1 - q \in Int /\ p - 1 - r \in Nat /\ p - 1 - r < p
    BY <1>1, <1>2
  <2> QED
    BY <1>1, <1>3, <2>1, DivisionIs
<1>5. (-1 - q) % 2 = 1 <=> ~(q % 2 = 1)
  BY <1>2
<1> QED
  BY <1>4, <1>5 DEF Digit, q, p

\* The digits of a multiple of 2^n are n places higher.
LEMMA MultipleDigits ==
  ASSUME NEW m \in Int, NEW n \in Nat, NEW i \in Nat
  PROVE  Digit(m * 2^n, i) <=> i >= n /\ Digit(m, i - n)
<1> DEFINE p == 2^n
<1>1. p \in Nat /\ p > 0 /\ m * p \in Int
  BY TwoPositive
<1>2. CASE i >= n
  <2>1. i - n \in Nat /\ n + (i - n) = i
    BY <1>2
  <2>2. Digit((m * p) \div p, i - n) <=> Digit(m * p, i)
    BY <1>1, <2>1, DigitOfQuotient
  <2>3. (m * p) \div p = m
    <3> HIDE DEF p
    <3>1. m * p = p * m + 0
      BY <1>1
    <3> QED
      BY <1>1, <3>1, 0 \in Nat, DivisionIs
  <2> QED
    BY <1>2, <2>2, <2>3
<1>3. CASE ~(i >= n)
  <2>0. PICK z \in Int : z = 0
    OBVIOUS
  <2>1. ASSUME NEW k \in Int PROVE Digit(z + p * k, i) <=> Digit(z, i)
    <3>1. i < n
      BY <1>3
    <3> QED
      BY <3>1, DigitModulo
  <2>2. z + p * m = m * p
    <3> HIDE DEF p
    <3> QED
      BY <1>1, <2>0
  <2>4. Digit(z + p * m, i) <=> Digit(z, i)
    <3> HIDE DEF p
    <3> QED
      BY <2>1
  <2>3. ~Digit(0, i)
    <3>1. 2^0 = 1
      OBVIOUS
    <3> QED
      BY <3>1, 0 \in Nat, 0 < 1, 0 <= i, NoDigitBeyond
  <2> QED
    BY <1>3, <2>0, <2>2, <2>3, <2>4
<1> QED
  BY <1>2, <1>3

\* The number of n ones.
LEMMA OnesDigits ==
  ASSUME NEW n \in Nat, NEW i \in Nat
  PROVE  2^n - 1 \in Nat /\ 2^n - 1 < 2^n /\ (Digit(2^n - 1, i) <=> i < n)
<1>1. 2^n \in Nat /\ 2^n > 0
  BY TwoPositive
<1>2. 2^n - 1 \in Nat /\ 2^n - 1 < 2^n
  BY <1>1
<1>3. CASE i < n
  <2>1. Digit(-1 + 2^n * 1, i) <=> Digit(-1, i)
    BY <1>3, 1 \in Int, -1 \in Int, DigitModulo
  <2>2. -1 + 2^n * 1 = 2^n - 1 /\ -1 - 0 = -1
    BY <1>1
  <2>3. Digit(-1, i)
    <3>1. ~Digit(0, i)
      BY 2^0 = 1, 0 \in Nat, 0 < 1, 0 <= i, NoDigitBeyond
    <3>2. Digit(-1 - 0, i) <=> ~Digit(0, i)
      BY 0 \in Int, OppositeDigits
    <3> QED
      BY <2>2, <3>1, <3>2
  <2> QED
    BY <1>2, <1>3, <2>1, <2>2, <2>3
<1>4. CASE ~(i < n)
  BY <1>2, <1>4, NoDigitBeyond
<1> QED
  BY <1>2, <1>3, <1>4

\* A digit that is zero can be added.
LEMMA AddedDigit ==
  ASSUME NEW m \in Nat, NEW n \in Nat, m < 2^n, NEW i \in 0..(n - 1), ~Digit(m, i), NEW j \in Nat
  PROVE  Digit(m + 2^i, j) <=> j = i \/ Digit(m, j)
<1> DEFINE D == Digits(m, n)
<1>1. D \in FiniteWords /\ m = Num(D)
  BY DigitsMakeNumber
<1>2. i \in Nat \ D
  BY DEF Digits
<1>3. D \cup {i} \in FiniteWords /\ Num(D \cup {i}) = 2^i + m
  BY <1>1, <1>2, NumAdd
<1>4. 2^i + m = m + 2^i
  BY <1>2, TwoPositive
<1>5. Digit(m + 2^i, j) <=> j \in D \cup {i}
  BY <1>3, <1>4, NumDigit
<1>6. Digit(m, j) <=> j \in D
  BY <1>1, NumDigit
<1> QED
  BY <1>5, <1>6

-----------------------------------------------------------------------------
(* Words.                                                                  *)

LEMMA WordFacts ==
  /\ LimbBits \in Nat /\ LimbBits >= 2 /\ Base = 2^LimbBits /\ Base \in Nat /\ Base > 0
  /\ Ones = Base - 1 /\ Ones \in 0..Ones /\ 0 \in 0..Ones /\ 1 \in 0..Ones
  /\ \A x : x \in 0..Ones <=> x \in Nat /\ x < Base
<1>1. LimbBits \in Nat /\ LimbBits >= 2 /\ Base = 2^LimbBits /\ Ones = Base - 1
  BY LimbBitsAssumption DEF Base, Ones
<1>2. Base \in Nat /\ Base > 1
  <2>1. 2^1 = 2 /\ 1 \in Nat /\ 1 <= LimbBits
    BY <1>1
  <2>2. 2^1 <= 2^LimbBits
    BY <1>1, <2>1, TwoGrows
  <2> QED
    BY <1>1, <2>1, <2>2, TwoPositive
<1> QED
  BY <1>1, <1>2

LEMMA WordOfBits ==
  ASSUME NEW s, s \subseteq 0..(LimbBits - 1)
  PROVE  /\ FromBits(s) \in 0..Ones
         /\ \A r \in Nat : Digit(FromBits(s), r) <=> r \in s
<1>1. FromBits(s) = Num(s)
  BY DEF FromBits, Num
<1>2. /\ Num(s) \in Nat /\ Num(s) < 2^LimbBits
      /\ \A r \in Nat : Digit(Num(s), r) <=> r \in s
  BY WordFacts, NumberWithDigits
<1> QED
  BY <1>1, <1>2, WordFacts

LEMMA WordDigits ==
  ASSUME NEW x, NEW y
  PROVE  /\ x & y \in 0..Ones /\ x | y \in 0..Ones /\ x ^^ y \in 0..Ones
         /\ \A r \in 0..(LimbBits - 1) :
               /\ Digit(x & y, r) <=> Digit(x, r) /\ Digit(y, r)
               /\ Digit(x | y, r) <=> Digit(x, r) \/ Digit(y, r)
               /\ Digit(x ^^ y, r) <=> ~(Digit(x, r) <=> Digit(y, r))
<1>0. \A z : BitsOf(z) = {r \in 0..(LimbBits - 1) : Digit(z, r)}
  BY DEF BitsOf, Digit
<1>1. /\ x & y \in 0..Ones
      /\ \A r \in 0..(LimbBits - 1) : Digit(x & y, r) <=> Digit(x, r) /\ Digit(y, r)
  <2>1. BitsOf(x) \cap BitsOf(y) \subseteq 0..(LimbBits - 1)
    BY <1>0
  <2> QED
    BY <1>0, <2>1, WordOfBits DEF &
<1>2. /\ x | y \in 0..Ones
      /\ \A r \in 0..(LimbBits - 1) : Digit(x | y, r) <=> Digit(x, r) \/ Digit(y, r)
  <2>1. BitsOf(x) \cup BitsOf(y) \subseteq 0..(LimbBits - 1)
    BY <1>0
  <2> QED
    BY <1>0, <2>1, WordOfBits DEF |
<1>3. /\ x ^^ y \in 0..Ones
      /\ \A r \in 0..(LimbBits - 1) : Digit(x ^^ y, r) <=> ~(Digit(x, r) <=> Digit(y, r))
  <2>1. (BitsOf(x) \ BitsOf(y)) \cup (BitsOf(y) \ BitsOf(x)) \subseteq 0..(LimbBits - 1)
    BY <1>0
  <2> QED
    BY <1>0, <2>1, WordOfBits DEF ^^
<1> QED
  BY <1>1, <1>2, <1>3

LEMMA NotDigits ==
  ASSUME NEW x \in 0..Ones
  PROVE  /\ NotWord(x) \in 0..Ones
         /\ \A r \in 0..(LimbBits - 1) : Digit(NotWord(x), r) <=> ~Digit(x, r)
<1>1. x \in Int /\ -1 - x \in Int /\ NotWord(x) = (-1 - x) + 2^LimbBits * 1
      /\ NotWord(x) \in 0..Ones
  BY WordFacts DEF NotWord
<1>2. ASSUME NEW r \in 0..(LimbBits - 1) PROVE Digit(NotWord(x), r) <=> ~Digit(x, r)
  <2>1. r \in Nat /\ r < LimbBits /\ LimbBits \in Nat
    BY WordFacts
  <2>2. Digit((-1 - x) + 2^LimbBits * 1, r) <=> Digit(-1 - x, r)
    BY <1>1, <2>1, 1 \in Int, DigitModulo
  <2> QED
    BY <1>1, <2>1, <2>2, OppositeDigits
<1> QED
  BY <1>1, <1>2

LEMMA ShiftLeftDigits ==
  ASSUME NEW x \in Nat, NEW n \in Nat
  PROVE  /\ ShiftLeft(x, n) \in 0..Ones
         /\ \A r \in 0..(LimbBits - 1) : Digit(ShiftLeft(x, n), r) <=> r >= n /\ Digit(x, r - n)
<1> DEFINE m == x * 2^n  q == m \div Base  s == m % Base
<1>1. m \in Int
  BY TwoPositive
<1>2. q \in Int /\ s \in Nat /\ s < Base /\ m = Base * q + s /\ s = ShiftLeft(x, n)
  BY <1>1, WordFacts, DivisionBy DEF ShiftLeft
<1>3. ASSUME NEW r \in 0..(LimbBits - 1) PROVE Digit(s, r) <=> r >= n /\ Digit(x, r - n)
  <2>1. r \in Nat /\ r < LimbBits /\ LimbBits \in Nat /\ Base = 2^LimbBits
    BY WordFacts
  <2>2. Digit(s + Base * q, r) <=> Digit(s, r)
    BY <1>2, <2>1, s \in Int, DigitModulo
  <2>3. s + Base * q = m
    <3> HIDE DEF m, s, q
    <3> QED
      BY <1>2, WordFacts
  <2>4. Digit(m, r) <=> r >= n /\ Digit(x, r - n)
    BY <2>1, x \in Int, MultipleDigits
  <2> QED
    BY <2>2, <2>3, <2>4
<1> QED
  BY <1>2, <1>3, WordFacts

LEMMA ShiftRightDigits ==
  ASSUME NEW x \in 0..Ones, NEW n \in Nat
  PROVE  /\ ShiftRight(x, n) \in 0..Ones
         /\ \A r \in Nat : Digit(ShiftRight(x, n), r) <=> Digit(x, n + r)
<1>1. x \in Nat /\ x \in Int /\ 2^n \in Nat /\ 2^n > 0
  BY WordFacts, TwoPositive
<1> DEFINE p == 2^n  q == x \div p
<1>2. ShiftRight(x, n) = q
  BY DEF ShiftRight
<1>3. q \in 0..Ones
  <2>1. q \in Int /\ x % p \in Nat /\ x % p < p /\ x = p * q + (x % p)
    BY <1>1, DivisionBy
  <2> DEFINE s == x % p
  <2> HIDE DEF q, p, s
  <2>2. q \in Int /\ s \in Nat /\ s < p /\ x = p * q + s /\ p \in Nat /\ p > 0
    BY <1>1, <2>1 DEF s, p
  <2>3. q >= 0
    <3> SUFFICES ASSUME q <= -1 PROVE FALSE
      BY <2>2
    <3>1. p * q <= p * (-1)
      BY <2>2
    <3> QED
      BY <1>1, <2>2, <3>1
  <2>4. q <= p * q
    BY <2>2, <2>3
  <2>5. q <= x
    BY <2>2, <2>4
  <2> QED
    BY <1>1, <2>2, <2>3, <2>5, WordFacts
<1> QED
  BY <1>1, <1>2, <1>3, DigitOfQuotient

\* A word is decided by its digits.
LEMMA WordsDecided ==
  ASSUME NEW x \in 0..Ones, NEW y \in 0..Ones,
         \A r \in 0..(LimbBits - 1) : Digit(x, r) <=> Digit(y, r)
  PROVE  x = y
BY WordFacts, DigitsDecide

-----------------------------------------------------------------------------
(* Recursion: a function defined from its value one place below exists.    *)

IsRecursion(g, n, X, c, S) ==
    g \in [0..n -> X] /\ g[0] = c /\ \A i \in 1..n : g[i] = S[i][g[i - 1]]

LEMMA RecursionExists ==
  ASSUME NEW n \in Nat, NEW X, NEW c \in X, NEW S \in [1..n -> [X -> X]]
  PROVE  \E g : IsRecursion(g, n, X, c, S)
<1> DEFINE Is(g, k) == g = [i \in 0..k |-> IF i = 0 THEN c ELSE S[i][g[i - 1]]]
           T == {k \in Nat : k <= n => \E g \in [0..k -> X] : Is(g, k)}
<1>1. 0 \in T
  <2>1. [i \in 0..0 |-> c] \in [0..0 -> X] /\ Is([i \in 0..0 |-> c], 0)
    OBVIOUS
  <2> QED
    BY <2>1
<1>2. ASSUME NEW k \in Nat, k \in T, k + 1 <= n
      PROVE  \E g \in [0..(k + 1) -> X] : Is(g, k + 1)
  <2>0. k <= n
    BY <1>2
  <2>1. PICK g \in [0..k -> X] : Is(g, k)
    BY <1>2, <2>0
  <2> DEFINE h == [i \in 0..(k + 1) |-> IF i = k + 1 THEN S[k + 1][g[k]] ELSE g[i]]
             r == [i \in 0..(k + 1) |-> IF i = 0 THEN c ELSE S[i][h[i - 1]]]
  <2>2. S[k + 1][g[k]] \in X
    <3>1. k + 1 \in 1..n /\ g[k] \in X
      BY <1>2, <2>1
    <3> QED
      BY <3>1
  <2>3. h \in [0..(k + 1) -> X]
    BY <2>1, <2>2
  <2>4. ASSUME NEW i \in 0..(k + 1) PROVE h[i] = r[i]
    <3>1. CASE i = k + 1
      <4>1. i # 0 /\ i - 1 = k /\ k \in 0..(k + 1) /\ k # k + 1
        BY <3>1
      <4>2. h[i - 1] = g[k] /\ h[i] = S[k + 1][g[k]]
        BY <3>1, <4>1
      <4> QED
        BY <3>1, <4>1, <4>2
    <3>2. CASE i # k + 1
      <4>1. i \in 0..k /\ h[i] = g[i] /\ (i # 0 => i - 1 \in 0..(k + 1) /\ i - 1 # k + 1)
        BY <3>2
      <4>2. g[i] = IF i = 0 THEN c ELSE S[i][g[i - 1]]
        BY <2>1, <4>1
      <4> QED
        BY <4>1, <4>2
    <3> QED
      BY <3>1, <3>2
  <2>5. h = r
    BY <2>4
  <2>6. Is(h, k + 1)
    BY <2>5
  <2> QED
    BY <2>3, <2>6
<1>3. \A k \in Nat : k \in T => k + 1 \in T
  <2> HIDE DEF Is
  <2> QED
    BY <1>2
<1>4. \A k \in Nat : k \in T
  <2> HIDE DEF T
  <2> QED
    BY <1>1, <1>3, SetInduction
<1>5. \E g \in [0..n -> X] : Is(g, n)
  <2> HIDE DEF Is
  <2>1. n \in T
    BY <1>4
  <2> QED
    BY <2>1
<1>6. PICK g \in [0..n -> X] : Is(g, n)
  BY <1>5
<1>7. g[0] = c /\ \A i \in 1..n : g[i] = S[i][g[i - 1]]
  BY <1>6
<1> QED
  BY <1>7 DEF IsRecursion

-----------------------------------------------------------------------------
(* Values.                                                                 *)

\* The words of a width, and the bits of the last.
LEMMA WidthFacts ==
  ASSUME NEW w \in Nat \ {0}
  PROVE  /\ Words(w) \in Nat /\ Words(w) >= 1 /\ LimbBits * (Words(w) - 1) \in Nat
         /\ LimbBits * (Words(w) - 1) < w /\ w <= LimbBits * Words(w)
               /\ LimbBits * Words(w) \in Nat
         /\ w - LimbBits * (Words(w) - 1) \in 1..LimbBits
         /\ LastMask(w) = 2^(w - LimbBits * (Words(w) - 1)) - 1 /\ LastMask(w) \in 0..Ones
<1> DEFINE L == LimbBits  q == (w + L - 1) \div L  r == (w + L - 1) % L
<1>1. L \in Nat /\ L >= 2 /\ L > 0
  BY WordFacts
<1>2. q \in Int /\ r \in Nat /\ r < L /\ w + L - 1 = L * q + r
  <2>1. w + L - 1 \in Int
    BY <1>1
  <2> QED
    BY <1>1, <2>1, DivisionBy
<1>3. Words(w) = q
  BY DEF Words
<1> HIDE DEF q, r
<1>4. q >= 1
  <2> SUFFICES ASSUME q <= 0 PROVE FALSE
    BY <1>2
  <2>1. L * q <= 0
    BY <1>1, <1>2
  <2> QED
    BY <1>1, <1>2, <2>1
<1>5. /\ L * (q - 1) = L * q - L /\ L * q \in Int
      /\ L * (q - 1) = w - (r + 1)
  BY <1>1, <1>2
<1>6. L * (q - 1) >= 0 /\ L * q >= 0
  BY <1>1, <1>2, <1>4
<1>7. w - L * (q - 1) = r + 1
  BY <1>2, <1>5
<1>8. LastMask(w) = 2^(r + 1) - 1
  <2>1. CASE r = L - 1
    <3>1. w = L * q + 0
      BY <1>1, <1>2, <2>1
    <3>2. w % L = 0
      BY <1>1, <1>2, <3>1, w \in Int, 0 \in Nat, DivisionIs
    <3> QED
      BY <1>1, <2>1, <3>2 DEF LastMask, Ones, Base
  <2>2. CASE r # L - 1
    <3>1. w = L * (q - 1) + (r + 1) /\ r + 1 \in Nat /\ r + 1 < L /\ q - 1 \in Int
      BY <1>1, <1>2, <1>5, <2>2
    <3>2. w % L = r + 1
      BY <1>1, <3>1, w \in Int, DivisionIs
    <3> QED
      BY <1>2, <3>2 DEF LastMask
  <2> QED
    BY <2>1, <2>2
<1>9. LastMask(w) \in 0..Ones
  <2>1. r + 1 \in Nat /\ r + 1 <= L
    BY <1>1, <1>2
  <2>2. 2^(r + 1) <= 2^L /\ 2^(r + 1) \in Nat /\ 2^(r + 1) > 0
    BY <1>1, <2>1, TwoGrows, TwoPositive
  <2> QED
    BY <1>8, <2>2, WordFacts
<1> QED
  BY <1>1, <1>2, <1>3, <1>4, <1>5, <1>6, <1>7, <1>8, <1>9

\* The place of a bit: word i, counted from one, and bit r of the word.
Place0(i, r) == LimbBits * (i - 1) + r

LEMMA PlaceFacts ==
  ASSUME NEW i \in Nat \ {0}, NEW r \in 0..(LimbBits - 1)
  PROVE  /\ Place0(i, r) \in Nat /\ r \in Nat /\ r < LimbBits /\ LimbBits * (i - 1) \in Nat
         /\ \A k \in Nat : Place0(i, r) < LimbBits * k <=> i <= k
<1> DEFINE L == LimbBits
<1>1. L \in Nat /\ L >= 2 /\ r \in Nat /\ r < L /\ i - 1 \in Nat
  BY WordFacts
<1>2. L * (i - 1) \in Nat
  BY <1>1
<1>3. ASSUME NEW k \in Nat PROVE L * (i - 1) + r < L * k <=> i <= k
  <2>1. CASE i <= k
    <3>1. PICK d \in Nat : k = i + d
      <4>1. k - i \in Nat /\ k = i + (k - i)
        BY <2>1
      <4> QED
        BY <4>1
    <3>2. L * k = L * (i - 1) + L + L * d /\ L * d \in Nat
      BY <1>1, <3>1
    <3> QED
      BY <1>1, <1>2, <2>1, <3>2
  <2>2. CASE ~(i <= k)
    <3>1. PICK d \in Nat : i - 1 = k + d
      <4>1. (i - 1) - k \in Nat /\ i - 1 = k + ((i - 1) - k)
        BY <2>2
      <4> QED
        BY <4>1
    <3>2. L * (i - 1) = L * k + L * d /\ L * d \in Nat /\ L * k \in Nat
      BY <1>1, <3>1
    <3> QED
      BY <1>1, <1>2, <2>2, <3>2
  <2> QED
    BY <2>1, <2>2
<1> QED
  BY <1>1, <1>2, <1>3 DEF Place0

LEMMA EveryBitHasAPlace ==
  ASSUME NEW j \in Nat
  PROVE  /\ (j \div LimbBits) + 1 \in Nat \ {0} /\ j % LimbBits \in 0..(LimbBits - 1)
         /\ j = Place0((j \div LimbBits) + 1, j % LimbBits)
<1> DEFINE L == LimbBits  q == j \div L  r == j % L
<1>1. L \in Nat /\ L >= 2 /\ L > 0
  BY WordFacts
<1>2. q \in Int /\ r \in Nat /\ r < L /\ j = L * q + r
  BY <1>1, j \in Int, DivisionBy
<1>3. Place0(q + 1, r) = L * ((q + 1) - 1) + r
  BY DEF Place0
<1> HIDE DEF q, r
<1>4. q >= 0
  <2> SUFFICES ASSUME q <= -1 PROVE FALSE
    BY <1>2
  <2>1. L * q <= L * (-1)
    BY <1>1, <1>2
  <2> QED
    BY <1>1, <1>2, <2>1
<1> QED
  BY <1>1, <1>2, <1>3, <1>4 DEF q, r

\* The bits of a place are those of one word only.
LEMMA OnePlace ==
  ASSUME NEW i \in Nat \ {0}, NEW r \in 0..(LimbBits - 1)
  PROVE  (Place0(i, r) \div LimbBits) + 1 = i /\ Place0(i, r) % LimbBits = r
<1>1. LimbBits \in Nat /\ LimbBits > 0 /\ i - 1 \in Int /\ r \in Nat /\ r < LimbBits
  BY WordFacts
<1>2. Place0(i, r) \in Int /\ Place0(i, r) = LimbBits * (i - 1) + r
  BY PlaceFacts DEF Place0
<1> DEFINE p == Place0(i, r)
<1>3. p \div LimbBits = i - 1 /\ p % LimbBits = r
  <2> HIDE DEF p
  <2> QED
    BY <1>1, <1>2, DivisionIs DEF p
<1> QED
  BY <1>3

LEMMA TwoWords ==
  ASSUME NEW w \in Nat \ {0}, NEW v \in Two(w)
  PROVE  /\ v \in [1..Words(w) -> 0..Ones] /\ Len(v) = Words(w) /\ Words(w) \in Nat
         /\ \A i \in 1..Words(w) : v[i] \in 0..Ones /\ v[i] \in Nat /\ v[i] < 2^LimbBits
<1>1. Words(w) \in Nat
  BY WidthFacts
<1>2. v \in [1..Words(w) -> 0..Ones]
  BY DEF Two
<1>3. Len(v) = Words(w)
  BY <1>1, <1>2
<1> QED
  BY <1>1, <1>2, <1>3, WordFacts

\* The number of a value, summed word by word.
ArePartsOf(g, v, k) ==
    g[0] = 0 /\ \A i \in 1..k : g[i] = g[i - 1] + v[i] * 2^(LimbBits * (i - 1))

LEMMA WideNumParts ==
  ASSUME NEW w \in Nat \ {0}, NEW v \in Two(w)
  PROVE  \E g : ArePartsOf(g, v, Words(w)) /\ WideNum(v) = g[Words(w)]
<1> DEFINE K == Words(w)
           F(i) == v[i] * 2^(LimbBits * (i - 1))
           Is(g) == g = [i \in 0..Len(v) |-> IF i = 0 THEN 0
                 ELSE g[i - 1] + v[i] * 2^(LimbBits * (i - 1))]
           S == [i \in 1..K |-> [x \in Nat |-> x + F(i)]]
<1>1. /\ K \in Nat /\ Len(v) = K
      /\ \A i \in 1..K : v[i] \in Nat
  BY TwoWords
<1>2. \A i \in 1..K : F(i) \in Nat
  <2> SUFFICES ASSUME NEW i \in 1..K PROVE F(i) \in Nat
    OBVIOUS
  <2>1. i - 1 \in Nat /\ LimbBits \in Nat
    BY WordFacts
  <2>2. LimbBits * (i - 1) \in Nat
    BY <2>1
  <2> DEFINE x == v[i]  y == 2^(LimbBits * (i - 1))
  <2>3. x \in Nat /\ y \in Nat
    BY <1>1, <2>2, TwoPositive
  <2> HIDE DEF x, y
  <2>4. x * y \in Nat
    BY <2>3
  <2> QED
    BY <2>4 DEF x, y
<1>3. \E g : Is(g)
  <2> HIDE DEF F
  <2>1. S \in [1..K -> [Nat -> Nat]]
    BY <1>2
  <2> HIDE DEF S
  <2>2. PICK g \in [0..K -> Nat] : g[0] = 0 /\ \A i \in 1..K : g[i] = S[i][g[i - 1]]
    <3>1. K \in Nat /\ 0 \in Nat
      BY <1>1
    <3>2. \E g : IsRecursion(g, K, Nat, 0, S)
      BY <2>1, <3>1, RecursionExists
    <3> QED
      BY <3>2 DEF IsRecursion
  <2>3. ASSUME NEW i \in 0..K
        PROVE  g[i] = IF i = 0 THEN 0 ELSE g[i - 1] + F(i)
    <3>1. CASE i = 0
      BY <2>2, <3>1
    <3>2. CASE i # 0
      <4>1. i \in 1..K /\ i - 1 \in 0..K
        BY <1>1, <3>2
      <4>2. g[i - 1] \in Nat
        BY <4>1
      <4>3. S[i][g[i - 1]] = g[i - 1] + F(i)
        BY <4>1, <4>2 DEF S
      <4> QED
        BY <2>2, <3>2, <4>1, <4>3
    <3> QED
      BY <3>1, <3>2
  <2>4. g = [i \in 0..K |-> IF i = 0 THEN 0 ELSE g[i - 1] + F(i)]
    BY <2>3
  <2> QED
    BY <1>1, <2>4 DEF F
<1> DEFINE h == CHOOSE g : Is(g)
<1>4. Is(h)
  <2> HIDE DEF Is
  <2> QED
    BY <1>3, Zenon
<1>5. WideNum(v) = h[K]
  BY <1>1 DEF WideNum
<1> HIDE DEF h
<1>6. ArePartsOf(h, v, K)
  <2>1. h[0] = 0
    BY <1>1, <1>4
  <2>2. \A i \in 1..K : h[i] = h[i - 1] + F(i)
    BY <1>1, <1>4
  <2> QED
    BY <2>1, <2>2 DEF ArePartsOf
<1> QED
  BY <1>5, <1>6

\* The digits of the words so far are the digits of their sum.
PartRight(g, v, n) ==
    /\ g[n] \in Nat /\ g[n] < 2^(LimbBits * n)
    /\ \A i \in 1..n : \A r \in 0..(LimbBits - 1) : Digit(g[n], Place0(i, r)) <=> Digit(v[i], r)

LEMMA PartsRight ==
  ASSUME NEW K \in Nat, NEW v \in [1..K -> 0..Ones], NEW g, ArePartsOf(g, v, K)
  PROVE  \A n \in 0..K : PartRight(g, v, n)
<1> DEFINE S == {n \in Nat : n <= K => PartRight(g, v, n)}
           L == LimbBits
<1>0. L \in Nat /\ L >= 2
  BY WordFacts
<1>1. 0 \in S
  <2>1. LimbBits * 0 = 0
    BY <1>0
  <2>2. 2^(LimbBits * 0) = 1
    <3>1. PICK z \in Nat : z = LimbBits * 0
      BY <2>1
    <3>2. z = 0 /\ 2^0 = 1
      BY <2>1, <3>1
    <3>3. 2^z = 1
      BY <3>2
    <3> QED
      BY <3>1, <3>3
  <2>3. g[0] = 0
    BY DEF ArePartsOf
  <2> QED
    BY <2>2, <2>3 DEF PartRight
<1>2. ASSUME NEW n \in Nat, n \in S, n + 1 <= K PROVE PartRight(g, v, n + 1)
  <2> HIDE DEF S
  <2>1. PartRight(g, v, n)
    BY <1>2 DEF S
  <2> DEFINE x == g[n]  y == v[n + 1]  p == 2^(L * n)
  <2>2. g[n + 1] = x + y * p
    <3>1. n + 1 \in 1..K /\ (n + 1) - 1 = n
      BY <1>2
    <3> QED
      BY <3>1 DEF ArePartsOf
  <2>3. L * n \in Nat /\ L * (n + 1) = L * n + L
    BY <1>0
  <2>4. p \in Nat /\ p > 0 /\ Base \in Nat /\ 2^(L * (n + 1)) = p * Base
    <3>1. 2^(L * n + L) = 2^(L * n) * 2^L
      BY <1>0, <2>3, TwoSum
    <3> QED
      BY <2>3, <3>1, TwoPositive, WordFacts
  <2>5. x \in Nat /\ x < p /\ y \in Nat /\ y < Base
    <3>1. n + 1 \in 1..K
      BY <1>2
    <3> QED
      BY <2>1, <3>1, WordFacts DEF PartRight
  <2>6. g[n + 1] \in Nat /\ g[n + 1] < 2^(L * (n + 1))
    <3> HIDE DEF x, y, p
    <3>1. y * p \in Nat /\ y * p + p <= p * Base
      <4>1. (y + 1) * p <= Base * p
        BY <2>4, <2>5
      <4> QED
        BY <2>4, <2>5, <4>1
    <3> QED
      BY <2>2, <2>4, <2>5, <3>1
  <2>7. g[n + 1] \div p = y
    <3> HIDE DEF x, y, p
    <3>1. g[n + 1] = p * y + x /\ g[n + 1] \in Int
      BY <2>2, <2>4, <2>5, <2>6
    <3> QED
      BY <2>4, <2>5, <3>1, DivisionIs
  <2>8. ASSUME NEW i \in 1..(n + 1), NEW r \in 0..(L - 1)
        PROVE  Digit(g[n + 1], Place0(i, r)) <=> Digit(v[i], r)
    <3>1. CASE i <= n
      <4>1. i \in 1..n /\ Place0(i, r) \in Nat /\ Place0(i, r) < L * n
        BY <3>1, PlaceFacts
      <4>2. Digit(x + p * y, Place0(i, r)) <=> Digit(x, Place0(i, r))
        BY <2>3, <2>5, <4>1, x \in Int, y \in Int, DigitModulo
      <4>3. x + p * y = g[n + 1]
        <5> HIDE DEF x, y, p
        <5> QED
          BY <2>2, <2>4, <2>5
      <4> QED
        BY <2>1, <4>1, <4>2, <4>3 DEF PartRight
    <3>2. CASE i = n + 1
      <4>1. Place0(i, r) = L * n + r /\ r \in Nat
        BY <3>2, PlaceFacts DEF Place0
      <4>2. Digit(g[n + 1] \div p, r) <=> Digit(g[n + 1], L * n + r)
        BY <2>3, <2>6, <4>1, g[n + 1] \in Int, DigitOfQuotient
      <4> QED
        BY <2>7, <3>2, <4>1, <4>2
    <3> QED
      BY <3>1, <3>2
  <2> QED
    BY <2>6, <2>8 DEF PartRight
<1>3. \A n \in Nat : n \in S => n + 1 \in S
  BY <1>2
<1>4. \A n \in Nat : n \in S
  <2> HIDE DEF S
  <2> QED
    BY <1>1, <1>3, SetInduction
<1> QED
  BY <1>4

\* The digits of the number of a value are the digits of its words.
LEMMA WideDigits ==
  ASSUME NEW w \in Nat \ {0}, NEW v \in Two(w)
  PROVE  /\ WideNum(v) \in Nat /\ WideNum(v) < 2^(LimbBits * Words(w))
         /\ \A i \in 1..Words(w) : \A r \in 0..(LimbBits - 1) :
               Digit(WideNum(v), Place0(i, r)) <=> Digit(v[i], r)
<1>1. PICK g : ArePartsOf(g, v, Words(w)) /\ WideNum(v) = g[Words(w)]
  BY WideNumParts
<1>2. Words(w) \in Nat /\ v \in [1..Words(w) -> 0..Ones]
  BY TwoWords
<1>3. PartRight(g, v, Words(w))
  BY <1>1, <1>2, PartsRight
<1> QED
  BY <1>1, <1>3 DEF PartRight

\* A masked value is below 2^w.
LEMMA WideBelow ==
  ASSUME NEW w \in Nat \ {0}, NEW v \in Wide(w)
  PROVE  v \in Two(w) /\ WideNum(v) \in Nat /\ WideNum(v) \in Int /\ WideNum(v) < 2^w
<1> DEFINE K == Words(w)  n == LimbBits * (K - 1)
<1>0. v \in Two(w) /\ v[K] <= LastMask(w)
  BY DEF Wide
<1>1. PICK g : ArePartsOf(g, v, K) /\ WideNum(v) = g[K]
  BY <1>0, WideNumParts
<1>2. K \in Nat /\ K >= 1 /\ v \in [1..K -> 0..Ones] /\ K - 1 \in 0..K /\ K \in 1..K
  <2>1. K \in Nat /\ K >= 1
    BY WidthFacts
  <2>2. v \in [1..K -> 0..Ones]
    BY <1>0, TwoWords
  <2> QED
    BY <2>1, <2>2
<1>3. g[K - 1] \in Nat /\ g[K - 1] < 2^n
  BY <1>1, <1>2, PartsRight DEF PartRight
<1>4. g[K] = g[K - 1] + v[K] * 2^n
  BY <1>1, <1>2 DEF ArePartsOf
<1>5. n \in Nat /\ w - n \in Nat /\ n + (w - n) = w /\ LastMask(w) = 2^(w - n) - 1
  BY WidthFacts
<1> DEFINE c == 2^n  d == 2^(w - n)  x == v[K]
<1>6. c \in Nat /\ d \in Nat /\ 2^w = c * d
  <2>1. 2^(n + (w - n)) = c * d
    BY <1>5, TwoSum
  <2> QED
    BY <1>5, <2>1, TwoPositive
<1>7. x \in Nat /\ x <= d - 1
  BY <1>0, <1>2, <1>5, WordFacts
<1> HIDE DEF c, d, x
<1>8. x * c + c <= c * d /\ x * c \in Nat
  <2>1. (x + 1) * c <= d * c
    BY <1>6, <1>7
  <2> QED
    BY <1>6, <1>7, <2>1
<1> QED
  BY <1>0, <1>1, <1>3, <1>4, <1>6, <1>8 DEF c, x

\* The bit of a place below the width is one of the bits that the last word keeps.
LEMMA PlaceBelow ==
  ASSUME NEW w \in Nat \ {0}, NEW i \in 1..Words(w), NEW r \in 0..(LimbBits - 1)
  PROVE  /\ i \in Nat \ {0} /\ Place0(i, r) \in Nat /\ Place0(i, r) < LimbBits * Words(w)
         /\ i # Words(w) => Place0(i, r) < w
         /\ i = Words(w) => (Place0(i, r) < w <=> r < w - LimbBits * (Words(w) - 1))
<1>1. /\ Words(w) \in Nat /\ Words(w) >= 1 /\ LimbBits * (Words(w) - 1) \in Nat
      /\ LimbBits * (Words(w) - 1) < w /\ i \in Nat \ {0} /\ Words(w) - 1 \in Nat
  BY WidthFacts
<1>2. Place0(i, r) \in Nat /\ r \in Nat
  BY <1>1, PlaceFacts
<1>3. Place0(i, r) < LimbBits * Words(w)
  BY <1>1, PlaceFacts
<1>4. ASSUME i # Words(w) PROVE Place0(i, r) < w
  <2>1. i <= Words(w) - 1
    BY <1>1, <1>4
  <2>2. Place0(i, r) < LimbBits * (Words(w) - 1)
    BY <1>1, <2>1, PlaceFacts
  <2> QED
    BY <1>1, <1>2, <2>2
<1>5. ASSUME i = Words(w) PROVE Place0(i, r) < w <=> r < w - LimbBits * (Words(w) - 1)
  <2>1. Place0(i, r) = LimbBits * (Words(w) - 1) + r
    BY <1>5 DEF Place0
  <2> QED
    BY <1>1, <1>2, <2>1
<1> QED
  BY <1>1, <1>2, <1>3, <1>4, <1>5

LEMMA NoDigitsAbove ==
  ASSUME NEW n \in Nat, NEW m \in Nat, m < 2^n, NEW k \in Nat,
         \A i \in Nat : Digit(m, i) => i < k
  PROVE  m < 2^k
<1>1. m = Num(Digits(m, n))
  BY DigitsMakeNumber
<1>2. Digits(m, n) \subseteq 0..(k - 1)
  <2> SUFFICES ASSUME NEW i \in Digits(m, n) PROVE i \in 0..(k - 1)
    OBVIOUS
  <2>1. i \in Nat /\ Digit(m, i)
    BY DEF Digits
  <2> QED
    BY <2>1
<1> QED
  BY <1>1, <1>2, NumBelow

\* A value with no bit from the width on is masked.
LEMMA InWide ==
  ASSUME NEW w \in Nat \ {0}, NEW v \in Two(w),
         \A r \in 0..(LimbBits - 1) : Digit(v[Words(w)], r) => Place0(Words(w), r) < w
  PROVE  v \in Wide(w)
<1> DEFINE K == Words(w)  t == w - LimbBits * (K - 1)  x == v[K]
<1>1. K \in 1..K /\ t \in Nat /\ LastMask(w) = 2^t - 1
  BY WidthFacts
<1>2. x \in Nat /\ x < 2^LimbBits
  BY <1>1, TwoWords
<1>3. ASSUME NEW r \in Nat, Digit(x, r) PROVE r < t
  <2>1. r < LimbBits
    <3>1. ~(LimbBits <= r)
      BY <1>2, <1>3, WordFacts, NoDigitBeyond
    <3> QED
      BY <3>1, WordFacts
  <2>2. r \in 0..(LimbBits - 1)
    BY <2>1, WordFacts
  <2> QED
    BY <1>1, <1>3, <2>2, PlaceBelow
<1>4. x < 2^t
  BY <1>1, <1>2, <1>3, WordFacts, NoDigitsAbove
<1>5. x <= LastMask(w)
  BY <1>1, <1>2, <1>4, TwoPositive
<1> QED
  BY <1>5 DEF Wide

\* A masked value stands for the remainder of every integer whose bits its words have.
LEMMA WideIs ==
  ASSUME NEW w \in Nat \ {0}, NEW v \in Wide(w), NEW m \in Int,
         \A i \in 1..Words(w) : \A r \in 0..(LimbBits - 1) :
            Place0(i, r) < w => (Digit(v[i], r) <=> Digit(m, Place0(i, r)))
  PROVE  WideNum(v) = m % 2^w
<1>1. v \in Two(w) /\ WideNum(v) \in Nat /\ WideNum(v) < 2^w
  BY WideBelow
<1>2. ASSUME NEW j \in 0..(w - 1) PROVE Digit(WideNum(v), j) <=> Digit(m, j)
  <2> DEFINE i == (j \div LimbBits) + 1  r == j % LimbBits
  <2>1. j \in Nat /\ j < w
    OBVIOUS
  <2>2. i \in Nat \ {0} /\ r \in 0..(LimbBits - 1) /\ j = Place0(i, r)
    BY <2>1, EveryBitHasAPlace
  <2> HIDE DEF i, r
  <2>3. Words(w) \in Nat /\ w <= LimbBits * Words(w) /\ LimbBits * Words(w) \in Nat
    BY WidthFacts
  <2>4. Place0(i, r) < LimbBits * Words(w)
    BY <2>1, <2>2, <2>3
  <2>5. i \in 1..Words(w)
    BY <2>2, <2>3, <2>4, PlaceFacts
  <2>6. Digit(WideNum(v), Place0(i, r)) <=> Digit(v[i], r)
    BY <1>1, <2>2, <2>5, WideDigits
  <2> QED
    BY <2>1, <2>2, <2>5, <2>6
<1> QED
  BY <1>1, <1>2, ModuloDigits

LEMMA KeptDigits ==
  ASSUME NEW w \in Nat \ {0}, NEW x, NEW r \in 0..(LimbBits - 1)
  PROVE  /\ x & LastMask(w) \in 0..Ones
         /\ Digit(x & LastMask(w), r) <=> Digit(x, r) /\ Place0(Words(w), r) < w
<1> DEFINE t == w - LimbBits * (Words(w) - 1)
<1>1. Words(w) \in 1..Words(w) /\ t \in Nat /\ LastMask(w) = 2^t - 1 /\ r \in Nat
  BY WidthFacts
<1>2. Digit(LastMask(w), r) <=> r < t
  BY <1>1, OnesDigits
<1>3. Place0(Words(w), r) < w <=> r < t
  BY <1>1, PlaceBelow
<1> QED
  BY <1>2, <1>3, WordDigits

\* What gpga_wide_mask makes of words with the bits of an integer.
LEMMA MaskedIs ==
  ASSUME NEW w \in Nat \ {0}, NEW v \in Two(w), NEW m \in Int,
         \A i \in 1..Words(w) : \A r \in 0..(LimbBits - 1) :
            Place0(i, r) < w => (Digit(v[i], r) <=> Digit(m, Place0(i, r)))
  PROVE  gpga_wide_mask(v, w) \in Wide(w) /\ WideNum(gpga_wide_mask(v, w)) = m % 2^w
<1> DEFINE u == gpga_wide_mask(v, w)  K == Words(w)
<1>1. K \in 1..K
  BY WidthFacts
<1>2. v \in [1..K -> 0..Ones]
  BY TwoWords
<1>3. 0 \in 0..(LimbBits - 1)
  BY WordFacts
<1>4. u = [v EXCEPT ![K] = v[K] & LastMask(w)]
  BY DEF gpga_wide_mask
<1>5. u[K] = v[K] & LastMask(w) /\ \A i \in 1..K : i # K => u[i] = v[i]
  BY <1>1, <1>2, <1>4
<1>6. u \in Two(w)
  <2>1. v[K] & LastMask(w) \in 0..Ones
    BY <1>3, KeptDigits
  <2> QED
    BY <1>1, <1>2, <1>4, <2>1 DEF Two
<1> HIDE DEF u
<1>7. \A r \in 0..(LimbBits - 1) : Digit(u[K], r) <=> Digit(v[K], r) /\ Place0(K, r) < w
  BY <1>5, KeptDigits
<1>8. u \in Wide(w)
  BY <1>6, <1>7, InWide
<1>9. ASSUME NEW i \in 1..K, NEW r \in 0..(LimbBits - 1), Place0(i, r) < w
      PROVE  Digit(u[i], r) <=> Digit(m, Place0(i, r))
  BY <1>5, <1>7, <1>9
<1>10. WideNum(u) = m % 2^w
  BY <1>8, <1>9, WideIs
<1> QED
  BY <1>8, <1>10 DEF u

\* Masking changes nothing that is masked.
LEMMA SeenIs ==
  ASSUME NEW w \in Nat \ {0}, NEW v \in Wide(w), NEW i \in 1..Words(w)
  PROVE  Seen(v, i, w) = v[i] /\ v[i] \in 0..Ones
<1> DEFINE K == Words(w)  t == w - LimbBits * (K - 1)
<1>1. K \in 1..K /\ t \in Nat /\ LastMask(w) = 2^t - 1
  BY WidthFacts
<1>2. v \in Two(w) /\ v[K] <= LastMask(w)
  BY DEF Wide
<1>3. v[K] \in Nat /\ v[K] < 2^t /\ v[K] \in 0..Ones /\ v[i] \in 0..Ones
  BY <1>1, <1>2, TwoWords, TwoPositive
<1>4. ASSUME NEW r \in 0..(LimbBits - 1)
      PROVE  Digit(v[K] & LastMask(w), r) <=> Digit(v[K], r)
  <2>1. Digit(v[K], r) => r < t
    <3>1. t <= r => ~Digit(v[K], r)
      BY <1>1, <1>3, NoDigitBeyond
    <3> QED
      BY <1>1, <3>1
  <2>2. Place0(K, r) < w <=> r < t
    BY <1>1, PlaceBelow
  <2> QED
    BY <2>1, <2>2, KeptDigits
<1>5. v[K] & LastMask(w) = v[K]
  <2>1. v[K] & LastMask(w) \in 0..Ones
    BY WordDigits
  <2> QED
    BY <1>3, <1>4, <2>1, WordsDecided
<1> QED
  BY <1>3, <1>5 DEF Seen

LEMMA WideFacts ==
  ASSUME NEW w \in Nat \ {0}, NEW a \in Wide(w)
  PROVE  /\ a \in Two(w) /\ WideNum(a) \in Nat /\ WideNum(a) \in Int /\ WideNum(a) < 2^w
         /\ 2^w \in Nat /\ 2^w > 0
         /\ \A i \in 1..Words(w) : a[i] \in 0..Ones
         /\ \A i \in 1..Words(w) : \A r \in 0..(LimbBits - 1) :
               Digit(WideNum(a), Place0(i, r)) <=> Digit(a[i], r)
BY WideBelow, WideDigits, TwoWords, TwoPositive

LEMMA Reduced ==
  ASSUME NEW w \in Nat, NEW m \in Nat, m < 2^w
  PROVE  m % 2^w = m
BY TwoPositive, Remaining

-----------------------------------------------------------------------------
(* The operators on bits.                                                  *)

LEMMA NotIs ==
  ASSUME NEW w \in Nat \ {0}, NEW a \in Wide(w)
  PROVE  gpga_wide_not(a, w) \in Wide(w) /\ WideNum(gpga_wide_not(a, w)) = 2^w - 1 - WideNum(a)
<1> DEFINE K == Words(w)  u == Each(w, LAMBDA i: NotWord(a[i + 1]))  m == WideNum(a)  p == 2^w
<1>1. u = [i \in 1..K |-> NotWord(a[(i - 1) + 1])]
  BY DEF Each
<1>2. \A i \in 1..K : (i - 1) + 1 = i /\ a[i] \in 0..Ones /\ NotWord(a[i]) \in 0..Ones
  BY WidthFacts, WideFacts, NotDigits
<1>3. u \in Two(w) /\ \A i \in 1..K : u[i] = NotWord(a[i])
  BY <1>1, <1>2 DEF Two
<1> HIDE DEF u
<1>4. m \in Nat /\ m < p /\ -1 - m \in Int /\ p \in Nat /\ p > 0
  BY WideFacts
<1>5. ASSUME NEW i \in 1..K, NEW r \in 0..(LimbBits - 1)
      PROVE  Digit(u[i], r) <=> Digit(-1 - m, Place0(i, r))
  <2>1. Digit(u[i], r) <=> ~Digit(a[i], r)
    BY <1>2, <1>3, NotDigits
  <2>2. Digit(m, Place0(i, r)) <=> Digit(a[i], r)
    BY WideFacts
  <2>3. Digit(-1 - m, Place0(i, r)) <=> ~Digit(m, Place0(i, r))
    BY <1>4, m \in Int, PlaceBelow, OppositeDigits
  <2> QED
    BY <2>1, <2>2, <2>3
<1>6. gpga_wide_mask(u, w) \in Wide(w) /\ WideNum(gpga_wide_mask(u, w)) = (-1 - m) % p
  BY <1>3, <1>4, <1>5, MaskedIs
<1>7. (-1 - m) % p = p - 1 - m
  <2> HIDE DEF m, p
  <2>1. -1 - m = p * (-1) + (p - 1 - m) /\ p - 1 - m \in Nat /\ p - 1 - m < p
    BY <1>4
  <2> QED
    BY <1>4, <2>1, -1 \in Int, DivisionIs
<1> QED
  BY <1>6, <1>7 DEF gpga_wide_not, u

\* An operator on bits applied to every word.
LEMMA BitwiseIs ==
  ASSUME NEW w \in Nat \ {0}, NEW u \in Two(w), NEW s, s \subseteq 0..(w - 1),
         \A i \in 1..Words(w) : \A r \in 0..(LimbBits - 1) :
            Place0(i, r) < w => (Digit(u[i], r) <=> Place0(i, r) \in s)
  PROVE  gpga_wide_mask(u, w) \in Wide(w) /\ WideNum(gpga_wide_mask(u, w)) = FromBits(s)
<1> DEFINE x == Num(s)
<1>1. x \in Nat /\ x < 2^w /\ \A j \in Nat : Digit(x, j) <=> j \in s
  BY NumberWithDigits
<1>2. FromBits(s) = x
  BY DEF FromBits, Num
<1> HIDE DEF x
<1>3. \A i \in 1..Words(w) : \A r \in 0..(LimbBits - 1) :
         Place0(i, r) < w => (Digit(u[i], r) <=> Digit(x, Place0(i, r)))
  BY <1>1, PlaceBelow
<1>4. gpga_wide_mask(u, w) \in Wide(w) /\ WideNum(gpga_wide_mask(u, w)) = x % 2^w
  BY <1>1, x \in Int, <1>3, MaskedIs
<1> QED
  BY <1>1, <1>2, <1>4, Reduced

\* The bits of two operands, at the places below the width.
LEMMA TwoOperands ==
  ASSUME NEW w \in Nat \ {0}, NEW a \in Wide(w), NEW b \in Wide(w),
         NEW i \in 1..Words(w), NEW r \in 0..(LimbBits - 1), Place0(i, r) < w
  PROVE  LET j == Place0(i, r)
         IN  /\ j \in 0..(w - 1)
             /\ BitOf(WideNum(a), j) \in {0, 1} /\ BitOf(WideNum(b), j) \in {0, 1}
             /\ BitOf(WideNum(a), j) = 1 <=> Digit(a[i], r)
             /\ BitOf(WideNum(b), j) = 1 <=> Digit(b[i], r)
<1>1. Place0(i, r) \in Nat /\ Place0(i, r) \in 0..(w - 1)
  BY PlaceBelow
<1>2. WideNum(a) \in Int /\ WideNum(b) \in Int
  BY WideFacts
<1> QED
  BY <1>1, <1>2, WideFacts, DigitIsBit

LEMMA AndIs ==
  ASSUME NEW w \in Nat \ {0}, NEW a \in Wide(w), NEW b \in Wide(w)
  PROVE  /\ gpga_wide_and(a, b, w) \in Wide(w)
         /\ WideNum(gpga_wide_and(a, b, w))
              = FromBits({j \in 0..(w - 1) : BitOf(WideNum(a), j) + BitOf(WideNum(b), j) = 2})
<1> DEFINE K == Words(w)  u == Each(w, LAMBDA i: a[i + 1] & b[i + 1])
           s == {j \in 0..(w - 1) : BitOf(WideNum(a), j) + BitOf(WideNum(b), j) = 2}
<1>1. u = [i \in 1..K |-> a[(i - 1) + 1] & b[(i - 1) + 1]]
  BY DEF Each
<1>2. \A i \in 1..K : (i - 1) + 1 = i /\ a[i] & b[i] \in 0..Ones
  BY WidthFacts, WordDigits
<1>3. u \in Two(w) /\ \A i \in 1..K : u[i] = a[i] & b[i]
  BY <1>1, <1>2 DEF Two
<1> HIDE DEF u
<1>4. ASSUME NEW i \in 1..K, NEW r \in 0..(LimbBits - 1), Place0(i, r) < w
      PROVE  Digit(u[i], r) <=> Place0(i, r) \in s
  <2> DEFINE j == Place0(i, r)
  <2>1. Digit(u[i], r) <=> Digit(a[i], r) /\ Digit(b[i], r)
    BY <1>3, WordDigits
  <2>2. /\ j \in 0..(w - 1)
        /\ BitOf(WideNum(a), j) \in {0, 1} /\ BitOf(WideNum(b), j) \in {0, 1}
        /\ BitOf(WideNum(a), j) = 1 <=> Digit(a[i], r)
        /\ BitOf(WideNum(b), j) = 1 <=> Digit(b[i], r)
    BY <1>4, TwoOperands
  <2> QED
    BY <2>1, <2>2
<1>5. s \subseteq 0..(w - 1)
  OBVIOUS
<1> HIDE DEF s
<1>6. gpga_wide_mask(u, w) \in Wide(w) /\ WideNum(gpga_wide_mask(u, w)) = FromBits(s)
  BY <1>3, <1>4, <1>5, BitwiseIs
<1> QED
  BY <1>6 DEF gpga_wide_and, u, s

LEMMA OrIs ==
  ASSUME NEW w \in Nat \ {0}, NEW a \in Wide(w), NEW b \in Wide(w)
  PROVE  /\ gpga_wide_or(a, b, w) \in Wide(w)
         /\ WideNum(gpga_wide_or(a, b, w))
              = FromBits({j \in 0..(w - 1) : BitOf(WideNum(a), j) + BitOf(WideNum(b), j) > 0})
<1> DEFINE K == Words(w)  u == Each(w, LAMBDA i: a[i + 1] | b[i + 1])
           s == {j \in 0..(w - 1) : BitOf(WideNum(a), j) + BitOf(WideNum(b), j) > 0}
<1>1. u = [i \in 1..K |-> a[(i - 1) + 1] | b[(i - 1) + 1]]
  BY DEF Each
<1>2. \A i \in 1..K : (i - 1) + 1 = i /\ a[i] | b[i] \in 0..Ones
  BY WidthFacts, WordDigits
<1>3. u \in Two(w) /\ \A i \in 1..K : u[i] = a[i] | b[i]
  BY <1>1, <1>2 DEF Two
<1> HIDE DEF u
<1>4. ASSUME NEW i \in 1..K, NEW r \in 0..(LimbBits - 1), Place0(i, r) < w
      PROVE  Digit(u[i], r) <=> Place0(i, r) \in s
  <2> DEFINE j == Place0(i, r)
  <2>1. Digit(u[i], r) <=> Digit(a[i], r) \/ Digit(b[i], r)
    BY <1>3, WordDigits
  <2>2. /\ j \in 0..(w - 1)
        /\ BitOf(WideNum(a), j) \in {0, 1} /\ BitOf(WideNum(b), j) \in {0, 1}
        /\ BitOf(WideNum(a), j) = 1 <=> Digit(a[i], r)
        /\ BitOf(WideNum(b), j) = 1 <=> Digit(b[i], r)
    BY <1>4, TwoOperands
  <2> QED
    BY <2>1, <2>2
<1>5. s \subseteq 0..(w - 1)
  OBVIOUS
<1> HIDE DEF s
<1>6. gpga_wide_mask(u, w) \in Wide(w) /\ WideNum(gpga_wide_mask(u, w)) = FromBits(s)
  BY <1>3, <1>4, <1>5, BitwiseIs
<1> QED
  BY <1>6 DEF gpga_wide_or, u, s

LEMMA XorIs ==
  ASSUME NEW w \in Nat \ {0}, NEW a \in Wide(w), NEW b \in Wide(w)
  PROVE  /\ gpga_wide_xor(a, b, w) \in Wide(w)
         /\ WideNum(gpga_wide_xor(a, b, w))
              = FromBits({j \in 0..(w - 1) : BitOf(WideNum(a), j) + BitOf(WideNum(b), j) = 1})
<1> DEFINE K == Words(w)  u == Each(w, LAMBDA i: a[i + 1] ^^ b[i + 1])
           s == {j \in 0..(w - 1) : BitOf(WideNum(a), j) + BitOf(WideNum(b), j) = 1}
<1>1. u = [i \in 1..K |-> a[(i - 1) + 1] ^^ b[(i - 1) + 1]]
  BY DEF Each
<1>2. \A i \in 1..K : (i - 1) + 1 = i /\ a[i] ^^ b[i] \in 0..Ones
  BY WidthFacts, WordDigits
<1>3. u \in Two(w) /\ \A i \in 1..K : u[i] = a[i] ^^ b[i]
  BY <1>1, <1>2 DEF Two
<1> HIDE DEF u
<1>4. ASSUME NEW i \in 1..K, NEW r \in 0..(LimbBits - 1), Place0(i, r) < w
      PROVE  Digit(u[i], r) <=> Place0(i, r) \in s
  <2> DEFINE j == Place0(i, r)
  <2>1. Digit(u[i], r) <=> ~(Digit(a[i], r) <=> Digit(b[i], r))
    BY <1>3, WordDigits
  <2>2. /\ j \in 0..(w - 1)
        /\ BitOf(WideNum(a), j) \in {0, 1} /\ BitOf(WideNum(b), j) \in {0, 1}
        /\ BitOf(WideNum(a), j) = 1 <=> Digit(a[i], r)
        /\ BitOf(WideNum(b), j) = 1 <=> Digit(b[i], r)
    BY <1>4, TwoOperands
  <2> QED
    BY <2>1, <2>2
<1>5. s \subseteq 0..(w - 1)
  OBVIOUS
<1> HIDE DEF s
<1>6. gpga_wide_mask(u, w) \in Wide(w) /\ WideNum(gpga_wide_mask(u, w)) = FromBits(s)
  BY <1>3, <1>4, <1>5, BitwiseIs
<1> QED
  BY <1>6 DEF gpga_wide_xor, u, s

-----------------------------------------------------------------------------
(* Constants, and single bits.                                             *)

LEMMA ZeroWord == \A r \in Nat : ~Digit(0, r)
<1> SUFFICES ASSUME NEW r \in Nat PROVE ~Digit(0, r)
  OBVIOUS
<1>1. 2^0 = 1 /\ 0 \in Nat /\ 0 < 1 /\ 0 <= r
  OBVIOUS
<1> QED
  BY <1>1, NoDigitBeyond

LEMMA ZeroIs ==
  ASSUME NEW w \in Nat \ {0}
  PROVE  /\ gpga_wide_zero(w) \in Wide(w) /\ WideNum(gpga_wide_zero(w)) = 0
         /\ \A i \in 1..Words(w) : gpga_wide_zero(w)[i] = 0
<1> DEFINE u == gpga_wide_zero(w)
<1>1. u = [i \in 1..Words(w) |-> 0]
  BY DEF gpga_wide_zero, Each
<1>2. u \in Two(w) /\ \A i \in 1..Words(w) : u[i] = 0
  BY <1>1, WordFacts DEF Two
<1> HIDE DEF u
<1>3. Words(w) \in 1..Words(w) /\ \A r \in 0..(LimbBits - 1) : r \in Nat
  BY WidthFacts
<1>4. u \in Wide(w)
  BY <1>2, <1>3, ZeroWord, InWide
<1>5. \A i \in 1..Words(w) : \A r \in 0..(LimbBits - 1) :
         Place0(i, r) < w => (Digit(u[i], r) <=> Digit(0, Place0(i, r)))
  BY <1>2, <1>3, ZeroWord, PlaceBelow
<1>6. WideNum(u) = 0 % 2^w
  BY <1>4, <1>5, 0 \in Int, WideIs
<1>7. 0 % 2^w = 0
  BY TwoPositive, Reduced
<1> QED
  BY <1>2, <1>4, <1>6, <1>7 DEF u

LEMMA OnesWord == \A r \in 0..(LimbBits - 1) : Digit(Ones, r)
BY WordFacts, OnesDigits

\* Minus one has all digits.
LEMMA MinusOneDigits == \A j \in Nat : Digit(-1, j)
<1>1. \A j \in Nat : Digit(-1 - 0, j)
  BY 0 \in Int, ZeroWord, OppositeDigits
<1>2. -1 - 0 = -1
  OBVIOUS
<1> QED
  BY <1>1, <1>2

LEMMA AllOnesIs ==
  ASSUME NEW w \in Nat \ {0}, NEW u, u = [i \in 1..Words(w) |-> Ones]
  PROVE  gpga_wide_mask(u, w) \in Wide(w) /\ WideNum(gpga_wide_mask(u, w)) = 2^w - 1
<1>1. u \in Two(w) /\ \A i \in 1..Words(w) : u[i] = Ones
  BY WordFacts DEF Two
<1>2. \A i \in 1..Words(w) : \A r \in 0..(LimbBits - 1) :
         Place0(i, r) < w => (Digit(u[i], r) <=> Digit(-1, Place0(i, r)))
  BY <1>1, OnesWord, MinusOneDigits, PlaceBelow
<1>3. gpga_wide_mask(u, w) \in Wide(w) /\ WideNum(gpga_wide_mask(u, w)) = (-1) % 2^w
  BY <1>1, <1>2, -1 \in Int, MaskedIs
<1> DEFINE p == 2^w
<1>4. p \in Nat /\ p > 0
  BY TwoPositive
<1>5. (-1) % p = p - 1
  <2> HIDE DEF p
  <2>1. -1 = p * (-1) + (p - 1) /\ p - 1 \in Nat /\ p - 1 < p
    BY <1>4
  <2> QED
    BY <1>4, <2>1, -1 \in Int, DivisionIs
<1> QED
  BY <1>3, <1>5

LEMMA MaskConstIs ==
  ASSUME NEW w \in Nat \ {0}
  PROVE  gpga_wide_mask_const(w) \in Wide(w) /\ WideNum(gpga_wide_mask_const(w)) = 2^w - 1
<1> DEFINE u == Each(w, LAMBDA i: Ones)
<1>1. u = [i \in 1..Words(w) |-> Ones]
  BY DEF Each
<1> HIDE DEF u
<1> QED
  BY <1>1, AllOnesIs DEF gpga_wide_mask_const, u

\* One word for the lowest of a value.
LEMMA FromWordIs ==
  ASSUME NEW w \in Nat \ {0}, NEW x \in 0..Ones
  PROVE  /\ gpga_wide_from_u64(x, w) \in Two(w)
         /\ \A i \in 1..Words(w) : \A r \in 0..(LimbBits - 1) :
               Digit(gpga_wide_from_u64(x, w)[i], r) <=> Digit(x, Place0(i, r))
<1> DEFINE K == Words(w)  u == gpga_wide_from_u64(x, w)  z == gpga_wide_zero(w)
<1>1. K \in Nat /\ 1 \in 1..K
  BY WidthFacts
<1>2. z \in [1..K -> 0..Ones] /\ \A i \in 1..K : z[i] = 0
  BY ZeroIs, WideFacts, TwoWords
<1>3. u = [z EXCEPT ![1] = x]
  BY DEF gpga_wide_from_u64
<1>4. u \in Two(w)
  BY <1>1, <1>2, <1>3 DEF Two
<1>5. u[1] = x /\ \A i \in 1..K : i # 1 => u[i] = 0
  BY <1>1, <1>2, <1>3
<1> HIDE DEF u, z
<1>6. ASSUME NEW i \in 1..K, NEW r \in 0..(LimbBits - 1)
      PROVE  Digit(u[i], r) <=> Digit(x, Place0(i, r))
  <2>1. i \in Nat \ {0} /\ r \in Nat
    BY WordFacts
  <2>2. CASE i = 1
    <3>1. Place0(1, r) = LimbBits * (1 - 1) + r
      BY DEF Place0
    <3>2. Place0(1, r) = r
      BY <2>1, <3>1, WordFacts
    <3> QED
      BY <1>5, <2>2, <3>2
  <2>3. CASE i # 1
    <3>1. ~(i <= 1)
      BY <2>1, <2>3
    <3>2. ~(Place0(i, r) < LimbBits * 1) /\ Place0(i, r) \in Nat
      BY <2>1, <3>1, 1 \in Nat, PlaceFacts
    <3>3. LimbBits <= Place0(i, r) /\ x \in Nat /\ x < 2^LimbBits
      BY <3>2, WordFacts
    <3>4. ~Digit(x, Place0(i, r))
      BY <3>2, <3>3, WordFacts, NoDigitBeyond
    <3> QED
      BY <1>5, <2>1, <2>3, <3>4, ZeroWord
  <2> QED
    BY <2>2, <2>3
<1> QED
  BY <1>4, <1>6 DEF u

LEMMA OneIs ==
  ASSUME NEW w \in Nat \ {0}
  PROVE  gpga_wide_from_u64(1, w) \in Wide(w) /\ WideNum(gpga_wide_from_u64(1, w)) = 1 % 2^w
<1> DEFINE u == gpga_wide_from_u64(1, w)  K == Words(w)
<1>1. 1 \in 0..Ones /\ 1 \in Int /\ K \in 1..K /\ K \in Nat \ {0}
  BY WordFacts, WidthFacts
<1>2. /\ u \in Two(w)
      /\ \A i \in 1..K : \A r \in 0..(LimbBits - 1) : Digit(u[i], r) <=> Digit(1, Place0(i, r))
  BY <1>1, FromWordIs
<1> HIDE DEF u
<1>3. u \in Wide(w)
  <2>1. ASSUME NEW r \in 0..(LimbBits - 1), Digit(u[K], r) PROVE Place0(K, r) < w
    <3>1. Place0(K, r) \in Nat /\ Digit(1, Place0(K, r))
      BY <1>1, <1>2, <2>1, PlaceFacts
    <3>2. ~(1 <= Place0(K, r))
      <4>1. 2^1 = 2
        OBVIOUS
      <4> QED
        BY <3>1, <4>1, 1 \in Nat, 1 < 2, NoDigitBeyond
    <3> QED
      BY <3>1, <3>2
  <2> QED
    BY <1>2, <2>1, InWide
<1>4. WideNum(u) = 1 % 2^w
  BY <1>1, <1>2, <1>3, WideIs
<1> QED
  BY <1>3, <1>4 DEF u

LEMMA GetBitIs ==
  ASSUME NEW w \in Nat \ {0}, NEW v \in Wide(w), NEW j \in 0..(w - 1)
  PROVE  /\ gpga_wide_get_bit(v, j, w) = BitOf(WideNum(v), j)
         /\ gpga_wide_get_bit(v, j, w) \in {0, 1}
         /\ gpga_wide_get_bit(v, j, w) = 1 <=> Digit(WideNum(v), j)
<1> DEFINE i == (j \div LimbBits) + 1  r == j % LimbBits  K == Words(w)
<1>1. j \in Nat /\ j < w
  OBVIOUS
<1>2. i \in Nat \ {0} /\ r \in 0..(LimbBits - 1) /\ j = Place0(i, r)
  BY <1>1, EveryBitHasAPlace
<1>3. gpga_wide_get_bit(v, j, w) = BitOf(v[i], r)
  BY <1>1 DEF gpga_wide_get_bit, ShiftRight, BitOf
<1> HIDE DEF i, r
<1>4. K \in Nat /\ w <= LimbBits * K /\ LimbBits * K \in Nat
  BY WidthFacts
<1>5. Place0(i, r) < LimbBits * K
  BY <1>1, <1>2, <1>4
<1>6. i \in 1..K
  BY <1>2, <1>4, <1>5, PlaceFacts
<1>7. Digit(WideNum(v), j) <=> Digit(v[i], r)
  BY <1>2, <1>6, WideFacts
<1>8. v[i] \in Int /\ r \in Nat /\ WideNum(v) \in Int
  BY <1>2, <1>6, WideFacts, WordFacts
<1>9. BitOf(v[i], r) \in {0, 1} /\ (BitOf(v[i], r) = 1 <=> Digit(v[i], r))
  BY <1>8, DigitIsBit
<1>10. BitOf(WideNum(v), j) \in {0, 1} /\ (BitOf(WideNum(v), j) = 1 <=> Digit(WideNum(v), j))
  BY <1>1, <1>8, DigitIsBit
<1> QED
  BY <1>3, <1>7, <1>9, <1>10

\* Two values stand for one integer only if their words are the same.
LEMMA WideInjective ==
  ASSUME NEW w \in Nat \ {0}, NEW a \in Wide(w), NEW b \in Wide(w)
  PROVE  WideNum(a) = WideNum(b) <=> \A i \in 1..Words(w) : a[i] = b[i]
<1>1. ASSUME WideNum(a) = WideNum(b), NEW i \in 1..Words(w) PROVE a[i] = b[i]
  BY <1>1, WideFacts, WordsDecided
<1>2. ASSUME \A i \in 1..Words(w) : a[i] = b[i] PROVE WideNum(a) = WideNum(b)
  <2>1. WideNum(b) \in Int /\ WideNum(b) \in Nat /\ WideNum(b) < 2^w
    BY WideFacts
  <2>2. \A i \in 1..Words(w) : \A r \in 0..(LimbBits - 1) :
           Place0(i, r) < w => (Digit(a[i], r) <=> Digit(WideNum(b), Place0(i, r)))
    BY <1>2, WideFacts
  <2>3. WideNum(a) = WideNum(b) % 2^w
    BY <2>1, <2>2, WideIs
  <2> QED
    BY <2>1, <2>3, Reduced
<1> QED
  BY <1>1, <1>2

LEMMA EqIs ==
  ASSUME NEW w \in Nat \ {0}, NEW a \in Wide(w), NEW b \in Wide(w)
  PROVE  gpga_wide_eq(a, b, w) <=> WideNum(a) = WideNum(b)
BY SeenIs, WideInjective DEF gpga_wide_eq

LEMMA AnyIs ==
  ASSUME NEW w \in Nat \ {0}, NEW a \in Wide(w)
  PROVE  gpga_wide_any(a, w) <=> WideNum(a) # 0
<1>1. gpga_wide_any(a, w) <=> \E i \in 1..Words(w) : Seen(a, i, w) # 0
  BY DEF gpga_wide_any, Seen
<1>2. /\ gpga_wide_zero(w) \in Wide(w) /\ WideNum(gpga_wide_zero(w)) = 0
      /\ \A i \in 1..Words(w) : gpga_wide_zero(w)[i] = 0
  BY ZeroIs
<1>3. WideNum(a) = 0 <=> \A i \in 1..Words(w) : a[i] = 0
  BY <1>2, WideInjective
<1> QED
  BY <1>1, <1>3, SeenIs

LEMMA RedAndIs ==
  ASSUME NEW w \in Nat \ {0}, NEW a \in Wide(w)
  PROVE  gpga_wide_red_and(a, w) <=> WideNum(a) = 2^w - 1
<1> DEFINE u == gpga_wide_mask(a, w)
<1>1. a \in Two(w) /\ WideNum(a) \in Int /\ WideNum(a) \in Nat /\ WideNum(a) < 2^w
  BY WideFacts
<1>2. \A i \in 1..Words(w) : \A r \in 0..(LimbBits - 1) :
         Place0(i, r) < w => (Digit(a[i], r) <=> Digit(WideNum(a), Place0(i, r)))
  BY WideFacts
<1>3. u \in Wide(w) /\ WideNum(u) = WideNum(a) % 2^w
  BY <1>1, <1>2, MaskedIs
<1>4. WideNum(u) = WideNum(a)
  BY <1>1, <1>3, Reduced
<1> HIDE DEF u
<1> QED
  BY <1>3, <1>4, MaskConstIs, EqIs DEF gpga_wide_red_and, u

\* Setting a bit leaves the others.
LEMMA SetBitFits ==
  ASSUME NEW w \in Nat \ {0}, NEW v \in Wide(w), NEW j \in 0..(w - 1)
  PROVE  /\ gpga_wide_set_bit(v, j, 1, w) \in Wide(w)
         /\ \A i \in 1..Words(w) : \A r \in 0..(LimbBits - 1) :
               Digit(gpga_wide_set_bit(v, j, 1, w)[i], r) <=> Digit(v[i], r) \/ Place0(i, r) = j
<1> DEFINE q == (j \div LimbBits) + 1  s == j % LimbBits  K == Words(w)
           u == gpga_wide_set_bit(v, j, 1, w)  m == WideNum(v)
<1>1. j \in Nat /\ j < w
  OBVIOUS
<1>2. q \in Nat \ {0} /\ s \in 0..(LimbBits - 1) /\ j = Place0(q, s)
  BY <1>1, EveryBitHasAPlace
<1>3. u = [v EXCEPT ![q] = v[q] | 2^s]
  BY <1>1 DEF gpga_wide_set_bit
<1> HIDE DEF q, s
<1>4. K \in Nat /\ w <= LimbBits * K /\ LimbBits * K \in Nat /\ K \in 1..K
  BY WidthFacts
<1>5. Place0(q, s) < LimbBits * K
  BY <1>1, <1>2, <1>4
<1>6. q \in 1..K
  BY <1>2, <1>4, <1>5, PlaceFacts
<1>7. v \in Two(w) /\ v \in [1..K -> 0..Ones] /\ v[q] | 2^s \in 0..Ones
  BY WideFacts, TwoWords, WordDigits
<1>8. u \in Two(w) /\ u[q] = v[q] | 2^s /\ \A i \in 1..K : i # q => u[i] = v[i]
  BY <1>3, <1>6, <1>7 DEF Two
<1> HIDE DEF u
<1>9. ASSUME NEW r \in 0..(LimbBits - 1) PROVE Digit(2^s, r) <=> r = s
  <2>1. s \in Nat /\ r \in Nat
    BY <1>2
  <2>2. 2^s = 1 * 2^s
    BY <2>1, TwoPositive
  <2>3. Digit(1 * 2^s, r) <=> r >= s /\ Digit(1, r - s)
    BY <2>1, 1 \in Int, MultipleDigits
  <2>4. r >= s => (Digit(1, r - s) <=> r - s = 0)
    <3>1. 2^1 = 2 /\ 2^0 = 1
      OBVIOUS
    <3>2. Digit(1, 0)
      BY 0 \in Nat, 1 \in Nat, <3>1, 2^1 - 1 = 1, 0 < 1, OnesDigits
    <3>3. \A i \in Nat : 1 <= i => ~Digit(1, i)
      BY <3>1, 1 \in Nat, 1 < 2, NoDigitBeyond
    <3>4. r >= s => r - s \in Nat
      BY <2>1
    <3> QED
      BY <3>2, <3>3, <3>4
  <2> QED
    BY <2>1, <2>2, <2>3, <2>4
<1>10. m \in Nat /\ m < 2^w
  BY WideFacts
<1>11. ASSUME NEW i \in 1..K, NEW r \in 0..(LimbBits - 1)
       PROVE  Digit(u[i], r) <=> Digit(v[i], r) \/ Place0(i, r) = j
  <2>1. Place0(i, r) = j <=> i = q /\ r = s
    BY <1>2, <1>6, OnePlace
  <2>2. CASE i = q
    BY <1>8, <1>9, <2>1, <2>2, WordDigits
  <2>3. CASE i # q
    BY <1>8, <2>1, <2>3
  <2> QED
    BY <2>2, <2>3
<1>12. \A i \in 1..K : \A r \in 0..(LimbBits - 1) :
          Digit(v[i], r) <=> Digit(m, Place0(i, r))
  BY WideFacts
<1>13. u \in Wide(w)
  <2>1. ASSUME NEW r \in 0..(LimbBits - 1), Digit(u[K], r) PROVE Place0(K, r) < w
    <3>1. Place0(K, r) \in Nat
      BY <1>4, PlaceBelow
    <3>2. CASE Place0(K, r) = j
      BY <1>1, <3>2
    <3>3. CASE Digit(m, Place0(K, r))
      <4>1. ~(w <= Place0(K, r))
        BY <1>10, <3>1, <3>3, NoDigitBeyond
      <4> QED
        BY <3>1, <4>1
    <3> QED
      BY <1>4, <1>11, <1>12, <2>1, <3>2, <3>3
  <2> QED
    BY <1>8, <2>1, InWide
<1> QED
  BY <1>11, <1>13 DEF u

\* Setting a bit that is zero adds its power of two.
LEMMA SetBitIs ==
  ASSUME NEW w \in Nat \ {0}, NEW v \in Wide(w), NEW j \in 0..(w - 1), ~Digit(WideNum(v), j)
  PROVE  WideNum(gpga_wide_set_bit(v, j, 1, w)) = WideNum(v) + 2^j
<1> DEFINE K == Words(w)  u == gpga_wide_set_bit(v, j, 1, w)  m == WideNum(v)  n == m + 2^j
<1>1. j \in Nat /\ j < w
  OBVIOUS
<1>2. m \in Nat /\ m < 2^w /\ n \in Int
  BY <1>1, WideFacts, TwoPositive
<1>3. /\ u \in Wide(w)
      /\ \A i \in 1..K : \A r \in 0..(LimbBits - 1) :
            Digit(u[i], r) <=> Digit(v[i], r) \/ Place0(i, r) = j
  BY SetBitFits
<1> HIDE DEF u
<1>4. \A i \in 1..K : \A r \in 0..(LimbBits - 1) :
         Digit(v[i], r) <=> Digit(m, Place0(i, r))
  BY WideFacts
<1>5. \A i \in 1..K : \A r \in 0..(LimbBits - 1) :
         Digit(n, Place0(i, r)) <=> Place0(i, r) = j \/ Digit(m, Place0(i, r))
  BY <1>2, PlaceBelow, AddedDigit
<1>6. WideNum(u) = n % 2^w
  BY <1>2, <1>3, <1>4, <1>5, WideIs
<1>7. n \in Nat /\ n < 2^w
  <2>1. n \in Nat
    BY <1>2, TwoPositive
  <2>2. \A i \in Nat : Digit(n, i) => i < w
    <3> SUFFICES ASSUME NEW i \in Nat, Digit(n, i) PROVE i < w
      OBVIOUS
    <3>1. i = j \/ Digit(m, i)
      BY <1>2, AddedDigit
    <3>2. w <= i => ~Digit(m, i)
      BY <1>2, NoDigitBeyond
    <3> QED
      BY <1>1, <3>1, <3>2
  <2>3. n < 2^(w + 1)
    <3>1. 2^j <= 2^w /\ 2^(w + 1) = 2 * 2^w
      BY <1>1, TwoGrows, TwoTimes
    <3> QED
      BY <1>1, <1>2, <3>1, TwoPositive
  <2> QED
    BY <2>1, <2>2, <2>3, w + 1 \in Nat, NoDigitsAbove
<1>8. WideNum(u) = n
  BY <1>6, <1>7, Reduced
<1> QED
  BY <1>8 DEF u

-----------------------------------------------------------------------------
(* Shifts.                                                                 *)

\* A number below a power of two has no bit in the words above.
LEMMA NoWordAbove ==
  ASSUME NEW w \in Nat \ {0}, NEW a \in Wide(w), NEW i \in Nat \ {0}, i > Words(w),
         NEW r \in 0..(LimbBits - 1)
  PROVE  ~Digit(WideNum(a), Place0(i, r))
<1>1. Words(w) \in Nat /\ w <= LimbBits * Words(w) /\ LimbBits * Words(w) \in Nat
  BY WidthFacts
<1>2. Place0(i, r) \in Nat /\ ~(Place0(i, r) < LimbBits * Words(w))
  BY <1>1, PlaceFacts
<1>3. w <= Place0(i, r)
  BY <1>1, <1>2
<1> QED
  BY <1>2, <1>3, WideFacts, NoDigitBeyond

\* A shift count, in words and bits.
LEMMA ShiftSplit ==
  ASSUME NEW shift \in Nat
  PROVE  /\ shift \div LimbBits \in Nat /\ shift % LimbBits \in 0..(LimbBits - 1)
         /\ shift % LimbBits \in Nat
         /\ shift = LimbBits * (shift \div LimbBits) + (shift % LimbBits)
<1> DEFINE q == shift \div LimbBits  r == shift % LimbBits
<1>1. q + 1 \in Nat \ {0} /\ r \in 0..(LimbBits - 1) /\ shift = Place0(q + 1, r)
  BY EveryBitHasAPlace
<1>2. LimbBits \in Nat /\ LimbBits > 0
  BY WordFacts
<1>3. q \in Int
  BY <1>2, shift \in Int, DivisionBy
<1>4. shift = LimbBits * ((q + 1) - 1) + r
  BY <1>1 DEF Place0
<1> HIDE DEF q, r
<1>5. q \in Nat /\ (q + 1) - 1 = q
  BY <1>1, <1>3
<1> QED
  BY <1>1, <1>4, <1>5 DEF q, r

\* Word i of a value shifted to the left.
ShlWord(a, words, bits, i) ==
    LET src == i - words
        low == IF bits # 0 /\ src > 0 THEN ShiftRight(a[src], LimbBits - bits) ELSE 0
    IN  IF src < 0 THEN 0 ELSE ShiftLeft(a[src + 1], bits) | low

LEMMA ShlWordDigits ==
  ASSUME NEW w \in Nat \ {0}, NEW a \in Wide(w), NEW words \in Nat,
         NEW bits \in 0..(LimbBits - 1), NEW i \in 1..Words(w), NEW r \in 0..(LimbBits - 1)
  PROVE  LET j == Place0(i, r)
             n == LimbBits * words + bits
         IN  /\ ShlWord(a, words, bits, i - 1) \in 0..Ones
             /\ Digit(ShlWord(a, words, bits, i - 1), r) <=> j >= n /\ Digit(WideNum(a), j - n)
<1> DEFINE j == Place0(i, r)  n == LimbBits * words + bits  src == (i - 1) - words
           low == IF bits # 0 /\ src > 0 THEN ShiftRight(a[src], LimbBits - bits) ELSE 0
           L == LimbBits  K == Words(w)
           x == ShlWord(a, words, bits, i - 1)
<1>1. /\ L \in Nat /\ L >= 2 /\ K \in Nat /\ r \in Nat /\ r < L /\ bits \in Nat /\ bits < L
      /\ i \in Nat \ {0} /\ i <= K
  BY WordFacts, WidthFacts
<1>2. src \in Int /\ src < K
  BY <1>1
<1>3. x = IF src < 0 THEN 0 ELSE ShiftLeft(a[src + 1], bits) | low
  BY DEF ShlWord
<1>4. n \in Nat /\ L * words \in Nat
  BY <1>1
<1>5. j = L * (i - 1) + r /\ j \in Nat
  BY PlaceFacts DEF Place0
<1>6. L * (i - 1) = L * words + L * src /\ L * (i - 1) \in Nat /\ L * src \in Int
  BY <1>1
<1> DEFINE d == L * src
<1>7. j - n = d + r - bits /\ d \in Int
  BY <1>1, <1>4, <1>5, <1>6
<1>8. src < 0 => d <= -L
  <2> SUFFICES ASSUME src < 0 PROVE d <= -L
    OBVIOUS
  <2>1. src <= -1
    BY <1>2
  <2>2. L * src <= L * (-1)
    BY <1>1, <1>2, <2>1
  <2> QED
    BY <1>1, <2>2
<1>9. src > 0 => d >= L
  <2> SUFFICES ASSUME src > 0 PROVE d >= L
    OBVIOUS
  <2>1. src >= 1
    BY <1>2
  <2>2. L * src >= L * 1
    BY <1>1, <1>2, <2>1
  <2> QED
    BY <1>1, <2>2
<1>10. src = 0 => d = 0
  BY <1>1
<1>11. CASE src < 0
  <2>1. ~(j >= n)
    <3> HIDE DEF d, j, n, src
    <3> QED
      BY <1>1, <1>4, <1>5, <1>7, <1>8, <1>11
  <2> QED
    BY <1>1, <1>3, <1>11, <2>1, ZeroWord, WordFacts
<1>12. CASE src >= 0
  <2>1. src + 1 \in 1..K /\ src + 1 \in Nat \ {0} /\ a[src + 1] \in 0..Ones /\ a[src + 1] \in Nat
    <3>1. src + 1 \in 1..K
      BY <1>1, <1>2, <1>12
    <3> HIDE DEF src
    <3> QED
      BY <3>1, WideFacts, WordFacts
  <2>2. x = ShiftLeft(a[src + 1], bits) | low
    BY <1>2, <1>3, <1>12
  <2>3. x \in 0..Ones /\ (Digit(x, r) <=> Digit(ShiftLeft(a[src + 1], bits), r) \/ Digit(low, r))
    <3> HIDE DEF src, low, x
    <3> QED
      BY <2>2, WordDigits
  <2>4. Digit(ShiftLeft(a[src + 1], bits), r) <=> r >= bits /\ Digit(a[src + 1], r - bits)
    <3> HIDE DEF src
    <3> QED
      BY <1>1, <2>1, ShiftLeftDigits
  <2>5. Digit(low, r) <=> src > 0 /\ r < bits /\ Digit(a[src], L - bits + r)
    <3>1. CASE bits # 0 /\ src > 0
      <4>1. src \in 1..K /\ a[src] \in 0..Ones /\ L - bits \in Nat
        <5>1. src \in 1..K /\ L - bits \in Nat
          BY <1>1, <1>2, <3>1
        <5> HIDE DEF src
        <5> QED
          BY <5>1, WideFacts
      <4>2. Digit(low, r) <=> Digit(a[src], (L - bits) + r)
        <5>1. low = ShiftRight(a[src], L - bits)
          BY <3>1
        <5> HIDE DEF src, low
        <5> QED
          BY <1>1, <4>1, <5>1, ShiftRightDigits
      <4>3. ~(r < bits) => ~Digit(a[src], (L - bits) + r)
        <5> SUFFICES ASSUME ~(r < bits) PROVE ~Digit(a[src], (L - bits) + r)
          OBVIOUS
        <5>1. L <= (L - bits) + r /\ (L - bits) + r \in Nat
          BY <1>1
        <5>2. a[src] \in Nat /\ a[src] < 2^L
          BY <4>1, WordFacts
        <5> HIDE DEF src
        <5> QED
          BY <1>1, <5>1, <5>2, NoDigitBeyond
      <4>4. (L - bits) + r = L - bits + r
        BY <1>1
      <4> QED
        BY <3>1, <4>2, <4>3, <4>4
    <3>2. CASE ~(bits # 0 /\ src > 0)
      <4>1. low = 0
        BY <3>2
      <4>2. ~(src > 0 /\ r < bits)
        BY <1>1, <3>2
      <4> HIDE DEF low, src
      <4> QED
        BY <1>1, <4>1, <4>2, ZeroWord
    <3> QED
      BY <3>1, <3>2
  <2>6. CASE r >= bits
    <3>1. r - bits \in 0..(L - 1)
      BY <1>1, <2>6
    <3>2. Place0(src + 1, r - bits) = L * ((src + 1) - 1) + (r - bits)
      BY DEF Place0
    <3>3. (src + 1) - 1 = src
      BY <1>2
    <3>4. Place0(src + 1, r - bits) = d + (r - bits)
      BY <3>2, <3>3
    <3>5. j - n = Place0(src + 1, r - bits) /\ j >= n
      <4> HIDE DEF d, j, n, src
      <4> QED
        BY <1>1, <1>2, <1>4, <1>5, <1>7, <1>9, <1>10, <1>12, <2>6, <3>4
    <3>6. Digit(WideNum(a), Place0(src + 1, r - bits)) <=> Digit(a[src + 1], r - bits)
      <4> HIDE DEF src
      <4> QED
        BY <2>1, <3>1, WideFacts
    <3> QED
      BY <1>1, <2>3, <2>4, <2>5, <2>6, <3>5, <3>6
  <2>7. CASE ~(r >= bits)
    <3>1. CASE src > 0
      <4>1. L - bits + r \in 0..(L - 1) /\ src \in 1..K
        BY <1>1, <1>2, <2>7, <3>1
      <4>2. Place0(src, L - bits + r) = L * (src - 1) + (L - bits + r)
        BY DEF Place0
      <4>3. L * (src - 1) = d - L
        BY <1>1, <1>2
      <4>5. j - n = Place0(src, L - bits + r) /\ j >= n
        <5> HIDE DEF d, j, n, src
        <5> QED
          BY <1>1, <1>2, <1>4, <1>5, <1>7, <1>9, <3>1, <4>2, <4>3
      <4>6. Digit(WideNum(a), Place0(src, L - bits + r)) <=> Digit(a[src], L - bits + r)
        <5> HIDE DEF src
        <5> QED
          BY <4>1, WideFacts
      <4> QED
        BY <1>1, <2>3, <2>4, <2>5, <2>7, <3>1, <4>5, <4>6
    <3>2. CASE ~(src > 0)
      <4>1. src = 0
        BY <1>2, <1>12, <3>2
      <4>2. ~(j >= n)
        <5> HIDE DEF d, j, n, src
        <5> QED
          BY <1>1, <1>4, <1>5, <1>7, <1>10, <2>7, <4>1
      <4> QED
        BY <2>3, <2>4, <2>5, <2>7, <3>2, <4>2
    <3> QED
      BY <3>1, <3>2
  <2> QED
    BY <2>3, <2>6, <2>7
<1> QED
  BY <1>2, <1>11, <1>12

\* A shift to the left multiplies by a power of two.
LEMMA ShlIs ==
  ASSUME NEW w \in Nat \ {0}, NEW a \in Wide(w), NEW shift \in Nat
  PROVE  /\ gpga_wide_shl(a, shift, w) \in Wide(w)
         /\ WideNum(gpga_wide_shl(a, shift, w)) = (WideNum(a) * 2^shift) % 2^w
<1> DEFINE words == shift \div LimbBits  bits == shift % LimbBits  K == Words(w)
           u == [i \in 1..K |-> ShlWord(a, words, bits, i - 1)]
           m == WideNum(a)  n == m * 2^shift
<1>1. gpga_wide_shl(a, shift, w) = IF shift >= w THEN gpga_wide_zero(w) ELSE gpga_wide_mask(u, w)
  BY DEF gpga_wide_shl, Each, ShlWord
<1>2. /\ words \in Nat /\ bits \in 0..(LimbBits - 1)
      /\ LimbBits * words + bits = shift
  BY ShiftSplit
<1> HIDE DEF words, bits
<1>3. m \in Nat /\ m < 2^w /\ m \in Int /\ 2^shift \in Nat
  BY WideFacts, TwoPositive
<1>4. n \in Int
  BY <1>3
<1>5. CASE shift >= w
  <2>1. 2^shift = 2^w * 2^(shift - w) /\ shift - w \in Nat
    BY <1>5, TwoGrows
  <2> DEFINE p == 2^w  e == 2^(shift - w)
  <2>2. p \in Nat /\ p > 0 /\ e \in Nat
    BY <2>1, TwoPositive
  <2>3. n % p = 0
    <3> DEFINE k == m * e
    <3> HIDE DEF p, e, m
    <3>1. k \in Int
      BY <1>3, <2>2
    <3>2. n = p * k + 0
      BY <1>3, <2>1, <2>2 DEF p, e
    <3> HIDE DEF k, n
    <3> QED
      BY <1>4, <2>2, <3>1, <3>2, 0 \in Nat, DivisionIs
  <2> QED
    BY <1>1, <1>5, <2>3, ZeroIs
<1>6. CASE ~(shift >= w)
  <2>1. \A i \in 1..K : u[i] = ShlWord(a, words, bits, i - 1)
    OBVIOUS
  <2>2. \A i \in 1..K : ShlWord(a, words, bits, i - 1) \in 0..Ones
    BY <1>2, WordFacts, 0 \in 0..(LimbBits - 1), ShlWordDigits
  <2>3. u \in Two(w)
    BY <2>2 DEF Two
  <2> HIDE DEF u
  <2>4. ASSUME NEW i \in 1..K, NEW r \in 0..(LimbBits - 1)
        PROVE  Digit(u[i], r) <=> Digit(n, Place0(i, r))
    <3>1. Digit(u[i], r) <=> Place0(i, r) >= shift /\ Digit(m, Place0(i, r) - shift)
      BY <1>2, <2>1, ShlWordDigits
    <3>2. Digit(n, Place0(i, r)) <=> Place0(i, r) >= shift /\ Digit(m, Place0(i, r) - shift)
      BY <1>3, PlaceBelow, MultipleDigits
    <3> QED
      BY <3>1, <3>2
  <2>5. gpga_wide_mask(u, w) \in Wide(w) /\ WideNum(gpga_wide_mask(u, w)) = n % 2^w
    BY <1>4, <2>3, <2>4, MaskedIs
  <2> QED
    BY <1>1, <1>6, <2>5
<1> QED
  BY <1>5, <1>6

\* Word i of a value shifted to the right.
ShrWord(a, words, bits, K, i) ==
    LET src == i + words
        high == IF bits # 0 /\ src + 1 < K THEN ShiftLeft(a[src + 2], LimbBits - bits) ELSE 0
    IN  IF src >= K THEN 0 ELSE ShiftRight(a[src + 1], bits) | high

LEMMA ShrWordDigits ==
  ASSUME NEW w \in Nat \ {0}, NEW a \in Wide(w), NEW words \in Nat,
         NEW bits \in 0..(LimbBits - 1), NEW i \in 1..Words(w), NEW r \in 0..(LimbBits - 1)
  PROVE  LET x == ShrWord(a, words, bits, Words(w), i - 1)
         IN  /\ x \in 0..Ones
             /\ Digit(x, r) <=> Digit(WideNum(a), (LimbBits * words + bits) + Place0(i, r))
<1> DEFINE n == LimbBits * words + bits  src == (i - 1) + words  L == LimbBits  K == Words(w)
           high == IF bits # 0 /\ src + 1 < K THEN ShiftLeft(a[src + 2], L - bits) ELSE 0
           x == ShrWord(a, words, bits, K, i - 1)
           m == WideNum(a)
<1>1. /\ L \in Nat /\ L >= 2 /\ K \in Nat /\ r \in Nat /\ r < L /\ bits \in Nat /\ bits < L
      /\ i \in Nat \ {0} /\ i <= K /\ src \in Nat
  BY WordFacts, WidthFacts
<1>2. x = IF src >= K THEN 0 ELSE ShiftRight(a[src + 1], bits) | high
  BY DEF ShrWord
<1>3. L * src = L * (i - 1) + L * words /\ L * (i - 1) \in Nat /\ L * words \in Nat
      /\ L * src \in Nat
  BY <1>1
<1> DEFINE d == L * src
<1>4. n + Place0(i, r) = d + (bits + r) /\ d \in Nat
  BY <1>1, <1>3 DEF Place0
<1>5. Place0(src + 1, bits + r) = d + (bits + r)
  <2>1. Place0(src + 1, bits + r) = L * ((src + 1) - 1) + (bits + r)
    BY DEF Place0
  <2>2. (src + 1) - 1 = src
    BY <1>1
  <2> QED
    BY <2>1, <2>2
<1>6. Place0(src + 2, bits + r - L) = d + (bits + r)
  <2>1. Place0(src + 2, bits + r - L) = L * ((src + 2) - 1) + (bits + r - L)
    BY DEF Place0
  <2>2. L * ((src + 2) - 1) = L * src + L
    BY <1>1
  <2> HIDE DEF src
  <2> QED
    BY <1>1, <1>3, <2>1, <2>2
<1>7. src + 1 \in Nat \ {0} /\ src + 2 \in Nat \ {0}
  BY <1>1
<1>8. CASE src >= K
  <2>1. ~Digit(m, d + (bits + r))
    <3>1. CASE bits + r < L
      <4>1. bits + r \in 0..(L - 1) /\ src + 1 > K
        BY <1>1, <1>8, <3>1
      <4> HIDE DEF src, d, m
      <4> QED
        BY <1>5, <1>7, <4>1, NoWordAbove DEF m
    <3>2. CASE ~(bits + r < L)
      <4>1. bits + r - L \in 0..(L - 1) /\ src + 2 > K
        BY <1>1, <1>8, <3>2
      <4> HIDE DEF src, d, m
      <4> QED
        BY <1>6, <1>7, <4>1, NoWordAbove DEF m
    <3> QED
      BY <3>1, <3>2
  <2> QED
    BY <1>1, <1>2, <1>4, <1>8, <2>1, ZeroWord, WordFacts
<1>9. CASE src < K
  <2>1. src + 1 \in 1..K /\ a[src + 1] \in 0..Ones
    <3>1. src + 1 \in 1..K
      BY <1>1, <1>9
    <3> HIDE DEF src
    <3> QED
      BY <3>1, WideFacts
  <2>2. x = ShiftRight(a[src + 1], bits) | high
    BY <1>1, <1>2, <1>9
  <2>3. /\ x \in 0..Ones
        /\ Digit(x, r) <=> Digit(ShiftRight(a[src + 1], bits), r) \/ Digit(high, r)
    <3> HIDE DEF src, high, x
    <3> QED
      BY <2>2, WordDigits
  <2>4. Digit(ShiftRight(a[src + 1], bits), r) <=> Digit(a[src + 1], bits + r)
    <3> HIDE DEF src
    <3> QED
      BY <1>1, <2>1, ShiftRightDigits
  <2>5. Digit(high, r)
        <=> bits # 0 /\ src + 1 < K /\ r >= L - bits /\ Digit(a[src + 2], r - (L - bits))
    <3>1. CASE bits # 0 /\ src + 1 < K
      <4>1. src + 2 \in 1..K /\ L - bits \in Nat
        BY <1>1, <3>1
      <4>2. a[src + 2] \in Nat
        <5> HIDE DEF src
        <5> QED
          BY <4>1, WideFacts, WordFacts
      <4>3. high = ShiftLeft(a[src + 2], L - bits)
        BY <3>1
      <4> HIDE DEF src, high
      <4> QED
        BY <1>1, <3>1, <4>1, <4>2, <4>3, ShiftLeftDigits
    <3>2. CASE ~(bits # 0 /\ src + 1 < K)
      <4>1. high = 0
        BY <3>2
      <4> HIDE DEF high, src
      <4> QED
        BY <1>1, <3>2, <4>1, ZeroWord
    <3> QED
      BY <3>1, <3>2
  <2>6. CASE bits + r < L
    <3>1. bits + r \in 0..(L - 1) /\ ~(r >= L - bits)
      BY <1>1, <2>6
    <3>2. Digit(m, Place0(src + 1, bits + r)) <=> Digit(a[src + 1], bits + r)
      <4> HIDE DEF src
      <4> QED
        BY <2>1, <3>1, WideFacts
    <3> HIDE DEF src, d, high, m, x
    <3> QED
      BY <1>4, <1>5, <2>3, <2>4, <2>5, <3>1, <3>2 DEF x, m
  <2>7. CASE ~(bits + r < L)
    <3>1. bits + r - L \in 0..(L - 1) /\ bits # 0 /\ r >= L - bits
          /\ r - (L - bits) = bits + r - L
      BY <1>1, <2>7
    <3>2. ~Digit(a[src + 1], bits + r)
      <4>1. L <= bits + r /\ bits + r \in Nat
        BY <1>1, <2>7
      <4>2. a[src + 1] \in Nat /\ a[src + 1] < 2^L
        BY <2>1, WordFacts
      <4> HIDE DEF src
      <4> QED
        BY <1>1, <4>1, <4>2, NoDigitBeyond
    <3>3. CASE src + 1 < K
      <4>1. src + 2 \in 1..K
        BY <1>1, <3>3
      <4>2. Digit(m, Place0(src + 2, bits + r - L)) <=> Digit(a[src + 2], bits + r - L)
        <5> HIDE DEF src
        <5> QED
          BY <3>1, <4>1, WideFacts
      <4> HIDE DEF src, d, high, m, x
      <4> QED
        BY <1>4, <1>6, <2>3, <2>4, <2>5, <3>1, <3>2, <3>3, <4>2 DEF x, m
    <3>4. CASE ~(src + 1 < K)
      <4>1. src + 2 > K
        BY <1>1, <3>4
      <4>2. ~Digit(m, Place0(src + 2, bits + r - L))
        <5> HIDE DEF src
        <5> QED
          BY <1>7, <3>1, <4>1, NoWordAbove
      <4> HIDE DEF src, d, high, m, x
      <4> QED
        BY <1>4, <1>6, <2>3, <2>4, <2>5, <3>2, <3>4, <4>2 DEF x, m
    <3> QED
      BY <3>3, <3>4
  <2> QED
    BY <2>3, <2>6, <2>7
<1> QED
  BY <1>1, <1>8, <1>9

LEMMA QuotientBelow ==
  ASSUME NEW m \in Nat, NEW p \in Nat, p > 0
  PROVE  m \div p \in Nat /\ m \div p <= m
<1> DEFINE q == m \div p  r == m % p
<1>1. q \in Int /\ r \in Nat /\ r < p /\ m = p * q + r
  BY m \in Int, DivisionBy
<1> HIDE DEF q, r
<1>2. q >= 0
  <2> SUFFICES ASSUME q <= -1 PROVE FALSE
    BY <1>1
  <2>1. p * q <= p * (-1)
    BY <1>1
  <2> QED
    BY <1>1, <2>1
<1>3. q <= p * q
  BY <1>1, <1>2
<1> QED
  BY <1>1, <1>2, <1>3 DEF q

\* A shift to the right divides by a power of two.
LEMMA ShrIs ==
  ASSUME NEW w \in Nat \ {0}, NEW a \in Wide(w), NEW shift \in Nat
  PROVE  /\ gpga_wide_shr(a, shift, w) \in Wide(w)
         /\ WideNum(gpga_wide_shr(a, shift, w)) = WideNum(a) \div 2^shift
<1> DEFINE words == shift \div LimbBits  bits == shift % LimbBits  K == Words(w)
           u == [i \in 1..K |-> ShrWord(a, words, bits, K, i - 1)]
           m == WideNum(a)  n == m \div 2^shift
<1>1. gpga_wide_shr(a, shift, w) = IF shift >= w THEN gpga_wide_zero(w) ELSE gpga_wide_mask(u, w)
  BY DEF gpga_wide_shr, Each, ShrWord
<1>2. /\ words \in Nat /\ bits \in 0..(LimbBits - 1)
      /\ LimbBits * words + bits = shift
  BY ShiftSplit
<1> HIDE DEF words, bits
<1>3. m \in Nat /\ m < 2^w /\ m \in Int /\ 2^shift \in Nat /\ 2^shift > 0 /\ 2^w \in Nat
  BY WideFacts, TwoPositive
<1>4. n \in Nat /\ n < 2^w /\ n \in Int
  BY <1>3, QuotientBelow
<1>5. CASE shift >= w
  <2>1. 2^w <= 2^shift
    BY <1>5, TwoGrows
  <2>2. n = 0
    BY <1>3, <2>1, Remaining
  <2> QED
    BY <1>1, <1>5, <2>2, ZeroIs
<1>6. CASE ~(shift >= w)
  <2>1. \A i \in 1..K : u[i] = ShrWord(a, words, bits, K, i - 1)
    OBVIOUS
  <2>2. \A i \in 1..K : ShrWord(a, words, bits, K, i - 1) \in 0..Ones
    BY <1>2, WordFacts, 0 \in 0..(LimbBits - 1), ShrWordDigits
  <2>3. u \in Two(w)
    BY <2>2 DEF Two
  <2> HIDE DEF u
  <2>4. ASSUME NEW i \in 1..K, NEW r \in 0..(LimbBits - 1)
        PROVE  Digit(u[i], r) <=> Digit(n, Place0(i, r))
    <3>1. Digit(u[i], r) <=> Digit(m, shift + Place0(i, r))
      BY <1>2, <2>1, ShrWordDigits
    <3>2. Digit(n, Place0(i, r)) <=> Digit(m, shift + Place0(i, r))
      BY <1>3, PlaceBelow, DigitOfQuotient
    <3> QED
      BY <3>1, <3>2
  <2>5. gpga_wide_mask(u, w) \in Wide(w) /\ WideNum(gpga_wide_mask(u, w)) = n % 2^w
    BY <1>4, <2>3, <2>4, MaskedIs
  <2> QED
    BY <1>1, <1>4, <1>6, <2>5, Reduced
<1> QED
  BY <1>5, <1>6

-----------------------------------------------------------------------------
(* Two's complement, and extensions.                                       *)

\* The sign bit, and the bits of the signed number: those of the value, then the sign.
LEMMA SignedFacts ==
  ASSUME NEW w \in Nat \ {0}, NEW a \in Wide(w)
  PROVE  /\ w - 1 \in 0..(w - 1)
         /\ gpga_wide_signbit(a, w) = BitOf(WideNum(a), w - 1)
               /\ gpga_wide_signbit(a, w) \in {0, 1}
         /\ gpga_wide_signbit(a, w) = 1 <=> Digit(WideNum(a), w - 1)
         /\ gpga_wide_signbit(a, w) = 1 <=> WideNum(a) >= 2^(w - 1)
         /\ WideSigned(a, w) = WideNum(a) - 2^w * gpga_wide_signbit(a, w)
         /\ WideSigned(a, w) \in Int
<1> DEFINE m == WideNum(a)  s == gpga_wide_signbit(a, w)  p == 2^(w - 1)
<1>1. w - 1 \in Nat /\ (w - 1) + 1 = w /\ w - 1 \in 0..(w - 1)
  OBVIOUS
<1>2. s = BitOf(m, w - 1) /\ s \in {0, 1} /\ (s = 1 <=> Digit(m, w - 1))
  BY <1>1, GetBitIs DEF gpga_wide_signbit
<1>3. p \in Nat /\ p > 0 /\ 2^w = 2 * p
  <2>1. 2^((w - 1) + 1) = 2 * p
    BY <1>1, TwoTimes
  <2> QED
    BY <1>1, <2>1, TwoPositive
<1>4. m \in Nat /\ m < 2^w
  BY WideFacts
<1>5. Digit(m, w - 1) <=> m >= p
  <2>1. m < p => ~Digit(m, w - 1)
    BY <1>1, <1>4, NoDigitBeyond
  <2>2. ASSUME m >= p PROVE Digit(m, w - 1)
    <3>1. m \div p = 1
      <4> HIDE DEF m, p
      <4>1. m = p * 1 + (m - p) /\ m - p \in Nat /\ m - p < p
        BY <1>3, <1>4, <2>2
      <4> QED
        BY <1>3, <1>4, <4>1, m \in Int, 1 \in Int, DivisionIs
    <3> QED
      BY <3>1, 1 % 2 = 1 DEF Digit
  <2> QED
    BY <1>3, <1>4, <2>1, <2>2
<1>6. WideSigned(a, w) = m - 2^w * s
  <2>1. WideSigned(a, w) = IF m >= p THEN m - 2^w ELSE m
    BY DEF WideSigned
  <2> HIDE DEF m, s, p
  <2> QED
    BY <1>2, <1>3, <1>4, <1>5, <2>1
<1> HIDE DEF m, s, p
<1>7. m - 2^w * s \in Int
  BY <1>2, <1>3, <1>4
<1> QED
  BY <1>1, <1>2, <1>5, <1>6, <1>7 DEF m, s, p

LEMMA SignedDigits ==
  ASSUME NEW w \in Nat \ {0}, NEW a \in Wide(w), NEW j \in Nat
  PROVE  Digit(WideSigned(a, w), j)
           <=> IF j < w THEN Digit(WideNum(a), j) ELSE gpga_wide_signbit(a, w) = 1
<1> DEFINE m == WideNum(a)  s == gpga_wide_signbit(a, w)  n == WideSigned(a, w)  p == 2^w
<1>1. n = m - p * s /\ s \in {0, 1} /\ n \in Int
  BY SignedFacts
<1>2. m \in Nat /\ m < p /\ p \in Nat /\ p > 0 /\ m \in Int
  BY WideFacts
<1>3. CASE j < w
  <2>1. Digit(m + p * (-s), j) <=> Digit(m, j)
    <3>1. -s \in Int
      BY <1>1
    <3> HIDE DEF s, m
    <3> QED
      BY <1>2, <1>3, <3>1, DigitModulo
  <2>2. m + p * (-s) = n
    <3> HIDE DEF m, p, s, n
    <3> QED
      BY <1>1, <1>2
  <2> QED
    BY <1>3, <2>1, <2>2
<1>4. CASE ~(j < w)
  <2>1. ~Digit(m, j)
    BY <1>2, <1>4, NoDigitBeyond
  <2>2. CASE s = 0
    <3>1. n = m
      <4> HIDE DEF m, s, n, p
      <4> QED
        BY <1>1, <1>2, <2>2
    <3> QED
      BY <1>4, <2>1, <2>2, <3>1
  <2>3. CASE s = 1
    <3>1. p - 1 - m \in Nat /\ p - 1 - m < p /\ -1 - (p - 1 - m) = n
      <4> HIDE DEF m, s, n, p
      <4> QED
        BY <1>1, <1>2, <2>3
    <3>2. ~Digit(p - 1 - m, j)
      BY <1>4, <3>1, NoDigitBeyond
    <3>3. Digit(-1 - (p - 1 - m), j) <=> ~Digit(p - 1 - m, j)
      BY <3>1, p - 1 - m \in Int, OppositeDigits
    <3> QED
      BY <1>4, <2>3, <3>1, <3>2, <3>3
  <2> QED
    BY <1>1, <2>2, <2>3
<1> QED
  BY <1>3, <1>4

\* A place is at or beyond a boundary when its word is, or its bit in that word.
LEMMA PlaceBeyond ==
  ASSUME NEW i \in Nat \ {0}, NEW r \in 0..(LimbBits - 1), NEW n \in Nat
  PROVE  Place0(i, r) >= n <=> \/ i - 1 > n \div LimbBits
                               \/ i - 1 = n \div LimbBits /\ r >= n % LimbBits
<1> DEFINE q == n \div LimbBits  s == n % LimbBits  L == LimbBits
<1>1. q \in Nat /\ s \in Nat /\ s < L /\ n = L * q + s /\ L \in Nat /\ L > 0
  BY ShiftSplit, WordFacts
<1> HIDE DEF q, s
<1>2. Place0(i, r) = L * (i - 1) + r /\ r \in Nat /\ r < L
  BY PlaceFacts DEF Place0
<1>3. CASE i - 1 > q
  <2>1. L * (i - 1) >= L * (q + 1)
    BY <1>1, <1>3
  <2>2. L * (q + 1) = L * q + L /\ L * q \in Nat /\ L * (i - 1) \in Nat
    BY <1>1
  <2> QED
    BY <1>1, <1>2, <1>3, <2>1, <2>2 DEF q, s
<1>4. CASE i - 1 < q
  <2>1. L * q >= L * i
    BY <1>1, <1>4
  <2>2. L * i = L * (i - 1) + L /\ L * q \in Nat /\ L * (i - 1) \in Nat
    BY <1>1
  <2> QED
    BY <1>1, <1>2, <1>4, <2>1, <2>2 DEF q, s
<1>5. CASE i - 1 = q
  <2>1. L * (i - 1) = L * q /\ L * q \in Nat
    BY <1>1, <1>5
  <2> QED
    BY <1>1, <1>2, <1>5, <2>1 DEF q, s
<1> QED
  BY <1>1, <1>3, <1>4, <1>5

\* Word i of an arithmetic shift of a negative value.
SarWord(out, word, mask, i) ==
    IF i > word THEN Ones ELSE IF i = word THEN out[i + 1] | mask ELSE out[i + 1]

\* The quotient of a number by a power of two is not outside its range.
LEMMA SignedQuotient ==
  ASSUME NEW w \in Nat \ {0}, NEW a \in Wide(w), NEW n \in Nat, n >= w
  PROVE  WideSigned(a, w) \div 2^n = -gpga_wide_signbit(a, w)
<1> DEFINE m == WideNum(a)  s == gpga_wide_signbit(a, w)  p == 2^w  e == 2^n
<1>1. WideSigned(a, w) = m - p * s /\ s \in {0, 1}
  BY SignedFacts
<1>2. m \in Nat /\ m < p /\ p \in Nat /\ p > 0
  BY WideFacts
<1>3. e \in Nat /\ p <= e
  BY TwoPositive, TwoGrows
<1> HIDE DEF m, s, p, e
<1>4. CASE s = 0
  <2>1. m - p * s = m
    BY <1>2, <1>4
  <2>2. m \div e = 0
    BY <1>2, <1>3, Remaining
  <2> QED
    BY <1>1, <1>4, <2>1, <2>2 DEF e, s
<1>5. CASE s = 1
  <2>1. m - p * s = e * (-1) + (e - p + m) /\ e - p + m \in Nat /\ e - p + m < e
        /\ m - p * s \in Int
    BY <1>2, <1>3, <1>5
  <2> DEFINE x == m - p * s
  <2>2. x \in Int /\ e > 0
    BY <1>2, <1>3, <2>1
  <2>3. x \div e = -1
    <3> HIDE DEF x
    <3> QED
      BY <1>3, <2>1, <2>2, -1 \in Int, DivisionIs DEF x
  <2> QED
    BY <1>1, <1>5, <2>3 DEF e, s
<1> QED
  BY <1>1, <1>4, <1>5

LEMMA ModuloSigned ==
  ASSUME NEW w \in Nat \ {0}, NEW a \in Wide(w)
  PROVE  WideSigned(a, w) % 2^w = WideNum(a)
<1> DEFINE m == WideNum(a)  s == gpga_wide_signbit(a, w)  p == 2^w  n == WideSigned(a, w)
<1>1. n = m - p * s /\ s \in {0, 1} /\ n \in Int
  BY SignedFacts
<1>2. m \in Nat /\ m < p /\ p \in Nat /\ p > 0
  BY WideFacts
<1> HIDE DEF m, s, p, n
<1>3. n = p * (-s) + m /\ -s \in Int
  BY <1>1, <1>2
<1> QED
  BY <1>1, <1>2, <1>3, DivisionIs DEF m, p, n

\* An arithmetic shift to the right divides the signed number.
LEMMA SarIs ==
  ASSUME NEW w \in Nat \ {0}, NEW a \in Wide(w), NEW shift \in Nat
  PROVE  /\ gpga_wide_sar(a, shift, w) \in Wide(w)
         /\ WideNum(gpga_wide_sar(a, shift, w)) = (WideSigned(a, w) \div 2^shift) % 2^w
<1> DEFINE K == Words(w)  s == gpga_wide_signbit(a, w)  out == gpga_wide_shr(a, shift, w)
           word == (w - shift) \div LimbBits
           bits == (w - shift) % LimbBits
           mask == ShiftLeft(Ones, bits)
           u == [i \in 1..K |-> SarWord(out, word, mask, i - 1)]
           m == WideNum(a)  n == WideSigned(a, w)  e == 2^shift
<1>1. gpga_wide_sar(a, shift, w) =
        IF shift >= w THEN IF s = 1 THEN gpga_wide_mask_const(w) ELSE gpga_wide_zero(w)
        ELSE IF s = 0 \/ shift = 0 THEN out ELSE gpga_wide_mask(u, w)
  BY DEF gpga_wide_sar, Each, SarWord
<1>2. s \in {0, 1} /\ n = m - 2^w * s /\ n \in Int /\ m \in Nat /\ m < 2^w
  BY SignedFacts, WideFacts
<1>3. out \in Wide(w) /\ WideNum(out) = m \div e
  BY ShrIs
<1>4. e \in Nat /\ e > 0 /\ 2^w \in Nat /\ 2^w > 0
  BY TwoPositive
<1> HIDE DEF out, s, m, n
<1>5. CASE shift >= w
  <2>1. n \div e = -s
    BY <1>5, SignedQuotient DEF n, s
  <2> DEFINE p == 2^w
  <2>2. s = 1 => (-s) % p = p - 1
    <3> SUFFICES ASSUME s = 1 PROVE (-1) % p = p - 1
      OBVIOUS
    <3> HIDE DEF p
    <3>1. -1 = p * (-1) + (p - 1) /\ p - 1 \in Nat /\ p - 1 < p
      BY <1>4 DEF p
    <3> QED
      BY <1>4, <3>1, -1 \in Int, DivisionIs DEF p
  <2>3. s = 0 => (-s) % p = 0
    BY <1>4, Reduced
  <2> QED
    BY <1>1, <1>2, <1>5, <2>1, <2>2, <2>3, MaskConstIs, ZeroIs DEF n
<1>6. CASE shift < w /\ s = 0
  <2>1. n = m
    BY <1>2, <1>4, <1>6
  <2>2. m \div e \in Nat /\ m \div e < 2^w
    BY <1>2, <1>4, QuotientBelow
  <2> QED
    BY <1>1, <1>3, <1>6, <2>1, <2>2, Reduced DEF n
<1>7. CASE shift < w /\ shift = 0
  <2>1. e = 1
    <3>1. 2^0 = 1
      OBVIOUS
    <3> QED
      BY <1>7, <3>1
  <2>2. m \div 1 = m /\ n \div 1 = n
    BY <1>2
  <2>3. n % 2^w = m
    BY ModuloSigned DEF m, n
  <2> QED
    BY <1>1, <1>3, <1>7, <2>1, <2>2, <2>3 DEF n
<1>8. CASE shift < w /\ s = 1 /\ shift # 0
  <2>1. w - shift \in Nat
    BY <1>8
  <2>2. word \in Nat /\ bits \in 0..(LimbBits - 1) /\ bits \in Nat
    BY <2>1, ShiftSplit
  <2>3. /\ \A i \in 1..K : u[i] = SarWord(out, word, mask, i - 1)
        /\ \A i \in 1..K : i \in Nat \ {0} /\ i - 1 \in Nat /\ (i - 1) + 1 = i
    BY WidthFacts
  <2>4. /\ mask \in 0..Ones
        /\ \A r \in 0..(LimbBits - 1) : Digit(mask, r) <=> r >= bits
    <3>1. /\ mask \in 0..Ones
          /\ \A r \in 0..(LimbBits - 1) : Digit(mask, r) <=> r >= bits /\ Digit(Ones, r - bits)
      <4>1. Ones \in Nat
        BY WordFacts
      <4> HIDE DEF bits
      <4> QED
        BY <2>2, <4>1, ShiftLeftDigits
    <3>2. ASSUME NEW r \in 0..(LimbBits - 1), r >= bits PROVE Digit(Ones, r - bits)
      <4>1. r - bits \in 0..(LimbBits - 1)
        BY <2>2, <3>2, WordFacts
      <4> HIDE DEF bits
      <4> QED
        BY <4>1, OnesWord
    <3> QED
      BY <3>1, <3>2
  <2> HIDE DEF word, bits, mask
  <2>5. \A i \in 1..K : out[i] \in 0..Ones /\ SarWord(out, word, mask, i - 1) \in 0..Ones
    <3> SUFFICES ASSUME NEW i \in 1..K
                 PROVE  out[i] \in 0..Ones /\ SarWord(out, word, mask, i - 1) \in 0..Ones
      OBVIOUS
    <3>1. out[i] \in 0..Ones /\ Ones \in 0..Ones /\ (i - 1) + 1 = i
      BY <1>3, <2>3, WideFacts, WordFacts
    <3>2. out[i] | mask \in 0..Ones
      BY WordDigits
    <3> QED
      BY <3>1, <3>2 DEF SarWord
  <2>6. u \in Two(w)
    BY <2>5 DEF Two
  <2>7. \A i \in 1..K : u[i] = IF i - 1 > word THEN Ones
                               ELSE IF i - 1 = word THEN out[i] | mask ELSE out[i]
    <3> SUFFICES ASSUME NEW i \in 1..K
                 PROVE  u[i] = IF i - 1 > word THEN Ones
                               ELSE IF i - 1 = word THEN out[i] | mask ELSE out[i]
      OBVIOUS
    <3>1. (i - 1) + 1 = i /\ u[i] = SarWord(out, word, mask, i - 1)
      BY <2>3
    <3> HIDE DEF u
    <3> QED
      BY <3>1 DEF SarWord
  <2> HIDE DEF u
  <2>8. n \div e \in Int
    BY <1>2, <1>4, DivisionBy
  <2>9. ASSUME NEW i \in 1..K, NEW r \in 0..(LimbBits - 1), Place0(i, r) < w
        PROVE  Digit(u[i], r) <=> Digit(n \div e, Place0(i, r))
    <3> DEFINE j == Place0(i, r)
    <3>1. j \in Nat /\ i \in Nat \ {0}
      BY PlaceBelow
    <3>2. Digit(n \div e, j) <=> Digit(n, shift + j)
      BY <1>2, <3>1, DigitOfQuotient
    <3>3. Digit(n, shift + j) <=> IF shift + j < w THEN Digit(m, shift + j) ELSE TRUE
      <4>1. shift + j \in Nat
        BY <3>1
      <4> QED
        BY <1>8, <4>1, SignedDigits DEF n, m, s
    <3>4. Digit(out[i], r) <=> Digit(m, shift + j)
      <4>1. Digit(out[i], r) <=> Digit(m \div e, j)
        BY <1>3, WideFacts
      <4>2. Digit(m \div e, j) <=> Digit(m, shift + j)
        BY <1>2, m \in Int, <3>1, DigitOfQuotient
      <4> QED
        BY <4>1, <4>2
    <3>5. j >= w - shift <=> i - 1 > word \/ (i - 1 = word /\ r >= bits)
      BY <2>1, <3>1, PlaceBeyond DEF word, bits
    <3>6. j >= w - shift <=> ~(shift + j < w)
      BY <3>1
    <3>7. Digit(out[i] | mask, r) <=> Digit(out[i], r) \/ r >= bits
      BY <2>4, WordDigits
    <3>8. i - 1 \in Nat
      BY <2>3
    <3> HIDE DEF j
    <3>9. Digit(n \div e, j) <=> Digit(out[i], r) \/ j >= w - shift
      BY <3>2, <3>3, <3>4, <3>6
    <3>10. Digit(u[i], r) <=> Digit(out[i], r) \/ i - 1 > word \/ (i - 1 = word /\ r >= bits)
      <4>1. CASE i - 1 > word
        BY <2>7, <4>1, OnesWord
      <4>2. CASE i - 1 = word
        <5>1. ~(i - 1 > word)
          BY <2>2, <4>2
        <5> QED
          BY <2>7, <3>7, <4>2, <5>1
      <4>3. CASE ~(i - 1 > word) /\ i - 1 # word
        BY <2>7, <4>3
      <4> QED
        BY <4>1, <4>2, <4>3
    <3> QED
      BY <3>5, <3>9, <3>10 DEF j
  <2>10. gpga_wide_mask(u, w) \in Wide(w) /\ WideNum(gpga_wide_mask(u, w)) = (n \div e) % 2^w
    BY <2>6, <2>8, <2>9, MaskedIs
  <2>11. ~(shift >= w) /\ ~(s = 0 \/ shift = 0)
    BY <1>8
  <2> QED
    BY <1>1, <2>10, <2>11 DEF n
<1>9. shift >= w \/ shift < w
  OBVIOUS
<1> QED
  BY <1>2, <1>5, <1>6, <1>7, <1>8, <1>9 DEF m, n

\* A value of another width has the bits of every integer that agrees with it there.
LEMMA ResizeIs ==
  ASSUME NEW src \in Nat \ {0}, NEW dst \in Nat \ {0}, NEW v \in Wide(src), NEW n \in Int,
         \A j \in 0..(dst - 1) : Digit(n, j) <=> Digit(WideNum(v), j)
  PROVE  /\ gpga_wide_resize(v, dst, src) \in Wide(dst)
         /\ WideNum(gpga_wide_resize(v, dst, src)) = n % 2^dst
<1> DEFINE u == Each(dst, LAMBDA i: IF i < Words(src) THEN v[i + 1] ELSE 0)
<1>1. u = [i \in 1..Words(dst) |-> IF i - 1 < Words(src) THEN v[(i - 1) + 1] ELSE 0]
  BY DEF Each
<1>2. Words(src) \in Nat /\ \A i \in 1..Words(dst) : i \in Nat \ {0} /\ (i - 1) + 1 = i
  BY WidthFacts
<1>3. \A i \in 1..Words(dst) : u[i] = IF i <= Words(src) THEN v[i] ELSE 0
  <2> SUFFICES ASSUME NEW i \in 1..Words(dst) PROVE u[i] = IF i <= Words(src) THEN v[i] ELSE 0
    OBVIOUS
  <2>1. u[i] = IF i - 1 < Words(src) THEN v[(i - 1) + 1] ELSE 0
    BY <1>1
  <2>2. (i - 1) + 1 = i /\ (i - 1 < Words(src) <=> i <= Words(src))
    BY <1>2
  <2> HIDE DEF u
  <2> QED
    BY <2>1, <2>2
<1>4. u \in Two(dst)
  <2>1. \A i \in 1..Words(dst) : u[i] \in 0..Ones
    <3> SUFFICES ASSUME NEW i \in 1..Words(dst) PROVE u[i] \in 0..Ones
      OBVIOUS
    <3>1. i <= Words(src) => i \in 1..Words(src)
      BY <1>2
    <3> HIDE DEF u
    <3> QED
      BY <1>3, <3>1, WideFacts, WordFacts
  <2>2. u = [i \in 1..Words(dst) |-> u[i]]
    BY <1>1
  <2> HIDE DEF u
  <2> QED
    BY <2>1, <2>2 DEF Two
<1> HIDE DEF u
<1>5. ASSUME NEW i \in 1..Words(dst), NEW r \in 0..(LimbBits - 1), Place0(i, r) < dst
      PROVE  Digit(u[i], r) <=> Digit(n, Place0(i, r))
  <2>1. Place0(i, r) \in Nat /\ Place0(i, r) \in 0..(dst - 1) /\ r \in Nat
    BY <1>5, PlaceBelow
  <2>2. CASE i <= Words(src)
    <3>1. i \in 1..Words(src)
      BY <1>2, <2>2
    <3> QED
      BY <1>3, <2>1, <2>2, <3>1, WideFacts
  <2>3. CASE ~(i <= Words(src))
    <3>1. i > Words(src)
      BY <1>2, <2>3
    <3> QED
      BY <1>2, <1>3, <2>1, <2>3, <3>1, NoWordAbove, ZeroWord
  <2> QED
    BY <2>2, <2>3
<1>6. gpga_wide_mask(u, dst) \in Wide(dst) /\ WideNum(gpga_wide_mask(u, dst)) = n % 2^dst
  BY <1>4, <1>5, MaskedIs
<1> QED
  BY <1>6 DEF gpga_wide_resize, u

\* Word i of a negative value extended.
SextWord(v, upper, K, i) ==
    IF i >= K THEN Ones ELSE IF i = K - 1 THEN v[i + 1] | upper ELSE v[i + 1]

\* Sign extension keeps the signed number.
LEMMA SextIs ==
  ASSUME NEW src \in Nat \ {0}, NEW dst \in Nat \ {0}, NEW v \in Wide(src)
  PROVE  /\ gpga_wide_sext(v, dst, src) \in Wide(dst)
         /\ WideNum(gpga_wide_sext(v, dst, src)) = WideSigned(v, src) % 2^dst
<1> DEFINE K == Words(src)  L == LimbBits  s == gpga_wide_signbit(v, src)
           upper == IF src % L = 0 THEN 0 ELSE NotWord(2^(src % L) - 1)
           u == [i \in 1..Words(dst) |-> SextWord(v, upper, K, i - 1)]
           n == WideSigned(v, src)  m == WideNum(v)
<1>1. gpga_wide_sext(v, dst, src) =
        IF dst <= src \/ s = 0 THEN gpga_wide_resize(v, dst, src) ELSE gpga_wide_mask(u, dst)
  BY DEF gpga_wide_sext, gpga_wide_signbit, Each, SextWord
<1>2. n \in Int /\ s \in {0, 1} /\ m \in Nat /\ m < 2^src
  BY SignedFacts, WideFacts
<1>3. \A j \in Nat : Digit(n, j) <=> IF j < src THEN Digit(m, j) ELSE s = 1
  BY SignedDigits
<1> HIDE DEF s, n, m
<1>4. CASE dst <= src \/ s = 0
  <2>1. \A j \in 0..(dst - 1) : Digit(n, j) <=> Digit(m, j)
    <3> SUFFICES ASSUME NEW j \in 0..(dst - 1) PROVE Digit(n, j) <=> Digit(m, j)
      OBVIOUS
    <3>1. j \in Nat /\ j < dst
      OBVIOUS
    <3>2. src <= j => ~Digit(m, j)
      BY <1>2, <3>1, NoDigitBeyond
    <3>3. ~(j < src) => src <= j /\ s = 0
      BY <1>4, <3>1
    <3> QED
      BY <1>3, <3>1, <3>2, <3>3
  <2>2. /\ gpga_wide_resize(v, dst, src) \in Wide(dst)
        /\ WideNum(gpga_wide_resize(v, dst, src)) = n % 2^dst
    BY <1>2, <2>1, ResizeIs DEF m
  <2> QED
    BY <1>1, <1>4, <2>2 DEF n
<1>5. CASE ~(dst <= src \/ s = 0)
  <2> DEFINE t == src - L * (K - 1)
  <2>1. K \in Nat /\ K >= 1 /\ K \in 1..K /\ t \in 1..L /\ L \in Nat /\ L > 0
        /\ L * (K - 1) \in Nat
    BY WidthFacts, WordFacts
  <2>2. s = 1
    BY <1>2, <1>5
  <2>3. src % L = IF t = L THEN 0 ELSE t
    <3>1. CASE t = L
      <4>1. src = L * K + 0
        BY <2>1, <3>1
      <4>2. src % L = 0
        BY <2>1, <4>1, src \in Int, K \in Int, 0 \in Nat, 0 < L, DivisionIs
      <4> QED
        BY <3>1, <4>2
    <3>2. CASE t # L
      <4>1. src = L * (K - 1) + t /\ t \in Nat /\ t < L /\ K - 1 \in Int
        BY <2>1, <3>2
      <4> HIDE DEF t
      <4>2. src % L = t
        BY <2>1, <4>1, src \in Int, DivisionIs
      <4> QED
        BY <3>2, <4>2
    <3> QED
      BY <3>1, <3>2
  <2> HIDE DEF t
  <2>4. \A r \in 0..(L - 1) : Digit(upper, r) <=> r >= t
    <3>1. CASE t = L
      <4>1. upper = 0
        BY <2>3, <3>1
      <4>2. \A r \in 0..(L - 1) : r \in Nat /\ ~(r >= L)
        BY <2>1
      <4> HIDE DEF upper
      <4> QED
        BY <3>1, <4>1, <4>2, ZeroWord
    <3>2. CASE t # L
      <4>1. upper = NotWord(2^t - 1)
        <5>1. src % L = t /\ t # 0
          BY <2>1, <2>3, <3>2
        <5> QED
          BY <5>1
      <4>2. t \in Nat /\ t <= L
        BY <2>1
      <4>3. 2^t - 1 \in 0..Ones
        <5>1. 2^t \in Nat /\ 2^t > 0 /\ 2^t <= 2^L
          BY <2>1, <4>2, TwoPositive, TwoGrows
        <5> QED
          BY <5>1, WordFacts
      <4>4. \A r \in 0..(L - 1) : r \in Nat /\ (Digit(2^t - 1, r) <=> r < t)
        <5> SUFFICES ASSUME NEW r \in 0..(L - 1) PROVE r \in Nat /\ (Digit(2^t - 1, r) <=> r < t)
          OBVIOUS
        <5>1. r \in Nat
          BY <2>1
        <5> QED
          BY <4>2, <5>1, OnesDigits
      <4>5. \A r \in 0..(L - 1) : Digit(NotWord(2^t - 1), r) <=> ~Digit(2^t - 1, r)
        BY <4>3, NotDigits
      <4> HIDE DEF upper
      <4> QED
        BY <4>1, <4>2, <4>4, <4>5
    <3> QED
      BY <3>1, <3>2
  <2> HIDE DEF upper
  <2>5. \A i \in 1..Words(dst) :
           u[i] = IF i > K THEN Ones ELSE IF i = K THEN v[i] | upper ELSE v[i]
    <3> SUFFICES ASSUME NEW i \in 1..Words(dst)
                 PROVE  u[i] = IF i > K THEN Ones ELSE IF i = K THEN v[i] | upper ELSE v[i]
      OBVIOUS
    <3>1. u[i] = SextWord(v, upper, K, i - 1)
      OBVIOUS
    <3>2. (i - 1) + 1 = i /\ (i - 1 >= K <=> i > K) /\ (i - 1 = K - 1 <=> i = K)
      <4>1. i \in Nat /\ K \in Nat
        BY <2>1, WidthFacts
      <4> HIDE DEF K, u
      <4> QED
        BY <4>1
    <3> HIDE DEF u
    <3> QED
      BY <3>1, <3>2 DEF SextWord
  <2>6. u \in Two(dst)
    <3>1. \A i \in 1..Words(dst) : u[i] \in 0..Ones
      <4> SUFFICES ASSUME NEW i \in 1..Words(dst) PROVE u[i] \in 0..Ones
        OBVIOUS
      <4>1. ~(i > K) => i \in 1..K
        BY <2>1, WidthFacts
      <4>2. v[i] | upper \in 0..Ones /\ Ones \in 0..Ones
        BY WordDigits, WordFacts
      <4> HIDE DEF u
      <4> QED
        BY <2>5, <4>1, <4>2, WideFacts
    <3>2. u = [i \in 1..Words(dst) |-> u[i]]
      OBVIOUS
    <3> HIDE DEF u
    <3> QED
      BY <3>1, <3>2 DEF Two
  <2> HIDE DEF u
  <2>7. ASSUME NEW i \in 1..Words(dst), NEW r \in 0..(LimbBits - 1)
        PROVE  Digit(u[i], r) <=> Digit(n, Place0(i, r))
    <3>1. Place0(i, r) \in Nat /\ i \in Nat \ {0} /\ r \in Nat
      BY PlaceBelow
    <3>2. Digit(n, Place0(i, r)) <=> IF Place0(i, r) < src THEN Digit(m, Place0(i, r)) ELSE TRUE
      BY <1>3, <2>2, <3>1
    <3>3. CASE i > K
      <4>1. ~(Place0(i, r) < src)
        <5>1. src <= L * K /\ L * K \in Nat
          BY WidthFacts
        <5>2. Place0(i, r) < L * K <=> i <= K
          BY <2>1, <3>1, PlaceFacts
        <5>3. ~(i <= K)
          BY <2>1, <3>1, <3>3
        <5> QED
          BY <3>1, <5>1, <5>2, <5>3
      <4> QED
        BY <2>5, <3>2, <3>3, <4>1, OnesWord
    <3>4. CASE i = K
      <4>1. Place0(i, r) < src <=> r < t
        BY <2>1, <3>4, PlaceBelow DEF t
      <4>2. Digit(v[i], r) <=> Digit(m, Place0(i, r))
        BY <2>1, <3>4, WideFacts DEF m
      <4>3. u[i] = v[i] | upper
        BY <2>1, <2>5, <3>4
      <4>4. Digit(v[i] | upper, r) <=> Digit(v[i], r) \/ r >= t
        BY <2>4, WordDigits
      <4>5. r >= t <=> ~(r < t)
        BY <2>1, <3>1
      <4> QED
        BY <3>2, <4>1, <4>2, <4>3, <4>4, <4>5
    <3>5. CASE i < K
      <4>1. i \in 1..K /\ i # K /\ ~(i > K)
        BY <2>1, <3>1, <3>5
      <4>2. Place0(i, r) < src
        BY <4>1, PlaceBelow
      <4>3. Digit(v[i], r) <=> Digit(m, Place0(i, r))
        BY <4>1, WideFacts DEF m
      <4> QED
        BY <2>5, <3>2, <4>1, <4>2, <4>3
    <3> QED
      BY <2>1, <3>1, <3>3, <3>4, <3>5
  <2>8. gpga_wide_mask(u, dst) \in Wide(dst) /\ WideNum(gpga_wide_mask(u, dst)) = n % 2^dst
    BY <1>2, <2>6, <2>7, MaskedIs
  <2> QED
    BY <1>1, <1>5, <2>8 DEF n
<1> QED
  BY <1>4, <1>5

\* A word of one bit, extended.
LEMMA FromIs ==
  ASSUME NEW w \in Nat \ {0}, NEW a \in Wide(w)
  PROVE  /\ gpga_wide_sext_from_u64(a[1] % 2, 1, w) \in Wide(w)
         /\ WideNum(gpga_wide_sext_from_u64(a[1] % 2, 1, w))
              = IF WideNum(a) % 2 = 1 THEN 2^w - 1 ELSE 0
<1> DEFINE x == a[1] % 2  K == Words(w)  upper == NotWord(2^1 - 1)
           u == [i \in 1..K |-> IF i - 1 = 0 THEN x | upper ELSE Ones]
           z == gpga_wide_from_u64(x, w)
<1>1. K \in Nat /\ 1 \in 1..K /\ a[1] \in 0..Ones /\ a[1] \in Nat
  BY WidthFacts, WideFacts, WordFacts
<1>2. x \in {0, 1}
  BY <1>1
<1>3. WideNum(a) % 2 = 1 <=> x = 1
  <2>1. 0 \in 0..(LimbBits - 1) /\ LimbBits * 0 = 0
    BY WordFacts
  <2>2. Place0(1, 0) = 0
    <3>1. Place0(1, 0) = LimbBits * (1 - 1) + 0
      BY DEF Place0
    <3>2. LimbBits * (1 - 1) + 0 = 0
      BY WordFacts
    <3> QED
      BY <3>1, <3>2
  <2>3. Digit(WideNum(a), 0) <=> Digit(a[1], 0)
    BY <1>1, <2>1, <2>2, WideFacts
  <2>4. 2^0 = 1 /\ WideNum(a) \div 1 = WideNum(a) /\ a[1] \div 1 = a[1]
    BY <1>1, WideFacts
  <2> QED
    BY <2>3, <2>4 DEF Digit
<1>4. gpga_wide_sext_from_u64(x, 1, w) = IF x = 1 THEN gpga_wide_mask(u, w)
      ELSE gpga_wide_mask(z, w)
  <2>1. (1 < LimbBits /\ ShiftRight(x, 1 - 1) % 2 = 1) <=> x = 1
    <3>1. 2^(1 - 1) = 1 /\ x \div 1 = x /\ 1 < LimbBits
      BY <1>2, WordFacts
    <3>2. x % 2 = x
      BY <1>2
    <3> HIDE DEF x
    <3> QED
      BY <3>1, <3>2 DEF ShiftRight
  <2>2. u = Each(w, LAMBDA i: IF i = 0 THEN x | upper ELSE Ones)
    BY DEF Each
  <2> HIDE DEF x
  <2> QED
    BY <2>1, <2>2 DEF gpga_wide_sext_from_u64
<1> HIDE DEF x
<1>5. CASE x = 1
  <2>1. upper \in 0..Ones /\ \A r \in 0..(LimbBits - 1) : Digit(upper, r) <=> ~Digit(1, r)
    <3>1. 2^1 - 1 = 1 /\ 1 \in 0..Ones
      BY WordFacts
    <3> QED
      BY <3>1, NotDigits
  <2>2. \A r \in 0..(LimbBits - 1) : Digit(x | upper, r)
    BY <1>5, <2>1, WordDigits
  <2>3. x | upper = Ones
    <3>1. x | upper \in 0..Ones /\ Ones \in 0..Ones
      BY WordDigits, WordFacts
    <3> QED
      BY <2>2, <3>1, OnesWord, WordsDecided
  <2> HIDE DEF upper
  <2>4. u = [i \in 1..K |-> Ones]
    BY <2>3
  <2> QED
    BY <1>3, <1>4, <1>5, <2>4, AllOnesIs DEF x
<1>6. CASE x = 0
  <2>1. /\ z \in Two(w)
        /\ \A i \in 1..K : \A r \in 0..(LimbBits - 1) : Digit(z[i], r) <=> Digit(0, Place0(i, r))
    BY <1>6, WordFacts, FromWordIs
  <2> HIDE DEF z
  <2>2. gpga_wide_mask(z, w) \in Wide(w) /\ WideNum(gpga_wide_mask(z, w)) = 0 % 2^w
    BY <2>1, 0 \in Int, MaskedIs
  <2>3. 0 % 2^w = 0
    BY TwoPositive, Reduced
  <2> QED
    BY <1>3, <1>4, <1>6, <2>2, <2>3 DEF x
<1> QED
  BY <1>2, <1>5, <1>6

-----------------------------------------------------------------------------
(* Addition and subtraction.                                               *)

LEMMA UpToInduction ==
  ASSUME NEW n \in Nat, NEW S, 0 \in S, \A i \in 1..n : i - 1 \in S => i \in S
  PROVE  \A i \in 0..n : i \in S
<1> DEFINE T == {i \in Nat : i <= n => i \in S}
<1>1. 0 \in T
  OBVIOUS
<1>2. ASSUME NEW i \in Nat, i \in T PROVE i + 1 \in T
  <2>1. CASE i + 1 <= n
    <3>1. i + 1 \in 1..n /\ (i + 1) - 1 = i /\ i <= n
      BY <2>1
    <3> QED
      BY <1>2, <3>1
  <2>2. CASE ~(i + 1 <= n)
    BY <2>2
  <2> QED
    BY <2>1, <2>2
<1>3. \A i \in Nat : i \in T
  <2> HIDE DEF T
  <2> QED
    BY <1>1, <1>2, SetInduction
<1> QED
  BY <1>3

\* A word of a sum or difference, with its carry or borrow.
Carried == [word: 0..Ones, out: {0, 1}]
NoCarry == [word |-> 0, out |-> 0]

LEMMA AddWordIs ==
  ASSUME NEW x \in 0..Ones, NEW y \in 0..Ones, NEW c \in {0, 1}
  PROVE  /\ AddWord(x, y, c) \in Carried
         /\ AddWord(x, y, c).word + AddWord(x, y, c).out * Base = x + y + c
<1> DEFINE p == Base  sum == (x + y) % p  total == (sum + c) % p
<1>1. p \in Nat /\ p > 1 /\ x \in Nat /\ x < p /\ y \in Nat /\ y < p /\ Ones = p - 1
  <2>1. Ones >= 1
    BY WordFacts
  <2> QED
    BY <2>1, WordFacts
<1>2. AddWord(x, y, c) = [word |-> total, out |-> IF sum < x \/ total < c THEN 1 ELSE 0]
  BY DEF AddWord, Flag
<1> HIDE DEF p
<1>3. sum = IF x + y < p THEN x + y ELSE x + y - p
  <2>1. CASE x + y < p
    BY <1>1, <2>1, x + y \in Nat, Remaining
  <2>2. CASE ~(x + y < p)
    <3>1. x + y = p * 1 + (x + y - p) /\ x + y - p \in Nat /\ x + y - p < p
      BY <1>1, <2>2
    <3>2. sum = x + y - p
      BY <1>1, <3>1, x + y \in Int, 1 \in Int, DivisionIs
    <3> QED
      BY <2>2, <3>2
  <2> QED
    BY <2>1, <2>2
<1> HIDE DEF sum
<1>4. sum \in Nat /\ sum < p
  BY <1>1, <1>3
<1>5. total = IF sum + c < p THEN sum + c ELSE 0
  <2>1. CASE sum + c < p
    BY <1>1, <1>4, <2>1, sum + c \in Nat, Remaining
  <2>2. CASE ~(sum + c < p)
    <3>1. sum + c = p * 1 + 0
      BY <1>1, <1>4, <2>2
    <3>2. total = 0
      BY <1>1, <1>4, <3>1, sum + c \in Int, 1 \in Int, 0 \in Nat, 0 < p, DivisionIs
    <3> QED
      BY <2>2, <3>2
  <2> QED
    BY <2>1, <2>2
<1> HIDE DEF total
<1> DEFINE out == IF sum < x \/ total < c THEN 1 ELSE 0
<1>6. total \in 0..Ones /\ out \in {0, 1} /\ total + out * p = x + y + c
  BY <1>1, <1>3, <1>4, <1>5
<1> QED
  BY <1>2, <1>6 DEF Carried, p

LEMMA SubWordIs ==
  ASSUME NEW x \in 0..Ones, NEW y \in 0..Ones, NEW c \in {0, 1}
  PROVE  /\ SubWord(x, y, c) \in Carried
         /\ SubWord(x, y, c).word - SubWord(x, y, c).out * Base = x - y - c
<1> DEFINE p == Base  diff == (x - y) % p  total == (diff - c) % p
<1>1. p \in Nat /\ p > 1 /\ x \in Nat /\ x < p /\ y \in Nat /\ y < p /\ Ones = p - 1
  <2>1. Ones >= 1
    BY WordFacts
  <2> QED
    BY <2>1, WordFacts
<1>2. SubWord(x, y, c) = [word |-> total, out |-> IF x < y \/ diff < c THEN 1 ELSE 0]
  BY DEF SubWord, Flag
<1> HIDE DEF p
<1>3. diff = IF x < y THEN x - y + p ELSE x - y
  <2>1. CASE ~(x < y)
    BY <1>1, <2>1, x - y \in Nat, x - y < p, Remaining
  <2>2. CASE x < y
    <3>1. x - y = p * (-1) + (x - y + p) /\ x - y + p \in Nat /\ x - y + p < p
      BY <1>1, <2>2
    <3>2. diff = x - y + p
      BY <1>1, <3>1, x - y \in Int, -1 \in Int, DivisionIs
    <3> QED
      BY <2>2, <3>2
  <2> QED
    BY <2>1, <2>2
<1> HIDE DEF diff
<1>4. diff \in Nat /\ diff < p
  BY <1>1, <1>3
<1>5. total = IF diff < c THEN p - 1 ELSE diff - c
  <2>1. CASE ~(diff < c)
    BY <1>1, <1>4, <2>1, diff - c \in Nat, diff - c < p, Remaining
  <2>2. CASE diff < c
    <3>1. diff - c = p * (-1) + (p - 1) /\ p - 1 \in Nat /\ p - 1 < p
      BY <1>1, <1>4, <2>2
    <3>2. total = p - 1
      BY <1>1, <1>4, <3>1, diff - c \in Int, -1 \in Int, DivisionIs
    <3> QED
      BY <2>2, <3>2
  <2> QED
    BY <2>1, <2>2
<1> HIDE DEF total
<1> DEFINE out == IF x < y \/ diff < c THEN 1 ELSE 0
<1>6. total \in 0..Ones /\ out \in {0, 1} /\ total - out * p = x - y - c
  BY <1>1, <1>3, <1>4, <1>5
<1> QED
  BY <1>2, <1>6 DEF Carried, p

LEMMA AddSteps ==
  ASSUME NEW w \in Nat \ {0}, NEW a \in Two(w), NEW b \in Two(w)
  PROVE  \E h : /\ h[0] = NoCarry
                /\ \A i \in 1..Words(w) : h[i] = AddWord(a[i], b[i], h[i - 1].out)
                /\ gpga_wide_add(a, b, w) = gpga_wide_mask([i \in 1..Words(w) |-> h[i].word], w)
<1> DEFINE K == Words(w)
           F(i, x) == AddWord(a[i], b[i], x.out)
           Is(g) == g = [i \in 0..K |-> IF i = 0 THEN [word |-> 0, out |-> 0]
                                        ELSE AddWord(a[i], b[i], g[i - 1].out)]
           S == [i \in 1..K |-> [x \in Carried |-> F(i, x)]]
<1>1. K \in Nat /\ \A i \in 1..K : a[i] \in 0..Ones /\ b[i] \in 0..Ones
  BY TwoWords
<1>2. ASSUME NEW i \in 1..K, NEW x \in Carried PROVE F(i, x) \in Carried
  <2>1. x.out \in {0, 1}
    BY DEF Carried
  <2> QED
    BY <1>1, <2>1, AddWordIs
<1>3. \E g : Is(g)
  <2> HIDE DEF F, Is
  <2>1. S \in [1..K -> [Carried -> Carried]]
    BY <1>2
  <2>2. NoCarry \in Carried
    BY WordFacts DEF NoCarry, Carried
  <2>3. PICK g : IsRecursion(g, K, Carried, NoCarry, S)
    <3> HIDE DEF S
    <3> QED
      BY <1>1, <2>1, <2>2, RecursionExists
  <2>4. g \in [0..K -> Carried] /\ g[0] = NoCarry
    BY <2>3 DEF IsRecursion
  <2>5. ASSUME NEW i \in 1..K PROVE g[i] = F(i, g[i - 1])
    <3>1. g[i] = S[i][g[i - 1]]
      BY <2>3 DEF IsRecursion
    <3>2. i - 1 \in 0..K
      BY <1>1
    <3>3. g[i - 1] \in Carried
      BY <2>4, <3>2
    <3> QED
      BY <3>1, <3>3
  <2>6. g = [i \in 0..K |-> IF i = 0 THEN NoCarry ELSE F(i, g[i - 1])]
    <3>1. ASSUME NEW i \in 0..K PROVE g[i] = IF i = 0 THEN NoCarry ELSE F(i, g[i - 1])
      <4>1. i # 0 => i \in 1..K
        BY <1>1
      <4> QED
        BY <2>4, <2>5, <4>1
    <3> QED
      BY <2>4, <3>1
  <2> QED
    BY <2>6 DEF F, Is, NoCarry
<1> DEFINE h == CHOOSE g : Is(g)
<1>4. Is(h)
  <2> HIDE DEF Is
  <2> QED
    BY <1>3, Zenon
<1>5. gpga_wide_add(a, b, w) = gpga_wide_mask([i \in 1..K |-> h[(i - 1) + 1].word], w)
  BY DEF gpga_wide_add, Each
<1> HIDE DEF h
<1>6. [i \in 1..K |-> h[(i - 1) + 1].word] = [i \in 1..K |-> h[i].word]
  <2>1. \A i \in 1..K : (i - 1) + 1 = i
    BY <1>1
  <2> QED
    BY <2>1
<1>7. h[0] = NoCarry /\ \A i \in 1..K : h[i] = AddWord(a[i], b[i], h[i - 1].out)
  <2>1. h[0] = NoCarry
    BY <1>1, <1>4 DEF NoCarry
  <2>2. \A i \in 1..K : h[i] = AddWord(a[i], b[i], h[i - 1].out)
    BY <1>1, <1>4
  <2> QED
    BY <2>1, <2>2
<1> QED
  BY <1>5, <1>6, <1>7

\* Words and carries or borrows, sign one or minus one.
LEMMA CarriedSum ==
  ASSUME NEW w \in Nat \ {0}, NEW a \in Two(w), NEW b \in Two(w), NEW sign \in {1, -1},
         NEW h, h[0] = NoCarry, \A i \in 0..Words(w) : h[i] \in Carried,
         \A i \in 1..Words(w) : h[i].word + sign * (h[i].out * Base)
                                  = a[i] + sign * (b[i] + h[i - 1].out)
  PROVE  /\ [i \in 1..Words(w) |-> h[i].word] \in Two(w)
         /\ \E out \in {0, 1} : WideNum([i \in 1..Words(w) |-> h[i].word])
                                  + sign * (out * 2^(LimbBits * Words(w)))
                                  = WideNum(a) + sign * WideNum(b)
<1> DEFINE K == Words(w)  L == LimbBits  u == [i \in 1..K |-> h[i].word]
<1>1. K \in Nat /\ L \in Nat /\ Base \in Nat /\ L >= 2
  BY WidthFacts, WordFacts
<1>2. u \in Two(w) /\ \A i \in 1..K : u[i] = h[i].word /\ h[i].word \in Nat
  <2>1. \A i \in 1..K : h[i].word \in 0..Ones
    BY <1>1 DEF Carried
  <2> QED
    BY <2>1, WordFacts DEF Two
<1> HIDE DEF u
<1>3. PICK x : ArePartsOf(x, a, K) /\ WideNum(a) = x[K]
  BY WideNumParts
<1>4. PICK y : ArePartsOf(y, b, K) /\ WideNum(b) = y[K]
  BY WideNumParts
<1>5. PICK z : ArePartsOf(z, u, K) /\ WideNum(u) = z[K]
  BY <1>2, WideNumParts
<1>6. \A n \in 0..K : x[n] \in Nat /\ y[n] \in Nat /\ z[n] \in Nat
  BY <1>1, <1>2, <1>3, <1>4, <1>5, TwoWords, PartsRight DEF PartRight
<1> DEFINE IsGood(n) == z[n] + sign * (h[n].out * 2^(L * n)) = x[n] + sign * y[n]
           S == {n \in 0..K : IsGood(n)}
<1>7. 0 \in S
  <2>1. h[0].out = 0 /\ x[0] = 0 /\ y[0] = 0 /\ z[0] = 0
    BY <1>3, <1>4, <1>5 DEF NoCarry, ArePartsOf
  <2>2. L * 0 \in Nat
    BY <1>1
  <2>3. 2^(L * 0) \in Nat
    BY <2>2, TwoPositive
  <2> DEFINE t == 2^(L * 0)
  <2> HIDE DEF t
  <2>4. 0 + sign * (0 * t) = 0 + sign * 0
    BY <2>3 DEF t
  <2> QED
    BY <1>1, <2>1, <2>4 DEF t
<1>8. ASSUME NEW n \in 1..K, n - 1 \in S PROVE n \in S
  <2> DEFINE p == 2^(L * (n - 1))  q == 2^(L * n)
             o == h[n - 1].out  e == h[n].out  d == h[n].word  s == a[n]  t == b[n]
  <2>1. z[n - 1] + sign * (o * p) = x[n - 1] + sign * y[n - 1]
    BY <1>8
  <2>2. x[n] = x[n - 1] + s * p /\ y[n] = y[n - 1] + t * p /\ z[n] = z[n - 1] + d * p
    BY <1>2, <1>3, <1>4, <1>5 DEF ArePartsOf
  <2>3. d + sign * (e * Base) = s + sign * (t + o)
    OBVIOUS
  <2>4. s \in Nat /\ t \in Nat /\ d \in Nat /\ o \in {0, 1} /\ e \in {0, 1}
    <3>1. n - 1 \in 0..K /\ n \in 0..K
      BY <1>1
    <3>2. s \in Nat /\ t \in Nat /\ d \in Nat
      BY <1>2, TwoWords
    <3>3. o \in {0, 1} /\ e \in {0, 1}
      BY <3>1 DEF Carried
    <3> QED
      BY <3>2, <3>3
  <2>5. p \in Nat /\ q = p * Base
    <3>1. n - 1 \in Nat /\ L * (n - 1) \in Nat /\ L * n = L * (n - 1) + L
      BY <1>1
    <3>2. 2^(L * (n - 1) + L) = p * 2^L
      BY <1>1, <3>1, TwoSum
    <3> QED
      BY <3>1, <3>2, TwoPositive, WordFacts
  <2>6. x[n - 1] \in Nat /\ y[n - 1] \in Nat /\ z[n - 1] \in Nat /\ n \in 0..K
    <3>1. n - 1 \in 0..K /\ n \in 0..K
      BY <1>1
    <3> QED
      BY <1>6, <3>1
  <2> HIDE DEF p, q, o, e, d, s, t
  <2>7. z[n] + sign * (e * q) = x[n] + sign * y[n]
    <3> DEFINE B == Base  X == x[n - 1]  Y == y[n - 1]  Z == z[n - 1]
    <3>1. B \in Nat /\ X \in Nat /\ Y \in Nat /\ Z \in Nat
      BY <1>1, <2>6
    <3>2. Z + sign * (o * p) = X + sign * Y /\ d + sign * (e * B) = s + sign * (t + o)
      BY <2>1, <2>3
    <3>3. x[n] = X + s * p /\ y[n] = Y + t * p /\ z[n] = Z + d * p /\ q = p * B
      BY <2>2, <2>5
    <3> HIDE DEF B, X, Y, Z
    <3>4. (d + sign * (e * B)) * p = (s + sign * (t + o)) * p
      BY <3>2
    <3>5. CASE sign = 1
      <4>1. d * p + e * B * p = s * p + t * p + o * p
        BY <2>4, <2>5, <3>1, <3>4, <3>5
      <4>2. e * q = e * B * p /\ e * q \in Nat /\ o * p \in Nat
        BY <2>4, <2>5, <3>1, <3>3
      <4>3. Z + o * p = X + Y
        BY <2>4, <2>5, <3>1, <3>2, <3>5
      <4>4. /\ s * p \in Nat /\ t * p \in Nat /\ d * p \in Nat /\ x[n] \in Nat /\ y[n] \in Nat
            /\ d * p + e * q = s * p + t * p + o * p
        <5>1. s * p \in Nat /\ t * p \in Nat /\ d * p \in Nat
          BY <2>4, <2>5
        <5>2. x[n] \in Nat /\ y[n] \in Nat
          BY <3>1, <3>3, <5>1
        <5>3. d * p + e * q = s * p + t * p + o * p
          BY <4>1, <4>2
        <5> QED
          BY <5>1, <5>2, <5>3
      <4>5. z[n] + e * q = x[n] + y[n]
        BY <3>1, <3>3, <4>2, <4>3, <4>4
      <4> QED
        BY <3>5, <4>2, <4>4, <4>5
    <3>6. CASE sign = -1
      <4>1. d * p - e * B * p = s * p - t * p - o * p
        BY <2>4, <2>5, <3>1, <3>4, <3>6
      <4>2. e * q = e * B * p /\ e * q \in Nat /\ o * p \in Nat
        BY <2>4, <2>5, <3>1, <3>3
      <4>3. Z - o * p = X - Y
        BY <2>4, <2>5, <3>1, <3>2, <3>6
      <4>4. /\ s * p \in Nat /\ t * p \in Nat /\ d * p \in Nat /\ x[n] \in Nat /\ y[n] \in Nat
            /\ d * p - e * q = s * p - t * p - o * p
        <5>1. s * p \in Nat /\ t * p \in Nat /\ d * p \in Nat
          BY <2>4, <2>5
        <5>2. x[n] \in Nat /\ y[n] \in Nat
          BY <3>1, <3>3, <5>1
        <5>3. d * p - e * q = s * p - t * p - o * p
          BY <4>1, <4>2
        <5> QED
          BY <5>1, <5>2, <5>3
      <4>5. z[n] - e * q = x[n] - y[n] /\ z[n] \in Int
        BY <3>1, <3>3, <4>2, <4>3, <4>4
      <4> QED
        BY <3>6, <4>2, <4>4, <4>5
    <3> QED
      BY <3>5, <3>6
  <2> QED
    BY <2>6, <2>7 DEF q, e
<1>9. K \in S
  <2> HIDE DEF S
  <2>1. \A n \in 0..K : n \in S
    BY <1>1, <1>7, <1>8, UpToInduction
  <2> QED
    BY <1>1, <2>1
<1>10. h[K].out \in {0, 1}
  BY <1>1 DEF Carried
<1>11. WideNum(u) + sign * (h[K].out * 2^(L * K)) = WideNum(a) + sign * WideNum(b)
  BY <1>3, <1>4, <1>5, <1>9
<1> QED
  BY <1>2, <1>10, <1>11 DEF u

LEMMA SubSteps ==
  ASSUME NEW w \in Nat \ {0}, NEW a \in Two(w), NEW b \in Two(w)
  PROVE  \E h : /\ h[0] = NoCarry
                /\ \A i \in 1..Words(w) : h[i] = SubWord(a[i], b[i], h[i - 1].out)
                /\ gpga_wide_sub(a, b, w) = gpga_wide_mask([i \in 1..Words(w) |-> h[i].word], w)
<1> DEFINE K == Words(w)
           F(i, x) == SubWord(a[i], b[i], x.out)
           Is(g) == g = [i \in 0..K |-> IF i = 0 THEN [word |-> 0, out |-> 0]
                                        ELSE SubWord(a[i], b[i], g[i - 1].out)]
           S == [i \in 1..K |-> [x \in Carried |-> F(i, x)]]
<1>1. K \in Nat /\ \A i \in 1..K : a[i] \in 0..Ones /\ b[i] \in 0..Ones
  BY TwoWords
<1>2. ASSUME NEW i \in 1..K, NEW x \in Carried PROVE F(i, x) \in Carried
  <2>1. x.out \in {0, 1}
    BY DEF Carried
  <2> QED
    BY <1>1, <2>1, SubWordIs
<1>3. \E g : Is(g)
  <2> HIDE DEF F, Is
  <2>1. S \in [1..K -> [Carried -> Carried]]
    BY <1>2
  <2>2. NoCarry \in Carried
    BY WordFacts DEF NoCarry, Carried
  <2>3. PICK g : IsRecursion(g, K, Carried, NoCarry, S)
    <3> HIDE DEF S
    <3> QED
      BY <1>1, <2>1, <2>2, RecursionExists
  <2>4. g \in [0..K -> Carried] /\ g[0] = NoCarry
    BY <2>3 DEF IsRecursion
  <2>5. ASSUME NEW i \in 1..K PROVE g[i] = F(i, g[i - 1])
    <3>1. g[i] = S[i][g[i - 1]]
      BY <2>3 DEF IsRecursion
    <3>2. i - 1 \in 0..K
      BY <1>1
    <3>3. g[i - 1] \in Carried
      BY <2>4, <3>2
    <3> QED
      BY <3>1, <3>3
  <2>6. g = [i \in 0..K |-> IF i = 0 THEN NoCarry ELSE F(i, g[i - 1])]
    <3>1. ASSUME NEW i \in 0..K PROVE g[i] = IF i = 0 THEN NoCarry ELSE F(i, g[i - 1])
      <4>1. i # 0 => i \in 1..K
        BY <1>1
      <4> QED
        BY <2>4, <2>5, <4>1
    <3> QED
      BY <2>4, <3>1
  <2> QED
    BY <2>6 DEF F, Is, NoCarry
<1> DEFINE h == CHOOSE g : Is(g)
<1>4. Is(h)
  <2> HIDE DEF Is
  <2> QED
    BY <1>3, Zenon
<1>5. gpga_wide_sub(a, b, w) = gpga_wide_mask([i \in 1..K |-> h[(i - 1) + 1].word], w)
  BY DEF gpga_wide_sub, Each
<1> HIDE DEF h
<1>6. [i \in 1..K |-> h[(i - 1) + 1].word] = [i \in 1..K |-> h[i].word]
  <2>1. \A i \in 1..K : (i - 1) + 1 = i
    BY <1>1
  <2> QED
    BY <2>1
<1>7. h[0] = NoCarry /\ \A i \in 1..K : h[i] = SubWord(a[i], b[i], h[i - 1].out)
  <2>1. h[0] = NoCarry
    BY <1>1, <1>4 DEF NoCarry
  <2>2. \A i \in 1..K : h[i] = SubWord(a[i], b[i], h[i - 1].out)
    BY <1>1, <1>4
  <2> QED
    BY <2>1, <2>2
<1> QED
  BY <1>5, <1>6, <1>7

LEMMA CarriedIs ==
  ASSUME NEW w \in Nat \ {0}, NEW u \in Two(w), NEW n \in Int, NEW k \in Int,
         WideNum(u) + 2^(LimbBits * Words(w)) * k = n
  PROVE  gpga_wide_mask(u, w) \in Wide(w) /\ WideNum(gpga_wide_mask(u, w)) = n % 2^w
<1>1. WideNum(u) \in Int /\ LimbBits * Words(w) \in Nat
  BY WideDigits, WidthFacts
<1>2. ASSUME NEW i \in 1..Words(w), NEW r \in 0..(LimbBits - 1)
      PROVE  Digit(u[i], r) <=> Digit(n, Place0(i, r))
  <2>1. Place0(i, r) \in Nat /\ Place0(i, r) < LimbBits * Words(w)
    BY PlaceBelow
  <2>2. Digit(WideNum(u) + 2^(LimbBits * Words(w)) * k, Place0(i, r))
        <=> Digit(WideNum(u), Place0(i, r))
    BY <1>1, <2>1, DigitModulo
  <2> QED
    BY <2>2, WideDigits
<1> QED
  BY <1>2, MaskedIs

\* A sum, modulo 2^w.
LEMMA AddIs ==
  ASSUME NEW w \in Nat \ {0}, NEW a \in Wide(w), NEW b \in Wide(w)
  PROVE  /\ gpga_wide_add(a, b, w) \in Wide(w)
         /\ WideNum(gpga_wide_add(a, b, w)) = (WideNum(a) + WideNum(b)) % 2^w
<1> DEFINE K == Words(w)  m == WideNum(a)  n == WideNum(b)
<1>1. a \in Two(w) /\ b \in Two(w) /\ m \in Nat /\ n \in Nat /\ K \in Nat
  BY WideFacts, WidthFacts
<1>2. PICK h : /\ h[0] = NoCarry
               /\ \A i \in 1..K : h[i] = AddWord(a[i], b[i], h[i - 1].out)
               /\ gpga_wide_add(a, b, w) = gpga_wide_mask([i \in 1..K |-> h[i].word], w)
  BY <1>1, AddSteps
<1>3. \A i \in 1..K : a[i] \in 0..Ones /\ b[i] \in 0..Ones
  BY WideFacts
<1>4. \A i \in 0..K : h[i] \in Carried
  <2> DEFINE S == {i \in 0..K : h[i] \in Carried}
  <2>1. 0 \in S
    BY <1>1, <1>2, WordFacts DEF NoCarry, Carried
  <2>2. ASSUME NEW i \in 1..K, i - 1 \in S PROVE i \in S
    <3>1. h[i - 1].out \in {0, 1} /\ i \in 0..K
      BY <1>1, <2>2 DEF Carried
    <3>2. AddWord(a[i], b[i], h[i - 1].out) \in Carried
      BY <1>3, <3>1, AddWordIs
    <3> QED
      BY <1>2, <3>1, <3>2
  <2> HIDE DEF S
  <2>3. \A i \in 0..K : i \in S
    BY <1>1, <2>1, <2>2, UpToInduction
  <2> QED
    BY <2>3 DEF S
<1>5. ASSUME NEW i \in 1..K
      PROVE  h[i].word + 1 * (h[i].out * Base) = a[i] + 1 * (b[i] + h[i - 1].out)
  <2>1. i - 1 \in 0..K /\ i \in 0..K
    BY <1>1
  <2>2. h[i - 1].out \in {0, 1} /\ h[i].out \in {0, 1} /\ h[i].word \in Nat
    BY <1>4, <2>1, WordFacts DEF Carried
  <2>3. h[i].word + h[i].out * Base = a[i] + b[i] + h[i - 1].out
    <3>1. h[i] = AddWord(a[i], b[i], h[i - 1].out)
      BY <1>2
    <3> QED
      BY <1>3, <2>2, <3>1, AddWordIs
  <2>4. a[i] \in Nat /\ b[i] \in Nat /\ Base \in Nat
    BY <1>3, WordFacts
  <2> DEFINE d == h[i].word  e == h[i].out * Base  o == h[i - 1].out  x == a[i]  y == b[i]
  <2>5. d \in Nat /\ e \in Nat /\ o \in Nat /\ x \in Nat /\ y \in Nat /\ d + e = x + y + o
    BY <2>2, <2>3, <2>4
  <2> HIDE DEF d, e, o, x, y
  <2>6. d + 1 * e = x + 1 * (y + o)
    BY <2>5
  <2> QED
    BY <2>6 DEF d, e, o, x, y
<1> DEFINE u == [i \in 1..K |-> h[i].word]
<1>6. /\ u \in Two(w)
      /\ \E out \in {0, 1} : WideNum(u) + 1 * (out * 2^(LimbBits * K)) = m + 1 * n
  BY <1>1, <1>2, <1>4, <1>5, CarriedSum
<1>7. PICK out \in {0, 1} : WideNum(u) + 1 * (out * 2^(LimbBits * K)) = m + 1 * n
  BY <1>6
<1> HIDE DEF u
<1>8. WideNum(u) + 2^(LimbBits * K) * out = m + n
  <2>1. WideNum(u) \in Nat /\ 2^(LimbBits * K) \in Nat
    BY <1>6, WideDigits, WidthFacts, TwoPositive
  <2> DEFINE p == 2^(LimbBits * K)  x == WideNum(u)
  <2> HIDE DEF p, x, m, n
  <2>2. x + 1 * (out * p) = m + 1 * n /\ x \in Nat /\ p \in Nat
    BY <1>7, <2>1 DEF p, x
  <2>3. x + p * out = m + n
    BY <1>1, <2>2
  <2> QED
    BY <2>3 DEF p, x
<1>9. /\ gpga_wide_mask(u, w) \in Wide(w)
      /\ WideNum(gpga_wide_mask(u, w)) = (m + n) % 2^w
  BY <1>1, m + n \in Int, out \in Int, <1>6, <1>8, CarriedIs
<1> QED
  BY <1>2, <1>9 DEF u

\* A difference, modulo 2^w.
LEMMA SubIs ==
  ASSUME NEW w \in Nat \ {0}, NEW a \in Wide(w), NEW b \in Wide(w)
  PROVE  /\ gpga_wide_sub(a, b, w) \in Wide(w)
         /\ WideNum(gpga_wide_sub(a, b, w)) = (WideNum(a) - WideNum(b)) % 2^w
<1> DEFINE K == Words(w)  m == WideNum(a)  n == WideNum(b)
<1>1. a \in Two(w) /\ b \in Two(w) /\ m \in Nat /\ n \in Nat /\ K \in Nat
  BY WideFacts, WidthFacts
<1>2. PICK h : /\ h[0] = NoCarry
               /\ \A i \in 1..K : h[i] = SubWord(a[i], b[i], h[i - 1].out)
               /\ gpga_wide_sub(a, b, w) = gpga_wide_mask([i \in 1..K |-> h[i].word], w)
  BY <1>1, SubSteps
<1>3. \A i \in 1..K : a[i] \in 0..Ones /\ b[i] \in 0..Ones
  BY WideFacts
<1>4. \A i \in 0..K : h[i] \in Carried
  <2> DEFINE S == {i \in 0..K : h[i] \in Carried}
  <2>1. 0 \in S
    BY <1>1, <1>2, WordFacts DEF NoCarry, Carried
  <2>2. ASSUME NEW i \in 1..K, i - 1 \in S PROVE i \in S
    <3>1. h[i - 1].out \in {0, 1} /\ i \in 0..K
      BY <1>1, <2>2 DEF Carried
    <3>2. SubWord(a[i], b[i], h[i - 1].out) \in Carried
      BY <1>3, <3>1, SubWordIs
    <3> QED
      BY <1>2, <3>1, <3>2
  <2> HIDE DEF S
  <2>3. \A i \in 0..K : i \in S
    BY <1>1, <2>1, <2>2, UpToInduction
  <2> QED
    BY <2>3 DEF S
<1>5. ASSUME NEW i \in 1..K
      PROVE  h[i].word + (-1) * (h[i].out * Base) = a[i] + (-1) * (b[i] + h[i - 1].out)
  <2>1. i - 1 \in 0..K /\ i \in 0..K
    BY <1>1
  <2>2. h[i - 1].out \in {0, 1} /\ h[i].out \in {0, 1} /\ h[i].word \in Nat
    BY <1>4, <2>1, WordFacts DEF Carried
  <2>3. h[i].word - h[i].out * Base = a[i] - b[i] - h[i - 1].out
    <3>1. h[i] = SubWord(a[i], b[i], h[i - 1].out)
      BY <1>2
    <3> QED
      BY <1>3, <2>2, <3>1, SubWordIs
  <2>4. a[i] \in Nat /\ b[i] \in Nat /\ Base \in Nat
    BY <1>3, WordFacts
  <2> DEFINE d == h[i].word  e == h[i].out * Base  o == h[i - 1].out  x == a[i]  y == b[i]
  <2>5. d \in Nat /\ e \in Nat /\ o \in Nat /\ x \in Nat /\ y \in Nat /\ d - e = x - y - o
    BY <2>2, <2>3, <2>4
  <2> HIDE DEF d, e, o, x, y
  <2>6. d + (-1) * e = x + (-1) * (y + o)
    BY <2>5
  <2> QED
    BY <2>6 DEF d, e, o, x, y
<1> DEFINE u == [i \in 1..K |-> h[i].word]
<1>6. /\ u \in Two(w)
      /\ \E out \in {0, 1} : WideNum(u) + (-1) * (out * 2^(LimbBits * K)) = m + (-1) * n
  BY <1>1, <1>2, <1>4, <1>5, -1 \in {1, -1}, CarriedSum
<1>7. PICK out \in {0, 1} : WideNum(u) + (-1) * (out * 2^(LimbBits * K)) = m + (-1) * n
  BY <1>6
<1> HIDE DEF u
<1>8. WideNum(u) + 2^(LimbBits * K) * (-out) = m - n
  <2>1. WideNum(u) \in Nat /\ 2^(LimbBits * K) \in Nat
    BY <1>6, WideDigits, WidthFacts, TwoPositive
  <2> DEFINE p == 2^(LimbBits * K)  x == WideNum(u)
  <2> HIDE DEF p, x, m, n
  <2>2. x + (-1) * (out * p) = m + (-1) * n /\ x \in Nat /\ p \in Nat
    BY <1>7, <2>1 DEF p, x
  <2>3. x + p * (-out) = m - n
    BY <1>1, <2>2
  <2> QED
    BY <2>3 DEF p, x
<1>9. /\ gpga_wide_mask(u, w) \in Wide(w)
      /\ WideNum(gpga_wide_mask(u, w)) = (m - n) % 2^w
  BY <1>1, m - n \in Int, -out \in Int, <1>6, <1>8, CarriedIs
<1> QED
  BY <1>2, <1>9 DEF u

-----------------------------------------------------------------------------
(* Comparisons.                                                            *)

\* Below, by the highest word that differs among the first k.
BelowAt(a, b, k) ==
    \E i \in 1..k : a[i] < b[i] /\ \A j \in (i + 1)..k : a[j] = b[j]

LEMMA OneWordMore ==
  ASSUME NEW a, NEW b, NEW k \in Nat, a[k + 1] \in Nat, b[k + 1] \in Nat
  PROVE  BelowAt(a, b, k + 1)
           <=> \/ a[k + 1] < b[k + 1]
               \/ a[k + 1] = b[k + 1] /\ BelowAt(a, b, k)
<1>1. ASSUME a[k + 1] < b[k + 1] PROVE BelowAt(a, b, k + 1)
  <2>1. k + 1 \in 1..(k + 1) /\ \A j \in ((k + 1) + 1)..(k + 1) : a[j] = b[j]
    OBVIOUS
  <2> QED
    BY <1>1, <2>1 DEF BelowAt
<1>2. ASSUME a[k + 1] = b[k + 1], BelowAt(a, b, k) PROVE BelowAt(a, b, k + 1)
  <2>1. PICK i \in 1..k : a[i] < b[i] /\ \A j \in (i + 1)..k : a[j] = b[j]
    BY <1>2 DEF BelowAt
  <2>2. i \in 1..(k + 1)
    OBVIOUS
  <2>3. \A j \in (i + 1)..(k + 1) : a[j] = b[j]
    <3> SUFFICES ASSUME NEW j \in (i + 1)..(k + 1) PROVE a[j] = b[j]
      OBVIOUS
    <3>1. j = k + 1 \/ j \in (i + 1)..k
      OBVIOUS
    <3> QED
      BY <1>2, <2>1, <3>1
  <2> QED
    BY <2>1, <2>2, <2>3 DEF BelowAt
<1>3. ASSUME BelowAt(a, b, k + 1), ~(a[k + 1] < b[k + 1])
      PROVE  a[k + 1] = b[k + 1] /\ BelowAt(a, b, k)
  <2>1. PICK i \in 1..(k + 1) : a[i] < b[i] /\ \A j \in (i + 1)..(k + 1) : a[j] = b[j]
    BY <1>3 DEF BelowAt
  <2>2. i # k + 1
    BY <1>3, <2>1
  <2>3. i \in 1..k /\ k + 1 \in (i + 1)..(k + 1) /\ \A j \in (i + 1)..k : j \in (i + 1)..(k + 1)
    BY <2>2
  <2> QED
    BY <2>1, <2>3 DEF BelowAt
<1> QED
  BY <1>1, <1>2, <1>3

LEMMA LtUIs ==
  ASSUME NEW w \in Nat \ {0}, NEW a \in Wide(w), NEW b \in Wide(w)
  PROVE  gpga_wide_lt_u(a, b, w) <=> WideNum(a) < WideNum(b)
<1> DEFINE K == Words(w)  L == LimbBits
<1>1. K \in Nat /\ L \in Nat /\ L >= 2 /\ a \in Two(w) /\ b \in Two(w)
  BY WidthFacts, WordFacts, WideFacts
<1>2. gpga_wide_lt_u(a, b, w) <=> BelowAt(a, b, K)
  <2>1. \A i \in 1..K : Seen(a, i, w) = a[i] /\ Seen(b, i, w) = b[i]
    BY SeenIs
  <2>2. \A i \in 1..K : \A j \in (i + 1)..K : j \in 1..K
    BY <1>1
  <2> QED
    BY <2>1, <2>2 DEF gpga_wide_lt_u, BelowAt
<1>3. PICK x : ArePartsOf(x, a, K) /\ WideNum(a) = x[K]
  BY <1>1, WideNumParts
<1>4. PICK y : ArePartsOf(y, b, K) /\ WideNum(b) = y[K]
  BY <1>1, WideNumParts
<1>5. \A n \in 0..K : /\ x[n] \in Nat /\ x[n] < 2^(L * n)
                      /\ y[n] \in Nat /\ y[n] < 2^(L * n)
  <2>1. a \in [1..K -> 0..Ones] /\ b \in [1..K -> 0..Ones]
    BY <1>1, TwoWords
  <2>2. \A n \in 0..K : PartRight(x, a, n) /\ PartRight(y, b, n)
    BY <1>1, <1>3, <1>4, <2>1, PartsRight
  <2> QED
    BY <2>2 DEF PartRight
<1> DEFINE S == {k \in 0..K : x[k] < y[k] <=> BelowAt(a, b, k)}
<1>6. 0 \in S
  <2>1. x[0] = 0 /\ y[0] = 0
    BY <1>3, <1>4 DEF ArePartsOf
  <2>2. ~BelowAt(a, b, 0)
    BY DEF BelowAt
  <2> QED
    BY <1>1, <2>1, <2>2
<1>7. ASSUME NEW k \in 1..K, k - 1 \in S PROVE k \in S
  <2> DEFINE p == 2^(L * (k - 1))  s == a[k]  t == b[k]  X == x[k - 1]  Y == y[k - 1]
  <2>1. k - 1 \in Nat /\ (k - 1) + 1 = k /\ k - 1 \in 0..K /\ k \in 0..K
    BY <1>1
  <2>2. s \in Nat /\ t \in Nat
    BY <1>1, TwoWords
  <2>3. X \in Nat /\ X < p /\ Y \in Nat /\ Y < p /\ p \in Nat
    <3>1. L * (k - 1) \in Nat
      BY <1>1, <2>1
    <3> QED
      BY <1>5, <2>1, <3>1, TwoPositive
  <2>4. x[k] = X + s * p /\ y[k] = Y + t * p
    BY <1>3, <1>4 DEF ArePartsOf
  <2>5. X < Y <=> BelowAt(a, b, k - 1)
    BY <1>7
  <2>6. BelowAt(a, b, (k - 1) + 1) <=> \/ a[(k - 1) + 1] < b[(k - 1) + 1]
                                       \/ a[(k - 1) + 1] = b[(k - 1) + 1] /\ BelowAt(a, b, k - 1)
    <3>1. a[(k - 1) + 1] \in Nat /\ b[(k - 1) + 1] \in Nat
      BY <2>1, <2>2
    <3> QED
      BY <2>1, <3>1, OneWordMore
  <2>7. BelowAt(a, b, k) <=> s < t \/ (s = t /\ BelowAt(a, b, k - 1))
    BY <2>1, <2>6
  <2> HIDE DEF p, s, t, X, Y
  <2>8. x[k] < y[k] <=> s < t \/ (s = t /\ X < Y)
    <3>1. CASE s < t
      <4>1. (s + 1) * p <= t * p
        BY <2>2, <2>3, <3>1
      <4>2. (s + 1) * p = s * p + p /\ s * p \in Nat /\ t * p \in Nat
        BY <2>2, <2>3
      <4> QED
        BY <2>3, <2>4, <3>1, <4>1, <4>2
    <3>2. CASE s = t
      <4>1. s * p \in Nat
        BY <2>2, <2>3
      <4> QED
        BY <2>2, <2>3, <2>4, <3>2, <4>1
    <3>3. CASE s > t
      <4>1. (t + 1) * p <= s * p
        BY <2>2, <2>3, <3>3
      <4>2. (t + 1) * p = t * p + p /\ s * p \in Nat /\ t * p \in Nat
        BY <2>2, <2>3
      <4> QED
        BY <2>2, <2>3, <2>4, <3>3, <4>1, <4>2
    <3> QED
      BY <2>2, <3>1, <3>2, <3>3
  <2> QED
    BY <2>1, <2>5, <2>7, <2>8
<1>8. K \in S
  <2> HIDE DEF S
  <2>1. \A k \in 0..K : k \in S
    BY <1>1, <1>6, <1>7, UpToInduction
  <2> QED
    BY <1>1, <2>1
<1> QED
  BY <1>2, <1>3, <1>4, <1>8

LEMMA LeUIs ==
  ASSUME NEW w \in Nat \ {0}, NEW a \in Wide(w), NEW b \in Wide(w)
  PROVE  gpga_wide_le_u(a, b, w) <=> WideNum(a) <= WideNum(b)
<1>1. WideNum(a) \in Nat /\ WideNum(b) \in Nat
  BY WideFacts
<1> QED
  BY <1>1, LtUIs, EqIs DEF gpga_wide_le_u

\* The signed comparisons look at the sign bits first.
LEMMA LtSIs ==
  ASSUME NEW w \in Nat \ {0}, NEW a \in Wide(w), NEW b \in Wide(w)
  PROVE  gpga_wide_lt_s(a, b, w) <=> WideSigned(a, w) < WideSigned(b, w)
<1> DEFINE m == WideNum(a)  n == WideNum(b)  p == 2^w
           s == gpga_wide_signbit(a, w)  t == gpga_wide_signbit(b, w)
<1>1. /\ WideSigned(a, w) = m - p * s /\ WideSigned(b, w) = n - p * t
      /\ s \in {0, 1} /\ t \in {0, 1}
  BY SignedFacts
<1>2. m \in Nat /\ m < p /\ n \in Nat /\ n < p /\ p \in Nat
  BY WideFacts
<1>3. gpga_wide_lt_s(a, b, w) <=> IF s # t THEN s > t ELSE m < n
  BY LtUIs DEF gpga_wide_lt_s
<1> HIDE DEF m, n, p, s, t
<1>4. m - p * s < n - p * t <=> IF s # t THEN s > t ELSE m < n
  <2>1. p * 0 = 0 /\ p * 1 = p
    BY <1>2
  <2>2. CASE s = 0 /\ t = 0
    BY <1>2, <2>1, <2>2
  <2>3. CASE s = 0 /\ t = 1
    BY <1>2, <2>1, <2>3
  <2>4. CASE s = 1 /\ t = 0
    BY <1>2, <2>1, <2>4
  <2>5. CASE s = 1 /\ t = 1
    BY <1>2, <2>1, <2>5
  <2> QED
    BY <1>1, <2>2, <2>3, <2>4, <2>5
<1> QED
  BY <1>1, <1>3, <1>4

LEMMA LeSIs ==
  ASSUME NEW w \in Nat \ {0}, NEW a \in Wide(w), NEW b \in Wide(w)
  PROVE  gpga_wide_le_s(a, b, w) <=> WideSigned(a, w) <= WideSigned(b, w)
<1>1. WideSigned(a, w) \in Int /\ WideSigned(b, w) \in Int
  BY SignedFacts
<1>2. WideSigned(a, w) % 2^w = WideNum(a) /\ WideSigned(b, w) % 2^w = WideNum(b)
  BY ModuloSigned
<1>3. WideNum(a) = WideNum(b) <=> WideSigned(a, w) = WideSigned(b, w)
  <2>1. ASSUME WideNum(a) = WideNum(b) PROVE WideSigned(a, w) = WideSigned(b, w)
    BY <2>1 DEF WideSigned
  <2> QED
    BY <1>2, <2>1
<1> QED
  BY <1>1, <1>3, LtSIs, EqIs DEF gpga_wide_le_s

-----------------------------------------------------------------------------
(* Multiplication.                                                         *)

LEMMA ModuloTimes ==
  ASSUME NEW x \in Int, NEW y \in Int, NEW p \in Nat, p > 0
  PROVE  ((x % p) * y) % p = (x * y) % p
<1> DEFINE q == x \div p  r == x % p
<1>1. q \in Int /\ r \in Nat /\ x = p * q + r
  BY DivisionBy
<1> HIDE DEF q, r
<1>2. x * y = p * (q * y) + r * y /\ q * y \in Int /\ r * y \in Int
  <2>1. x * y = (p * q) * y + r * y
    BY <1>1
  <2>2. (p * q) * y = p * (q * y)
    BY <1>1
  <2> QED
    BY <1>1, <2>1, <2>2
<1> DEFINE k == q * y  n == r * y
<1>3. (p * k + n) % p = n % p
  <2>1. k \in Int /\ n \in Int
    BY <1>2
  <2> HIDE DEF k, n
  <2> QED
    BY <2>1, ModuloSum
<1> QED
  BY <1>2, <1>3 DEF r

LEMMA ModuloPlus ==
  ASSUME NEW x \in Int, NEW y \in Int, NEW p \in Nat, p > 0
  PROVE  ((x % p) + (y % p)) % p = (x + y) % p
<1> DEFINE q == x \div p  r == x % p  s == y \div p  t == y % p
<1>1. q \in Int /\ r \in Nat /\ x = p * q + r
  BY DivisionBy
<1>2. s \in Int /\ t \in Nat /\ y = p * s + t
  BY DivisionBy
<1> HIDE DEF q, r, s, t
<1>3. x + y = p * (q + s) + (r + t) /\ q + s \in Int /\ r + t \in Int
  BY <1>1, <1>2
<1>4. (p * (q + s) + (r + t)) % p = (r + t) % p
  <2> DEFINE k == q + s  n == r + t
  <2>1. k \in Int /\ n \in Int
    BY <1>3
  <2> HIDE DEF k, n
  <2>2. (p * k + n) % p = n % p
    BY <2>1, ModuloSum
  <2> QED
    BY <2>2 DEF k, n
<1> QED
  BY <1>3, <1>4 DEF r, t

\* One turn of the loop of gpga_wide_mul.
Products(w) == [result: Wide(w), temp: Wide(w)]

MulTurn(b, w, bit, last) ==
    [result |-> IF gpga_wide_get_bit(b, bit - 1, w) = 1
          THEN gpga_wide_add(last.result, last.temp, w)
                ELSE last.result,
     temp |-> gpga_wide_shl(last.temp, 1, w)]

LEMMA MulTurnFits ==
  ASSUME NEW w \in Nat \ {0}, NEW b, NEW i, NEW x \in Products(w)
  PROVE  MulTurn(b, w, i, x) \in Products(w)
<1>1. x.result \in Wide(w) /\ x.temp \in Wide(w)
  BY DEF Products
<1>2. gpga_wide_add(x.result, x.temp, w) \in Wide(w) /\ gpga_wide_shl(x.temp, 1, w) \in Wide(w)
  BY <1>1, 1 \in Nat, AddIs, ShlIs
<1> QED
  BY <1>1, <1>2 DEF MulTurn, Products

LEMMA MulSteps ==
  ASSUME NEW w \in Nat \ {0}, NEW a \in Wide(w), NEW b \in Wide(w)
  PROVE  \E h : /\ h[0] = [result |-> gpga_wide_zero(w), temp |-> a]
                /\ \A i \in 1..w : h[i] = MulTurn(b, w, i, h[i - 1])
                /\ gpga_wide_mul(a, b, w) = h[w].result
<1> DEFINE N == w
           F(i, x) == MulTurn(b, w, i, x)
           Is(g) == g = [i \in 0..N |-> IF i = 0 THEN [result |-> gpga_wide_zero(w), temp |-> a]
                 ELSE MulTurn(b, w, i, g[i - 1])]
           S == [i \in 1..N |-> [x \in Products(w) |-> F(i, x)]]
<1>1. N \in Nat /\ [result |-> gpga_wide_zero(w), temp |-> a] \in Products(w)
  BY ZeroIs DEF Products
<1>2. ASSUME NEW i \in 1..N, NEW x \in Products(w) PROVE F(i, x) \in Products(w)
  BY MulTurnFits
<1>3. \E g : Is(g)
  <2> HIDE DEF F, Is
  <2>1. S \in [1..N -> [Products(w) -> Products(w)]]
    BY <1>2
  <2>2. PICK g : IsRecursion(g, N, Products(w), [result |-> gpga_wide_zero(w), temp |-> a], S)
    <3> HIDE DEF S, N
    <3> QED
      BY <1>1, <2>1, RecursionExists
  <2>3. g \in [0..N -> Products(w)] /\ g[0] = [result |-> gpga_wide_zero(w), temp |-> a]
    BY <2>2 DEF IsRecursion
  <2>4. ASSUME NEW i \in 1..N PROVE g[i] = F(i, g[i - 1])
    <3>1. g[i] = S[i][g[i - 1]]
      BY <2>2 DEF IsRecursion
    <3>2. i - 1 \in 0..N
      BY <1>1
    <3>3. g[i - 1] \in Products(w)
      BY <2>3, <3>2
    <3> QED
      BY <3>1, <3>3
  <2>5. g = [i \in 0..N |-> IF i = 0 THEN [result |-> gpga_wide_zero(w), temp |-> a]
        ELSE F(i, g[i - 1])]
    <3>1. ASSUME NEW i \in 0..N
          PROVE g[i] = IF i = 0 THEN [result |-> gpga_wide_zero(w), temp |-> a]
                ELSE F(i, g[i - 1])
      <4>1. i # 0 => i \in 1..N
        BY <1>1
      <4> QED
        BY <2>3, <2>4, <4>1
    <3> QED
      BY <2>3, <3>1
  <2> QED
    BY <2>5 DEF F, Is
<1> DEFINE h == CHOOSE g : Is(g)
<1>4. Is(h)
  <2> HIDE DEF Is
  <2> QED
    BY <1>3, Zenon
<1>5. gpga_wide_mul(a, b, w) = h[w].result
  BY DEF gpga_wide_mul, MulTurn
<1> HIDE DEF h
<1>6. h[0] = [result |-> gpga_wide_zero(w), temp |-> a]
  BY <1>1, <1>4
<1>7. \A i \in 1..N : h[i] = F(i, h[i - 1])
  <2> HIDE DEF F
  <2> SUFFICES ASSUME NEW i \in 1..N PROVE h[i] = F(i, h[i - 1])
    OBVIOUS
  <2>1. i \in 0..N /\ i # 0
    BY <1>1
  <2>2. h[i] = IF i = 0 THEN [result |-> gpga_wide_zero(w), temp |-> a] ELSE F(i, h[i - 1])
    BY <1>4, <2>1 DEF F
  <2> QED
    BY <2>1, <2>2
<1> QED
  BY <1>5, <1>6, <1>7

\* A product, modulo 2^w: after some turns, that with the bits of b seen so far.
LEMMA MulIs ==
  ASSUME NEW w \in Nat \ {0}, NEW a \in Wide(w), NEW b \in Wide(w)
  PROVE  /\ gpga_wide_mul(a, b, w) \in Wide(w)
         /\ WideNum(gpga_wide_mul(a, b, w)) = (WideNum(a) * WideNum(b)) % 2^w
<1> DEFINE m == WideNum(a)  n == WideNum(b)  p == 2^w
<1>1. PICK h : /\ h[0] = [result |-> gpga_wide_zero(w), temp |-> a]
               /\ \A i \in 1..w : h[i] = MulTurn(b, w, i, h[i - 1])
               /\ gpga_wide_mul(a, b, w) = h[w].result
  BY MulSteps
<1>2. m \in Nat /\ m < p /\ n \in Nat /\ n < p /\ p \in Nat /\ p > 0
  BY WideFacts
<1> DEFINE IsGood(i) == /\ h[i] \in Products(w)
                        /\ WideNum(h[i].result) = (m * (n % 2^i)) % p
                        /\ WideNum(h[i].temp) = (m * 2^i) % p
           S == {i \in 0..w : IsGood(i)}
<1>3. 0 \in S
  <2>1. 2^0 = 1 /\ n % 1 = 0
    BY <1>2
  <2>2. m % p = m /\ 0 % p = 0 /\ m * 0 = 0 /\ m * 1 = m
    BY <1>2, Remaining
  <2>3. h[0] \in Products(w) /\ WideNum(h[0].result) = 0 /\ WideNum(h[0].temp) = m
    BY <1>1, ZeroIs DEF Products
  <2> HIDE DEF m, n, p
  <2> QED
    BY <2>1, <2>2, <2>3
<1>4. ASSUME NEW i \in 1..w, i - 1 \in S PROVE i \in S
  <2> DEFINE j == i - 1  last == h[i - 1]  e == 2^j  x == n % e  bit == gpga_wide_get_bit(b, j, w)
  <2>1. j \in Nat /\ j \in 0..(w - 1) /\ i = j + 1 /\ i \in 0..w
    OBVIOUS
  <2>2. /\ last \in Products(w) /\ WideNum(last.result) = (m * x) % p
        /\ WideNum(last.temp) = (m * e) % p
    BY <1>4
  <2>3. last.result \in Wide(w) /\ last.temp \in Wide(w)
    BY <2>2 DEF Products
  <2>4. h[i] = MulTurn(b, w, i, last)
    BY <1>1
  <2>5. h[i] \in Products(w)
    BY <2>2, <2>4, MulTurnFits
  <2>6. e \in Nat /\ e > 0 /\ 2^i = 2 * e
    BY <2>1, TwoPositive, TwoTimes
  <2>7. x \in Nat
    BY <1>2, <2>6, n \in Int, DivisionBy
  <2>8. (bit = 1 <=> (n \div e) % 2 = 1) /\ n % 2^i = IF (n \div e) % 2 = 1 THEN x + e ELSE x
    <3>1. bit = BitOf(n, j)
      BY <2>1, GetBitIs
    <3> QED
      BY <1>2, <2>1, <3>1, OneMoreBit DEF BitOf
  <2>9. WideNum(h[i].temp) = (m * 2^i) % p
    <3>1. WideNum(h[i].temp) = (((m * e) % p) * 2^1) % p
      <4>1. h[i].temp = gpga_wide_shl(last.temp, 1, w)
        BY <2>4 DEF MulTurn
      <4>2. WideNum(gpga_wide_shl(last.temp, 1, w)) = (WideNum(last.temp) * 2^1) % 2^w
        BY <2>3, 1 \in Nat, ShlIs
      <4> QED
        BY <2>2, <4>1, <4>2
    <3>2. 2^1 = 2 /\ m * e \in Int /\ (m * e) * 2 = m * (2 * e)
      BY <1>2, <2>6
    <3> DEFINE y == m * e
    <3>3. ((y % p) * 2) % p = (y * 2) % p
      <4>1. y \in Int
        BY <3>2
      <4> HIDE DEF y
      <4> QED
        BY <1>2, <4>1, 2 \in Int, ModuloTimes
    <3> QED
      BY <2>6, <3>1, <3>2, <3>3
  <2>10. WideNum(h[i].result) = (m * (n % 2^i)) % p
    <3>1. CASE bit = 1
      <4>1. WideNum(h[i].result) = (((m * x) % p) + ((m * e) % p)) % p
        BY <2>2, <2>3, <2>4, <3>1, AddIs DEF MulTurn
      <4>2. m * x \in Int /\ m * e \in Int /\ m * x + m * e = m * (x + e)
        BY <1>2, <2>6, <2>7
      <4> DEFINE y == m * x  z == m * e
      <4>3. ((y % p) + (z % p)) % p = (y + z) % p
        <5>1. y \in Int /\ z \in Int
          BY <4>2
        <5> HIDE DEF y, z
        <5> QED
          BY <1>2, <5>1, ModuloPlus
      <4>4. n % 2^i = x + e
        BY <2>8, <3>1
      <4> QED
        BY <4>1, <4>2, <4>3, <4>4
    <3>2. CASE bit # 1
      <4>1. h[i].result = last.result
        BY <2>4, <3>2 DEF MulTurn
      <4>2. n % 2^i = x
        BY <2>8, <3>2
      <4> QED
        BY <2>2, <4>1, <4>2
    <3> QED
      BY <3>1, <3>2
  <2> QED
    BY <2>1, <2>5, <2>9, <2>10
<1>5. w \in S
  <2> HIDE DEF S
  <2>1. \A i \in 0..w : i \in S
    BY <1>3, <1>4, UpToInduction
  <2> QED
    BY <2>1
<1>6. n % p = n
  BY <1>2, Remaining
<1> QED
  BY <1>1, <1>5, <1>6 DEF Products

-----------------------------------------------------------------------------
(* Division.                                                               *)

\* Halving a quotient by a power of two.
LEMMA HalfQuotient ==
  ASSUME NEW m \in Nat, NEW n \in Nat
  PROVE  /\ m \div 2^n \in Nat /\ m \div 2^(n + 1) \in Nat
         /\ m \div 2^n = 2 * (m \div 2^(n + 1)) + BitOf(m, n)
<1> DEFINE p == 2^n  q == m \div p  r == m % p  h == q \div 2  d == q % 2
<1>1. p \in Nat /\ p > 0 /\ 2^(n + 1) = 2 * p
  BY TwoPositive, TwoTimes
<1>2. q \in Int /\ r \in Nat /\ r < p /\ m = p * q + r
  BY <1>1, m \in Int, DivisionBy
<1>3. q \in Nat
  BY <1>1, QuotientBelow
<1>4. h \in Int /\ d \in Nat /\ d < 2 /\ q = 2 * h + d
  <2> HIDE DEF q
  <2> QED
    BY <1>2, 2 \in Nat, 2 > 0, DivisionBy
<1>5. BitOf(m, n) = d
  BY DEF BitOf
<1> HIDE DEF p, q, r, h, d
<1>6. m = (2 * p) * h + (p * d + r)
  <2>1. p * q = (2 * p) * h + p * d
    BY <1>1, <1>4
  <2>2. (2 * p) * h \in Int /\ p * d \in Int
    BY <1>1, <1>4
  <2> QED
    BY <1>2, <2>1, <2>2
<1>7. p * d + r \in Nat /\ p * d + r < 2 * p
  <2>1. d = 0 \/ d = 1
    BY <1>4
  <2>2. p * d = 0 \/ p * d = p
    BY <1>1, <2>1
  <2> QED
    BY <1>1, <1>2, <2>2
<1>8. m \div (2 * p) = h
  <2> DEFINE e == p * d + r  c == 2 * p
  <2>1. e \in Nat /\ e < c /\ c \in Nat /\ c > 0 /\ m = c * h + e
    BY <1>1, <1>6, <1>7
  <2> HIDE DEF e, c
  <2>2. m \div c = h
    BY <1>4, <2>1, m \in Int, DivisionIs
  <2> QED
    BY <2>2 DEF c
<1>9. h \in Nat
  BY <1>3, <1>4
<1> QED
  BY <1>1, <1>3, <1>4, <1>5, <1>8, <1>9 DEF q, p

\* One turn of the loop of LongDivision.
Divided(w) == [quotient: Wide(w), rem: Wide(w)]

Shifted(num, w, bit, rem) ==
    IF gpga_wide_get_bit(num, bit, w) # 0
    THEN gpga_wide_set_bit(gpga_wide_shl(rem, 1, w), 0, 1, w) ELSE gpga_wide_shl(rem, 1, w)

DivTurn(num, den, w, done, last) ==
    LET rem == Shifted(num, w, w - done, last.rem)
    IN  IF gpga_wide_lt_u(rem, den, w) THEN [last EXCEPT !.rem = rem]
        ELSE [quotient |-> gpga_wide_set_bit(last.quotient, w - done, 1, w),
              rem |-> gpga_wide_sub(rem, den, w)]

LEMMA ShiftedFits ==
  ASSUME NEW w \in Nat \ {0}, NEW num, NEW bit, NEW rem \in Wide(w)
  PROVE  Shifted(num, w, bit, rem) \in Wide(w)
<1>1. gpga_wide_shl(rem, 1, w) \in Wide(w) /\ 0 \in 0..(w - 1)
  BY 1 \in Nat, ShlIs
<1>2. gpga_wide_set_bit(gpga_wide_shl(rem, 1, w), 0, 1, w) \in Wide(w)
  BY <1>1, SetBitFits
<1> QED
  BY <1>1, <1>2 DEF Shifted

LEMMA DivTurnFits ==
  ASSUME NEW w \in Nat \ {0}, NEW num \in Wide(w), NEW den \in Wide(w), NEW i \in 1..w,
         NEW x \in Divided(w)
  PROVE  DivTurn(num, den, w, i, x) \in Divided(w)
<1> DEFINE rem == Shifted(num, w, w - i, x.rem)
<1>1. x.quotient \in Wide(w) /\ x.rem \in Wide(w) /\ w - i \in 0..(w - 1)
  BY DEF Divided
<1>2. rem \in Wide(w)
  BY <1>1, ShiftedFits
<1>3. gpga_wide_set_bit(x.quotient, w - i, 1, w) \in Wide(w)
  BY <1>1, SetBitFits
<1>4. gpga_wide_sub(rem, den, w) \in Wide(w)
  BY <1>2, SubIs
<1>5. [x EXCEPT !.rem = rem] \in Divided(w)
  BY <1>2 DEF Divided
<1>6. [quotient |-> gpga_wide_set_bit(x.quotient, w - i, 1, w), rem |-> gpga_wide_sub(rem, den, w)]
        \in Divided(w)
  BY <1>3, <1>4 DEF Divided
<1> HIDE DEF rem
<1> QED
  BY <1>5, <1>6 DEF DivTurn, rem

LEMMA DivSteps ==
  ASSUME NEW w \in Nat \ {0}, NEW num \in Wide(w), NEW den \in Wide(w)
  PROVE  \E h : /\ h[0] = [quotient |-> gpga_wide_zero(w), rem |-> gpga_wide_zero(w)]
                /\ \A i \in 1..w : h[i] = DivTurn(num, den, w, i, h[i - 1])
                /\ LongDivision(num, den, w) = h[w]
<1> DEFINE N == w
           F(i, x) == DivTurn(num, den, w, i, x)
           Is(g) == g = [i \in 0..N |-> IF i = 0
                 THEN [quotient |-> gpga_wide_zero(w), rem |-> gpga_wide_zero(w)]
                       ELSE DivTurn(num, den, w, i, g[i - 1])]
           S == [i \in 1..N |-> [x \in Divided(w) |-> F(i, x)]]
<1>1. N \in Nat /\ [quotient |-> gpga_wide_zero(w), rem |-> gpga_wide_zero(w)] \in Divided(w)
  BY ZeroIs DEF Divided
<1>2. ASSUME NEW i \in 1..N, NEW x \in Divided(w) PROVE F(i, x) \in Divided(w)
  BY DivTurnFits
<1>3. \E g : Is(g)
  <2> HIDE DEF F, Is
  <2>1. S \in [1..N -> [Divided(w) -> Divided(w)]]
    BY <1>2
  <2>2. PICK g : IsRecursion(g, N, Divided(w),
                           [quotient |-> gpga_wide_zero(w), rem |-> gpga_wide_zero(w)], S)
    <3> HIDE DEF S, N
    <3> QED
      BY <1>1, <2>1, RecursionExists
  <2>3. g \in [0..N -> Divided(w)]
        /\ g[0] = [quotient |-> gpga_wide_zero(w), rem |-> gpga_wide_zero(w)]
    BY <2>2 DEF IsRecursion
  <2>4. ASSUME NEW i \in 1..N PROVE g[i] = F(i, g[i - 1])
    <3>1. g[i] = S[i][g[i - 1]]
      BY <2>2 DEF IsRecursion
    <3>2. i - 1 \in 0..N
      BY <1>1
    <3>3. g[i - 1] \in Divided(w)
      BY <2>3, <3>2
    <3> QED
      BY <3>1, <3>3
  <2>5. g = [i \in 0..N |-> IF i = 0
        THEN [quotient |-> gpga_wide_zero(w), rem |-> gpga_wide_zero(w)] ELSE F(i, g[i - 1])]
    <3>1. ASSUME NEW i \in 0..N
          PROVE g[i] = IF i = 0 THEN [quotient |-> gpga_wide_zero(w), rem |-> gpga_wide_zero(w)]
                ELSE F(i, g[i - 1])
      <4>1. i # 0 => i \in 1..N
        BY <1>1
      <4> QED
        BY <2>3, <2>4, <4>1
    <3> QED
      BY <2>3, <3>1
  <2> QED
    BY <2>5 DEF F, Is
<1> DEFINE h == CHOOSE g : Is(g)
<1>4. Is(h)
  <2> HIDE DEF Is
  <2> QED
    BY <1>3, Zenon
<1>5. LongDivision(num, den, w) = h[w]
  BY DEF LongDivision, DivTurn, Shifted
<1> HIDE DEF h
<1>6. h[0] = [quotient |-> gpga_wide_zero(w), rem |-> gpga_wide_zero(w)]
  BY <1>1, <1>4
<1>7. \A i \in 1..N : h[i] = F(i, h[i - 1])
  <2> HIDE DEF F
  <2> SUFFICES ASSUME NEW i \in 1..N PROVE h[i] = F(i, h[i - 1])
    OBVIOUS
  <2>1. i \in 0..N /\ i # 0
    BY <1>1
  <2>2. h[i] = IF i = 0 THEN [quotient |-> gpga_wide_zero(w), rem |-> gpga_wide_zero(w)]
        ELSE F(i, h[i - 1])
    BY <1>4, <2>1 DEF F
  <2> QED
    BY <2>1, <2>2
<1> QED
  BY <1>5, <1>6, <1>7

\* A remainder with the next bit behind it, when there is room for one.
LEMMA ShiftedIs ==
  ASSUME NEW w \in Nat \ {0}, NEW num \in Wide(w), NEW rem \in Wide(w), NEW bit \in 0..(w - 1),
         2 * WideNum(rem) + 1 < 2^w
  PROVE  WideNum(Shifted(num, w, bit, rem)) = 2 * WideNum(rem) + BitOf(WideNum(num), bit)
<1> DEFINE v == gpga_wide_shl(rem, 1, w)  r == WideNum(rem)  c == gpga_wide_get_bit(num, bit, w)
<1>1. r \in Nat /\ 2^1 = 2 /\ 2^0 = 1 /\ 0 \in 0..(w - 1)
  BY WideFacts
<1>2. v \in Wide(w) /\ WideNum(v) = (r * 2^1) % 2^w
  BY 1 \in Nat, ShlIs
<1> HIDE DEF v, r
<1>3. WideNum(v) = 2 * r
  <2>1. r * 2^1 = 2 * r /\ 2 * r \in Nat /\ 2 * r < 2^w
    BY <1>1, TwoPositive DEF r
  <2> QED
    BY <1>2, <2>1, Reduced
<1>4. ~Digit(WideNum(v), 0)
  <2>1. (2 * r) \div 1 = 2 * r /\ ~((2 * r) % 2 = 1)
    BY <1>1
  <2> QED
    BY <1>1, <1>3, <2>1 DEF Digit
<1>5. WideNum(gpga_wide_set_bit(v, 0, 1, w)) = 2 * r + 1
  BY <1>1, <1>2, <1>3, <1>4, SetBitIs
<1>6. c = BitOf(WideNum(num), bit) /\ c \in {0, 1}
  BY GetBitIs
<1>7. Shifted(num, w, bit, rem) = IF c # 0 THEN gpga_wide_set_bit(v, 0, 1, w) ELSE v
  BY DEF Shifted, v
<1> HIDE DEF c
<1> QED
  BY <1>1, <1>3, <1>5, <1>6, <1>7 DEF r

\* Long division: after some turns, the quotient and remainder of the bits seen so far.
LEMMA LongDivisionIs ==
  ASSUME NEW w \in Nat \ {0}, NEW num \in Wide(w), NEW den \in Wide(w), WideNum(den) # 0
  PROVE  LET d == LongDivision(num, den, w)
         IN  /\ d.quotient \in Wide(w) /\ WideNum(d.quotient) = WideNum(num) \div WideNum(den)
             /\ d.rem \in Wide(w) /\ WideNum(d.rem) = WideNum(num) % WideNum(den)
<1> DEFINE m == WideNum(num)  n == WideNum(den)  p == 2^w
<1>1. PICK h : /\ h[0] = [quotient |-> gpga_wide_zero(w), rem |-> gpga_wide_zero(w)]
               /\ \A i \in 1..w : h[i] = DivTurn(num, den, w, i, h[i - 1])
               /\ LongDivision(num, den, w) = h[w]
  BY DivSteps
<1>2. m \in Nat /\ m < p /\ n \in Nat /\ n > 0 /\ n < p /\ p \in Nat /\ p > 0
  BY WideFacts
<1> DEFINE Leading(i) == m \div 2^(w - i)
           IsGood(i) == /\ h[i] \in Divided(w)
                        /\ WideNum(h[i].quotient) = 2^(w - i) * (Leading(i) \div n)
                        /\ WideNum(h[i].rem) = Leading(i) % n
           S == {i \in 0..w : IsGood(i)}
<1> HIDE DEF m, n, p
<1>3. 0 \in S
  <2>1. Leading(0) = 0
    <3>1. w - 0 = w
      OBVIOUS
    <3>2. m \div p = 0
      BY <1>2, Remaining
    <3> QED
      BY <3>1, <3>2 DEF p
  <2>2. 0 \div n = 0 /\ 0 % n = 0
    BY <1>2, Remaining
  <2>3. 2^(w - 0) \in Nat
    BY w - 0 \in Nat, TwoPositive
  <2>4. h[0] \in Divided(w) /\ WideNum(h[0].quotient) = 0 /\ WideNum(h[0].rem) = 0
    BY <1>1, ZeroIs DEF Divided
  <2> DEFINE e == 2^(w - 0)
  <2>5. e * 0 = 0
    BY <2>3
  <2> HIDE DEF Leading, e
  <2>6. IsGood(0)
    BY <2>1, <2>2, <2>4, <2>5 DEF e
  <2> QED
    BY <2>6
<1>4. ASSUME NEW i \in 1..w, i - 1 \in S PROVE i \in S
  <2> DEFINE last == h[i - 1]  bit == w - i  e == 2^bit  beta == BitOf(m, bit)
             g == Leading(i - 1)  k == Leading(i)  q == g \div n  r == g % n
             rem == Shifted(num, w, bit, last.rem)
  <2>1. i \in 0..w /\ bit \in Nat /\ bit \in 0..(w - 1) /\ w - (i - 1) = bit + 1 /\ i - 1 \in Nat
    OBVIOUS
  <2>2. /\ last \in Divided(w) /\ WideNum(last.quotient) = 2^(bit + 1) * q
        /\ WideNum(last.rem) = r
    BY <1>4, <2>1
  <2>3. last.quotient \in Wide(w) /\ last.rem \in Wide(w)
    BY <2>2 DEF Divided
  <2>4. h[i] = DivTurn(num, den, w, i, last)
    BY <1>1
  <2>5. h[i] \in Divided(w)
    BY <2>2, <2>4, DivTurnFits
  <2>6. e \in Nat /\ e > 0 /\ 2^(bit + 1) = 2 * e
    BY <2>1, TwoPositive, TwoTimes
  <2>7. g \in Nat /\ k \in Nat /\ k = 2 * g + beta /\ beta \in {0, 1}
    <3>1. g = m \div 2^(bit + 1) /\ k = m \div 2^bit
      BY <2>1
    <3>2. beta \in {0, 1}
      BY <1>2, <2>1, m \in Int, DigitIsBit
    <3> HIDE DEF g, k, beta, bit
    <3> QED
      BY <1>2, <2>1, <3>1, <3>2, HalfQuotient DEF beta
  <2>8. q \in Nat /\ r \in Nat /\ r < n /\ g = n * q + r
    <3> HIDE DEF g
    <3>1. q \in Nat
      BY <1>2, <2>7, QuotientBelow
    <3>2. r \in Nat /\ r < n /\ g = n * q + r
      BY <1>2, <2>7, g \in Int, DivisionBy
    <3> QED
      BY <3>1, <3>2
  <2>9. 2 * r + 1 < p
    <3>1. p = 2^(bit + 1) * 2^(i - 1)
      <4>1. (bit + 1) + (i - 1) = w /\ bit + 1 \in Nat
        BY <2>1
      <4>2. 2^((bit + 1) + (i - 1)) = 2^(bit + 1) * 2^(i - 1)
        BY <2>1, <4>1, TwoSum
      <4> QED
        BY <4>1, <4>2 DEF p
    <3> DEFINE c == 2^(i - 1)  d == 2^(bit + 1)
    <3>2. c \in Nat /\ c > 0 /\ d \in Nat /\ d > 0 /\ d = 2 * e /\ p = d * c
      BY <2>1, <2>6, <3>1, TwoPositive
    <3>3. g = m \div d
      BY <2>1
    <3>4. m % d \in Nat /\ m = d * g + (m % d)
      BY <1>2, <3>2, <3>3, m \in Int, DivisionBy
    <3> DEFINE y == m % d
    <3> HIDE DEF c, d, y, g
    <3>5. g < c
      <4> SUFFICES ASSUME g >= c PROVE FALSE
        BY <2>7, <3>2
      <4>1. d * g >= d * c
        BY <2>7, <3>2
      <4>2. d * g \in Nat /\ y \in Nat /\ m = d * g + y
        BY <2>7, <3>2, <3>4 DEF y
      <4> QED
        BY <1>2, <3>2, <4>1, <4>2
    <3>6. r <= g
      <4>1. n * q \in Nat
        BY <1>2, <2>8
      <4> HIDE DEF q, r
      <4> QED
        BY <2>7, <2>8, <4>1
    <3>7. 2 * c <= p
      <4>1. 1 <= e /\ 2 * (e * c) = p /\ c <= e * c
        BY <2>6, <3>2
      <4> QED
        BY <1>2, <2>6, <3>2, <4>1
    <3> HIDE DEF r, q
    <3> QED
      BY <1>2, <2>7, <2>8, <3>2, <3>5, <3>6, <3>7
  <2>10. rem \in Wide(w) /\ WideNum(rem) = 2 * r + beta
    <3>1. rem \in Wide(w)
      BY <2>3, ShiftedFits
    <3>2. 2 * WideNum(last.rem) + 1 < 2^w
      BY <2>2, <2>9 DEF p
    <3>3. WideNum(rem) = 2 * WideNum(last.rem) + BitOf(WideNum(num), bit)
      BY <2>1, <2>3, <3>2, ShiftedIs
    <3> QED
      BY <2>2, <3>1, <3>3 DEF m
  <2>11. k = n * (2 * q) + (2 * r + beta)
    <3> HIDE DEF k, g, q, r, beta
    <3>1. n * (2 * q) = 2 * (n * q) /\ n * q \in Nat
      BY <1>2, <2>8
    <3> QED
      BY <1>2, <2>7, <2>8, <3>1
  <2>12. h[i] = IF gpga_wide_lt_u(rem, den, w) THEN [last EXCEPT !.rem = rem]
                ELSE [quotient |-> gpga_wide_set_bit(last.quotient, bit, 1, w),
                      rem |-> gpga_wide_sub(rem, den, w)]
    BY <2>4 DEF DivTurn
  <2>13. gpga_wide_lt_u(rem, den, w) <=> 2 * r + beta < n
    BY <2>10, LtUIs DEF n
  <2> HIDE DEF rem, k, g, q, r, beta, last
  <2>14. CASE 2 * r + beta < n
    <3>1. h[i] = [last EXCEPT !.rem = rem]
      BY <2>12, <2>13, <2>14
    <3>2. h[i].quotient = last.quotient /\ h[i].rem = rem
      BY <2>2, <3>1 DEF Divided
    <3> DEFINE s == 2 * q  t == 2 * r + beta
    <3>3. s \in Int /\ t \in Nat /\ t < n /\ k = n * s + t
      BY <2>7, <2>8, <2>11, <2>14
    <3> HIDE DEF s, t
    <3>4. k \div n = s /\ k % n = t
      BY <1>2, <2>7, <3>3, k \in Int, DivisionIs
    <3>5. WideNum(h[i].quotient) = e * (k \div n)
      <4>1. WideNum(h[i].quotient) = (2 * e) * q
        BY <2>2, <2>6, <3>2
      <4>2. e * s = (2 * e) * q
        BY <2>6, <2>8 DEF s
      <4> QED
        BY <3>4, <4>1, <4>2
    <3>6. WideNum(h[i].rem) = k % n
      BY <2>10, <3>2, <3>4 DEF t
    <3> QED
      BY <2>1, <2>5, <3>5, <3>6 DEF k
  <2>15. CASE ~(2 * r + beta < n)
    <3>1. /\ h[i].quotient = gpga_wide_set_bit(last.quotient, bit, 1, w)
          /\ h[i].rem = gpga_wide_sub(rem, den, w)
      BY <2>12, <2>13, <2>15
    <3> DEFINE s == 2 * q + 1  t == 2 * r + beta - n
    <3>2. s \in Int /\ t \in Nat /\ t < n
      BY <1>2, <2>7, <2>8, <2>15
    <3>3. k = n * s + t
      <4>1. n * (2 * q + 1) = n * (2 * q) + n /\ n * (2 * q) \in Nat
        BY <1>2, <2>8
      <4> QED
        BY <1>2, <2>7, <2>8, <2>11, <4>1
    <3>4. t = (2 * r + beta) - n
      BY <1>2, <2>7, <2>8
    <3> HIDE DEF s, t
    <3>5. k \div n = s /\ k % n = t
      BY <1>2, <2>7, <3>2, <3>3, k \in Int, DivisionIs
    <3>6. WideNum(h[i].rem) = k % n
      <4>1. WideNum(h[i].rem) = (WideNum(rem) - n) % p
        BY <2>10, <3>1, SubIs DEF n, p
      <4>2. WideNum(rem) - n = t /\ t < p
        BY <1>2, <2>10, <3>2, <3>4
      <4> QED
        BY <1>2, <3>2, <3>5, <4>1, <4>2, Remaining
    <3>7. ~Digit(WideNum(last.quotient), bit)
      <4>1. q \in Int /\ bit + 1 \in Nat
        BY <2>1, <2>8
      <4>2. Digit(q * 2^(bit + 1), bit) <=> bit >= bit + 1 /\ Digit(q, bit - (bit + 1))
        BY <2>1, <4>1, MultipleDigits
      <4>3. ~(bit >= bit + 1)
        BY <2>1
      <4>4. q * 2^(bit + 1) = WideNum(last.quotient)
        <5> HIDE DEF e
        <5>1. q * (2 * e) = (2 * e) * q
          BY <2>6, <2>8
        <5> QED
          BY <2>2, <2>6, <5>1
      <4> QED
        BY <4>2, <4>3, <4>4
    <3>8. WideNum(h[i].quotient) = WideNum(last.quotient) + e
      BY <2>1, <2>3, <3>1, <3>7, SetBitIs
    <3>9. WideNum(h[i].quotient) = e * (k \div n)
      <4> HIDE DEF e
      <4>1. (2 * e) * q + e = e * (2 * q + 1)
        BY <2>6, <2>8
      <4> QED
        BY <2>2, <2>6, <3>5, <3>8, <4>1 DEF s
    <3> QED
      BY <2>1, <2>5, <3>6, <3>9 DEF k
  <2> QED
    BY <2>14, <2>15
<1>5. w \in S
  <2> HIDE DEF S
  <2>1. \A i \in 0..w : i \in S
    BY <1>3, <1>4, UpToInduction
  <2> QED
    BY <2>1
<1>6. IsGood(w)
  BY <1>5
<1>7. Leading(w) = m /\ 2^(w - w) = 1
  <2>1. w - w = 0 /\ 2^0 = 1
    OBVIOUS
  <2>2. 2^(w - w) = 1
    BY <2>1
  <2>3. m \div 1 = m
    BY <1>2
  <2> QED
    BY <2>2, <2>3
<1>8. m \div n \in Nat
  BY <1>2, QuotientBelow
<1> DEFINE x == m \div n
<1>9. 1 * x = x
  BY <1>8
<1> HIDE DEF x
<1>10. h[w] \in Divided(w) /\ WideNum(h[w].quotient) = m \div n /\ WideNum(h[w].rem) = m % n
  <2> HIDE DEF Leading
  <2> QED
    BY <1>6, <1>7, <1>9 DEF x
<1> QED
  BY <1>1, <1>10 DEF Divided, m, n

LEMMA DivIs ==
  ASSUME NEW w \in Nat \ {0}, NEW num \in Wide(w), NEW den \in Wide(w)
  PROVE  /\ gpga_wide_div(num, den, w) \in Wide(w) /\ gpga_wide_mod(num, den, w) \in Wide(w)
         /\ WideNum(gpga_wide_div(num, den, w))
              = IF WideNum(den) = 0 THEN 0 ELSE WideNum(num) \div WideNum(den)
         /\ WideNum(gpga_wide_mod(num, den, w))
              = IF WideNum(den) = 0 THEN 0 ELSE WideNum(num) % WideNum(den)
<1>1. gpga_wide_any(den, w) <=> WideNum(den) # 0
  BY AnyIs
<1>2. CASE WideNum(den) = 0
  BY <1>1, <1>2, ZeroIs DEF gpga_wide_div, gpga_wide_mod
<1>3. CASE WideNum(den) # 0
  BY <1>1, <1>3, LongDivisionIs DEF gpga_wide_div, gpga_wide_mod
<1> QED
  BY <1>2, <1>3

-----------------------------------------------------------------------------
(* Powers.                                                                 *)

\* One turn of the loop of gpga_wide_pow_u.
Powers(w) == [result: Wide(w), cur: Wide(w)]

PowTurn(e, w, i, last) ==
    [result |-> IF ShiftRight(e, i - 1) % 2 = 1 THEN gpga_wide_mul(last.result, last.cur, w)
                ELSE last.result,
     cur |-> gpga_wide_mul(last.cur, last.cur, w)]

LEMMA PowTurnFits ==
  ASSUME NEW w \in Nat \ {0}, NEW e, NEW i, NEW x \in Powers(w)
  PROVE  PowTurn(e, w, i, x) \in Powers(w)
<1>1. x.result \in Wide(w) /\ x.cur \in Wide(w)
  BY DEF Powers
<1>2. gpga_wide_mul(x.result, x.cur, w) \in Wide(w) /\ gpga_wide_mul(x.cur, x.cur, w) \in Wide(w)
  BY <1>1, MulIs
<1> QED
  BY <1>1, <1>2 DEF PowTurn, Powers

LEMMA PowSteps ==
  ASSUME NEW w \in Nat \ {0}, NEW base \in Wide(w), NEW e
  PROVE  \E h : /\ h[0] = [result |-> gpga_wide_from_u64(1, w), cur |-> base]
                /\ \A i \in 1..LimbBits : h[i] = PowTurn(e, w, i, h[i - 1])
                /\ PowerTurns(base, e, w) = h[LimbBits].result
<1> DEFINE N == LimbBits
           F(i, x) == PowTurn(e, w, i, x)
           Is(g) == g = [i \in 0..N |-> IF i = 0
                 THEN [result |-> gpga_wide_from_u64(1, w), cur |-> base]
                       ELSE PowTurn(e, w, i, g[i - 1])]
           S == [i \in 1..N |-> [x \in Powers(w) |-> F(i, x)]]
<1>1. N \in Nat /\ [result |-> gpga_wide_from_u64(1, w), cur |-> base] \in Powers(w)
  BY OneIs, WordFacts DEF Powers
<1>2. ASSUME NEW i \in 1..N, NEW x \in Powers(w) PROVE F(i, x) \in Powers(w)
  BY PowTurnFits
<1>3. \E g : Is(g)
  <2> HIDE DEF F, Is
  <2>1. S \in [1..N -> [Powers(w) -> Powers(w)]]
    BY <1>2
  <2>2. PICK g : IsRecursion(g, N, Powers(w),
                           [result |-> gpga_wide_from_u64(1, w), cur |-> base], S)
    <3> HIDE DEF S, N
    <3> QED
      BY <1>1, <2>1, RecursionExists
  <2>3. g \in [0..N -> Powers(w)] /\ g[0] = [result |-> gpga_wide_from_u64(1, w), cur |-> base]
    BY <2>2 DEF IsRecursion
  <2>4. ASSUME NEW i \in 1..N PROVE g[i] = F(i, g[i - 1])
    <3>1. g[i] = S[i][g[i - 1]]
      BY <2>2 DEF IsRecursion
    <3>2. i - 1 \in 0..N
      BY <1>1
    <3>3. g[i - 1] \in Powers(w)
      BY <2>3, <3>2
    <3> QED
      BY <3>1, <3>3
  <2>5. g = [i \in 0..N |-> IF i = 0 THEN [result |-> gpga_wide_from_u64(1, w), cur |-> base]
        ELSE F(i, g[i - 1])]
    <3>1. ASSUME NEW i \in 0..N
          PROVE g[i] = IF i = 0 THEN [result |-> gpga_wide_from_u64(1, w), cur |-> base]
                ELSE F(i, g[i - 1])
      <4>1. i # 0 => i \in 1..N
        BY <1>1
      <4> QED
        BY <2>3, <2>4, <4>1
    <3> QED
      BY <2>3, <3>1
  <2> QED
    BY <2>5 DEF F, Is
<1> DEFINE h == CHOOSE g : Is(g)
<1>4. Is(h)
  <2> HIDE DEF Is
  <2> QED
    BY <1>3, Zenon
<1>5. PowerTurns(base, e, w) = h[LimbBits].result
  BY DEF PowerTurns, PowTurn
<1> HIDE DEF h
<1>6. h[0] = [result |-> gpga_wide_from_u64(1, w), cur |-> base]
  BY <1>1, <1>4
<1>7. \A i \in 1..N : h[i] = F(i, h[i - 1])
  <2> HIDE DEF F
  <2> SUFFICES ASSUME NEW i \in 1..N PROVE h[i] = F(i, h[i - 1])
    OBVIOUS
  <2>1. i \in 0..N /\ i # 0
    BY <1>1
  <2>2. h[i] = IF i = 0 THEN [result |-> gpga_wide_from_u64(1, w), cur |-> base]
        ELSE F(i, h[i - 1])
    BY <1>4, <2>1 DEF F
  <2> QED
    BY <2>1, <2>2
<1> QED
  BY <1>5, <1>6, <1>7

\* After some turns: the power by the low bits of the exponent, and the next square.
LEMMA PowerTurnsIs ==
  ASSUME NEW w \in Nat \ {0}, NEW base \in Wide(w), NEW e \in 0..Ones
  PROVE  /\ PowerTurns(base, e, w) \in Wide(w)
         /\ WideNum(PowerTurns(base, e, w)) = Raised(WideNum(base), e) % 2^w
<1> DEFINE m == WideNum(base)  p == 2^w
<1>1. PICK h : /\ h[0] = [result |-> gpga_wide_from_u64(1, w), cur |-> base]
               /\ \A i \in 1..LimbBits : h[i] = PowTurn(e, w, i, h[i - 1])
               /\ PowerTurns(base, e, w) = h[LimbBits].result
  BY PowSteps
<1>2. m \in Nat /\ m < p /\ p \in Nat /\ p > 0
  BY WideFacts
<1>3. e \in Nat /\ LimbBits \in Nat /\ e < 2^LimbBits
  BY WordFacts
<1> DEFINE IsGood(i) == /\ h[i] \in Powers(w)
                        /\ WideNum(h[i].result) = Raised(m, e % 2^i) % p
                        /\ WideNum(h[i].cur) = Raised(m, 2^i) % p
           S == {i \in 0..LimbBits : IsGood(i)}
<1>4. 0 \in S
  <2>1. 2^0 = 1 /\ e % 1 = 0
    BY <1>3
  <2>2. Raised(m, 0) = 1 /\ Raised(m, 1) = m
    <3>1. Raised(m, 0) = 1 /\ Raised(m, 0 + 1) = m * Raised(m, 0)
      BY RaisedStep
    <3> QED
      BY <1>2, <3>1
  <2>3. m % p = m
    BY <1>2, Remaining
  <2>4. h[0] \in Powers(w) /\ WideNum(h[0].result) = 1 % p /\ WideNum(h[0].cur) = m
    BY <1>1, OneIs DEF Powers
  <2> HIDE DEF m, p
  <2>5. IsGood(0)
    BY <2>1, <2>2, <2>3, <2>4
  <2> QED
    BY <1>3, <2>5
<1>5. ASSUME NEW i \in 1..LimbBits, i - 1 \in S PROVE i \in S
  <2> DEFINE j == i - 1  last == h[i - 1]  q == 2^j  low == e % q
             x == Raised(m, low)  y == Raised(m, q)
             bit == (e \div q) % 2 = 1
  <2>1. j \in Nat /\ i = j + 1 /\ i \in 0..LimbBits
    BY <1>3
  <2>2. last \in Powers(w) /\ WideNum(last.result) = x % p /\ WideNum(last.cur) = y % p
    BY <1>5
  <2>3. last.result \in Wide(w) /\ last.cur \in Wide(w)
    BY <2>2 DEF Powers
  <2>4. h[i] = PowTurn(e, w, i, last)
    BY <1>1
  <2>5. h[i] \in Powers(w)
    BY <2>2, <2>4, PowTurnFits
  <2>6. q \in Nat /\ q > 0 /\ 2^i = q + q
    <3>1. 2^(j + 1) = 2 * 2^j /\ 2^j \in Nat /\ 2^j > 0
      BY <2>1, TwoPositive, TwoTimes
    <3> QED
      BY <2>1, <3>1
  <2>7. low \in Nat
    BY <1>3, <2>6, e \in Int, DivisionBy
  <2>8. e % 2^i = IF bit THEN low + q ELSE low
    <3>1. e % 2^(j + 1) = IF (e \div 2^j) % 2 = 1 THEN (e % 2^j) + 2^j ELSE e % 2^j
      BY <1>3, <2>1, OneMoreBit
    <3> QED
      BY <2>1, <3>1
  <2>9. /\ h[i].result = IF bit THEN gpga_wide_mul(last.result, last.cur, w) ELSE last.result
        /\ h[i].cur = gpga_wide_mul(last.cur, last.cur, w)
    BY <2>4 DEF PowTurn, ShiftRight
  <2> HIDE DEF m, p, q, low, bit, last
  <2>10. x \in Nat /\ y \in Nat /\ Raised(m, q + q) = y * y /\ Raised(m, low + q) = x * y
    BY <1>2, <2>6, <2>7, RaisedNat, RaisedSum
  <2>11. /\ Raised(m, 2^i) = y * y
         /\ Raised(m, e % 2^i) = IF bit THEN x * y ELSE x
    BY <2>6, <2>8, <2>10
  <2> HIDE DEF x, y
  <2>12. \A r, s \in Nat : ((r % p) * (s % p)) % p = (r * s) % p
    BY <1>2, ModuloProducts, Zenon
  <2>13. ((y % p) * (y % p)) % p = (y * y) % p /\ ((x % p) * (y % p)) % p = (x * y) % p
    BY <2>10, <2>12, Zenon
  <2>14. WideNum(gpga_wide_mul(last.cur, last.cur, w)) = ((y % p) * (y % p)) % p
    BY <2>2, <2>3, MulIs DEF p, x, y
  <2>15. WideNum(gpga_wide_mul(last.result, last.cur, w)) = ((x % p) * (y % p)) % p
    BY <2>2, <2>3, MulIs DEF p, x, y
  <2>16. WideNum(h[i].cur) = Raised(m, 2^i) % p
    BY <2>9, <2>11, <2>13, <2>14
  <2>17. WideNum(h[i].result) = Raised(m, e % 2^i) % p
    BY <2>2, <2>9, <2>11, <2>13, <2>15 DEF x
  <2> QED
    BY <2>1, <2>5, <2>16, <2>17
<1>6. LimbBits \in S
  <2> HIDE DEF S
  <2>1. \A i \in 0..LimbBits : i \in S
    BY <1>3, <1>4, <1>5, UpToInduction
  <2> QED
    BY <1>3, <2>1
<1>7. e % 2^LimbBits = e
  BY <1>3, Reduced
<1> QED
  BY <1>1, <1>6, <1>7 DEF Powers

LEMMA ModSteps ==
  ASSUME NEW m \in Nat, NEW n \in Nat, NEW mod \in Nat, mod > 0
  PROVE  \E h : /\ h[0] = 1 % mod
                /\ \A i \in 1..n : h[i] = (h[i - 1] * m) % mod
                /\ PowerMod(m, n, mod) = h[n]
<1> DEFINE N == n
           F(i, x) == (x * m) % mod
           Is(g) == g = [i \in 0..N |-> IF i = 0 THEN 1 % mod ELSE (g[i - 1] * m) % mod]
           S == [i \in 1..N |-> [x \in Nat |-> F(i, x)]]
<1>1. N \in Nat /\ 1 % mod \in Nat
  BY 1 \in Int, DivisionBy
<1>2. ASSUME NEW i \in 1..N, NEW x \in Nat PROVE F(i, x) \in Nat
  <2>1. x * m \in Nat
    BY <1>2
  <2> QED
    BY <2>1, x * m \in Int, DivisionBy
<1>3. \E g : Is(g)
  <2> HIDE DEF F, Is
  <2>1. S \in [1..N -> [Nat -> Nat]]
    BY <1>2
  <2>2. PICK g : IsRecursion(g, N, Nat, 1 % mod, S)
    <3> HIDE DEF S, N
    <3> QED
      BY <1>1, <2>1, RecursionExists
  <2>3. g \in [0..N -> Nat] /\ g[0] = 1 % mod
    BY <2>2 DEF IsRecursion
  <2>4. ASSUME NEW i \in 1..N PROVE g[i] = F(i, g[i - 1])
    <3>1. g[i] = S[i][g[i - 1]]
      BY <2>2 DEF IsRecursion
    <3>2. i - 1 \in 0..N
      BY <1>1
    <3>3. g[i - 1] \in Nat
      BY <2>3, <3>2
    <3> QED
      BY <3>1, <3>3
  <2>5. g = [i \in 0..N |-> IF i = 0 THEN 1 % mod ELSE F(i, g[i - 1])]
    <3>1. ASSUME NEW i \in 0..N PROVE g[i] = IF i = 0 THEN 1 % mod ELSE F(i, g[i - 1])
      <4>1. i # 0 => i \in 1..N
        BY <1>1
      <4> QED
        BY <2>3, <2>4, <4>1
    <3> QED
      BY <2>3, <3>1
  <2> QED
    BY <2>5 DEF F, Is
<1> DEFINE h == CHOOSE g : Is(g)
<1>4. Is(h)
  <2> HIDE DEF Is
  <2> QED
    BY <1>3, Zenon
<1>5. PowerMod(m, n, mod) = h[n]
  BY DEF PowerMod
<1> HIDE DEF h
<1>6. h[0] = 1 % mod
  BY <1>1, <1>4
<1>7. \A i \in 1..N : h[i] = F(i, h[i - 1])
  <2> HIDE DEF F
  <2> SUFFICES ASSUME NEW i \in 1..N PROVE h[i] = F(i, h[i - 1])
    OBVIOUS
  <2>1. i \in 0..N /\ i # 0
    BY <1>1
  <2>2. h[i] = IF i = 0 THEN 1 % mod ELSE F(i, h[i - 1])
    BY <1>4, <2>1 DEF F
  <2> QED
    BY <2>1, <2>2
<1> QED
  BY <1>5, <1>6, <1>7

\* The power the answer is compared with, multiplied up one factor at a time.
LEMMA PowerModIs ==
  ASSUME NEW m \in Nat, NEW n \in Nat, NEW mod \in Nat, mod > 0
  PROVE  PowerMod(m, n, mod) = Raised(m, n) % mod
<1>1. PICK h : /\ h[0] = 1 % mod
               /\ \A i \in 1..n : h[i] = (h[i - 1] * m) % mod
               /\ PowerMod(m, n, mod) = h[n]
  BY ModSteps
<1> DEFINE S == {i \in 0..n : h[i] = Raised(m, i) % mod}
<1>2. 0 \in S
  BY <1>1, RaisedStep
<1>3. ASSUME NEW i \in 1..n, i - 1 \in S PROVE i \in S
  <2> DEFINE x == Raised(m, i - 1)
  <2>1. i - 1 \in Nat /\ (i - 1) + 1 = i /\ i \in 0..n
    OBVIOUS
  <2>2. h[i] = ((x % mod) * m) % mod
    BY <1>1, <1>3
  <2>3. x \in Nat /\ Raised(m, i) = m * x
    <3>1. Raised(m, (i - 1) + 1) = m * Raised(m, i - 1)
      BY <2>1, RaisedStep
    <3> QED
      BY <2>1, <3>1, RaisedNat
  <2> HIDE DEF x
  <2>4. ((x % mod) * m) % mod = (x * m) % mod
    BY <2>3, x \in Int, m \in Int, ModuloTimes
  <2>5. x * m = m * x
    BY <2>3
  <2> QED
    BY <2>1, <2>2, <2>3, <2>4, <2>5
<1>4. n \in S
  <2> HIDE DEF S
  <2>1. \A i \in 0..n : i \in S
    BY <1>2, <1>3, UpToInduction
  <2> QED
    BY <2>1
<1> QED
  BY <1>1, <1>4

LEMMA PowIs ==
  ASSUME NEW w \in Nat \ {0}, NEW a \in Wide(w), NEW b \in Wide(w)
  PROVE  /\ gpga_wide_pow_u(a, b, w) \in Wide(w) /\ gpga_wide_pow_s(a, b, w) \in Wide(w)
         /\ WideNum(gpga_wide_pow_u(a, b, w)) = PowerMod(WideNum(a), b[1], 2^w)
         /\ WideNum(gpga_wide_pow_s(a, b, w))
              = IF 2 * b[1] >= Base THEN 0 ELSE PowerMod(WideNum(a), b[1], 2^w)
<1>1. b[1] \in 0..Ones /\ b[1] \in Nat
  <2>1. 1 \in 1..Words(w)
    BY WidthFacts
  <2>2. b[1] \in 0..Ones
    BY <2>1, WideFacts
  <2> QED
    BY <2>2, WordFacts
<1>2. /\ gpga_wide_pow_u(a, b, w) \in Wide(w)
      /\ WideNum(gpga_wide_pow_u(a, b, w)) = PowerMod(WideNum(a), b[1], 2^w)
  <2>1. PowerMod(WideNum(a), b[1], 2^w) = Raised(WideNum(a), b[1]) % 2^w
    BY <1>1, WideFacts, PowerModIs
  <2> QED
    BY <1>1, <2>1, PowerTurnsIs DEF gpga_wide_pow_u, gpga_wide_to_u64
<1>3. b[1] >= Base \div 2 <=> 2 * b[1] >= Base
  <2> DEFINE half == 2^(LimbBits - 1)
  <2>1. LimbBits - 1 \in Nat /\ (LimbBits - 1) + 1 = LimbBits
    BY WordFacts
  <2>2. half \in Nat /\ Base = 2 * half
    BY <2>1, TwoPositive, TwoTimes DEF Base
  <2> HIDE DEF half
  <2>3. Base \div 2 = half
    BY <2>2
  <2> QED
    BY <1>1, <2>2, <2>3
<1> QED
  BY <1>2, <1>3, ZeroIs DEF gpga_wide_pow_s, gpga_wide_to_u64

-----------------------------------------------------------------------------
(* Parity.                                                                 *)

\* One turn of the loop of gpga_wide_red_xor.
SeenParity(a, w, i) == Parity(Seen(a, i, w))

ParityTurn(a, w, i, last) == (last + Parity(Seen(a, i, w))) % 2

LEMMA FiniteDigits ==
  ASSUME NEW m, NEW n \in Int
  PROVE  IsFiniteSet(Digits(m, n)) /\ Cardinality(Digits(m, n)) \in Nat
<1>1. IsFiniteSet(0..(n - 1)) /\ Digits(m, n) \in SUBSET (0..(n - 1))
  BY n - 1 \in Int, FS_Interval DEF Digits
<1>2. IsFiniteSet(Digits(m, n))
  BY <1>1, FS_Subset
<1> QED
  BY <1>2, FS_CardinalityType

LEMMA SeenParityIs ==
  ASSUME NEW w \in Nat \ {0}, NEW a \in Wide(w), NEW i \in 1..Words(w)
  PROVE  /\ SeenParity(a, w, i) = Cardinality(Digits(a[i], LimbBits)) % 2
         /\ SeenParity(a, w, i) \in Nat
<1>1. Seen(a, i, w) = a[i]
  BY SeenIs
<1>2. {n \in 0..(LimbBits - 1): ShiftRight(a[i], n) % 2 = 1} = Digits(a[i], LimbBits)
  BY DEF Digits, Digit, ShiftRight
<1>3. SeenParity(a, w, i) = Cardinality(Digits(a[i], LimbBits)) % 2
  BY <1>1, <1>2 DEF SeenParity, Parity
<1>4. Cardinality(Digits(a[i], LimbBits)) \in Int
  BY WordFacts, LimbBits \in Int, FiniteDigits
<1> QED
  BY <1>3, <1>4, 2 \in Nat, 2 > 0, DivisionBy

\* The digits of one word more.
LEMMA DigitsOfTheNextWord ==
  ASSUME NEW w \in Nat \ {0}, NEW a \in Wide(w), NEW k \in 1..Words(w)
  PROVE  Cardinality(Digits(WideNum(a), LimbBits * k))
           = Cardinality(Digits(WideNum(a), LimbBits * (k - 1)))
                 + Cardinality(Digits(a[k], LimbBits))
<1> DEFINE L == LimbBits  m == WideNum(a)  low == L * (k - 1)
           R == Digits(a[k], L)  T == {Place0(k, r) : r \in R}
           f == [r \in R |-> Place0(k, r)]
<1>1. L \in Nat /\ k \in Nat \ {0} /\ low \in Nat /\ L * k = low + L /\ L * k \in Nat
  <2>1. L \in Nat /\ k \in Nat \ {0} /\ k - 1 \in Nat
    BY WordFacts, WidthFacts
  <2> QED
    BY <2>1
<1>2. \A r \in 0..(L - 1) : /\ Place0(k, r) = low + r
                            /\ Digit(m, Place0(k, r)) <=> Digit(a[k], r)
  BY WideFacts DEF Place0
<1>3. R \subseteq 0..(L - 1) /\ \A r \in R : r \in Nat /\ r < L /\ Digit(a[k], r)
  BY <1>1 DEF Digits
<1> HIDE DEF low, R, m
<1>4. f \in Bijection(R, T)
  <2>1. \A r, s \in R : f[r] = f[s] => r = s
    <3> SUFFICES ASSUME NEW r \in R, NEW s \in R, f[r] = f[s] PROVE r = s
      OBVIOUS
    <3>1. low + r = low + s /\ r \in Nat /\ s \in Nat
      BY <1>2, <1>3
    <3> QED
      BY <1>1, <3>1
  <2>2. f \in [R -> T] /\ \A t \in T : \E r \in R : f[r] = t
    OBVIOUS
  <2> HIDE DEF f, T
  <2> QED
    BY <2>1, <2>2 DEF Bijection, Injection, Surjection, IsInjective
<1>5. IsFiniteSet(R) /\ Cardinality(R) \in Nat
  BY <1>1, L \in Int, FiniteDigits DEF R
<1>6. IsFiniteSet(T) /\ Cardinality(T) = Cardinality(R)
  <2>1. ExistsBijection(R, T)
    BY <1>4 DEF ExistsBijection
  <2> QED
    BY <1>5, <2>1, FS_Bijection
<1> DEFINE B == Digits(m, low)
<1>7. IsFiniteSet(B) /\ Cardinality(B) \in Nat
  BY <1>1, low \in Int, FiniteDigits
<1>8. B \cap T = {}
  <2> SUFFICES ASSUME NEW r \in R, Place0(k, r) \in B PROVE FALSE
    OBVIOUS
  <2>1. Place0(k, r) = low + r /\ r \in Nat
    BY <1>2, <1>3
  <2>2. Place0(k, r) \in 0..(low - 1)
    BY DEF Digits
  <2> QED
    BY <1>1, <2>1, <2>2
<1>9. Digits(m, L * k) = B \cup T
  <2>1. ASSUME NEW j \in Digits(m, L * k) PROVE j \in B \cup T
    <3>1. j \in Nat /\ j < low + L /\ Digit(m, j)
      BY <1>1 DEF Digits
    <3>2. CASE j < low
      BY <1>1, <3>1, <3>2 DEF Digits
    <3>3. CASE ~(j < low)
      <4>1. j - low \in 0..(L - 1) /\ low + (j - low) = j
        BY <1>1, <3>1, <3>3
      <4>2. Place0(k, j - low) = j /\ Digit(a[k], j - low)
        BY <1>2, <3>1, <4>1
      <4>3. j - low \in R
        BY <4>1, <4>2 DEF R, Digits
      <4> QED
        BY <4>2, <4>3
    <3> QED
      BY <3>2, <3>3
  <2>2. B \subseteq Digits(m, L * k)
    BY <1>1 DEF Digits
  <2>3. ASSUME NEW r \in R PROVE Place0(k, r) \in Digits(m, L * k)
    <3>1. r \in Nat /\ r < L /\ Digit(m, Place0(k, r)) /\ Place0(k, r) = low + r
      BY <1>2, <1>3
    <3>2. Place0(k, r) \in 0..(L * k - 1)
      BY <1>1, <3>1
    <3> QED
      BY <3>1, <3>2 DEF Digits
  <2> HIDE DEF B
  <2> QED
    BY <2>1, <2>2, <2>3
<1> HIDE DEF B, T
<1>10. Cardinality(B \cup T) = Cardinality(B) + Cardinality(T) - Cardinality(B \cap T)
  BY <1>6, <1>7, FS_Union
<1>11. Cardinality(B \cap T) = 0
  BY <1>8, FS_EmptySet
<1>12. Cardinality(B \cup T) = Cardinality(B) + Cardinality(R)
  BY <1>5, <1>6, <1>7, <1>10, <1>11
<1>13. Cardinality(Digits(m, L * k)) = Cardinality(B) + Cardinality(R)
  BY <1>9, <1>12, Zenon
<1> QED
  BY <1>13 DEF B, R, m, low

LEMMA ParitySteps ==
  ASSUME NEW w \in Nat \ {0}, NEW a \in Wide(w)
  PROVE  \E h : /\ h[0] = 0
                /\ \A i \in 1..Words(w) : h[i] = ParityTurn(a, w, i, h[i - 1])
                /\ gpga_wide_red_xor(a, w) = h[Words(w)]
<1> DEFINE N == Words(w)
           F(i, x) == ParityTurn(a, w, i, x)
           Is(g) == g = [i \in 0..N |-> IF i = 0 THEN 0 ELSE ParityTurn(a, w, i, g[i - 1])]
           S == [i \in 1..N |-> [x \in Nat |-> F(i, x)]]
<1>1. N \in Nat /\ 0 \in Nat
  BY WidthFacts
<1>2. ASSUME NEW i \in 1..N, NEW x \in Nat PROVE F(i, x) \in Nat
  <2>1. SeenParity(a, w, i) \in Nat
    BY SeenParityIs
  <2>2. x + SeenParity(a, w, i) \in Int
    BY <1>2, <2>1
  <2> QED
    BY <2>2, 2 \in Nat, 2 > 0, DivisionBy DEF ParityTurn, SeenParity
<1>3. \E g : Is(g)
  <2> HIDE DEF F, Is
  <2>1. S \in [1..N -> [Nat -> Nat]]
    BY <1>2
  <2>2. PICK g : IsRecursion(g, N, Nat, 0, S)
    <3> HIDE DEF S, N
    <3> QED
      BY <1>1, <2>1, RecursionExists
  <2>3. g \in [0..N -> Nat] /\ g[0] = 0
    BY <2>2 DEF IsRecursion
  <2>4. ASSUME NEW i \in 1..N PROVE g[i] = F(i, g[i - 1])
    <3>1. g[i] = S[i][g[i - 1]]
      BY <2>2 DEF IsRecursion
    <3>2. i - 1 \in 0..N
      BY <1>1
    <3>3. g[i - 1] \in Nat
      BY <2>3, <3>2
    <3> QED
      BY <3>1, <3>3
  <2>5. g = [i \in 0..N |-> IF i = 0 THEN 0 ELSE F(i, g[i - 1])]
    <3>1. ASSUME NEW i \in 0..N PROVE g[i] = IF i = 0 THEN 0 ELSE F(i, g[i - 1])
      <4>1. i # 0 => i \in 1..N
        BY <1>1
      <4> QED
        BY <2>3, <2>4, <4>1
    <3> QED
      BY <2>3, <3>1
  <2> QED
    BY <2>5 DEF F, Is
<1> DEFINE h == CHOOSE g : Is(g)
<1>4. Is(h)
  <2> HIDE DEF Is
  <2> QED
    BY <1>3, Zenon
<1>5. gpga_wide_red_xor(a, w) = h[Words(w)]
  BY DEF gpga_wide_red_xor, ParityTurn
<1> HIDE DEF h
<1>6. h[0] = 0
  BY <1>1, <1>4
<1>7. \A i \in 1..N : h[i] = F(i, h[i - 1])
  <2> HIDE DEF F
  <2> SUFFICES ASSUME NEW i \in 1..N PROVE h[i] = F(i, h[i - 1])
    OBVIOUS
  <2>1. i \in 0..N /\ i # 0
    BY <1>1
  <2>2. h[i] = IF i = 0 THEN 0 ELSE F(i, h[i - 1])
    BY <1>4, <2>1 DEF F
  <2> QED
    BY <2>1, <2>2
<1> QED
  BY <1>5, <1>6, <1>7

\* After some words: the parity of the digits in them.
LEMMA RedXorIs ==
  ASSUME NEW w \in Nat \ {0}, NEW a \in Wide(w)
  PROVE  gpga_wide_red_xor(a, w) = Cardinality({i \in 0..(w - 1): BitOf(WideNum(a), i) = 1}) % 2
<1> DEFINE m == WideNum(a)  K == Words(w)  c(k) == Cardinality(Digits(m, LimbBits * k))
<1>1. PICK h : /\ h[0] = 0
               /\ \A i \in 1..K : h[i] = ParityTurn(a, w, i, h[i - 1])
               /\ gpga_wide_red_xor(a, w) = h[K]
  BY ParitySteps
<1>2. K \in Nat /\ w <= LimbBits * K /\ LimbBits * K \in Nat /\ LimbBits \in Nat
  BY WidthFacts, WordFacts
<1>3. m \in Nat /\ m \in Int /\ m < 2^w
  BY WideFacts
<1>4. \A k \in Nat : LimbBits * k \in Int /\ c(k) \in Nat
  BY <1>2, FiniteDigits
<1> DEFINE S == {k \in 0..K : h[k] = c(k) % 2}
<1>5. 0 \in S
  <2>1. Digits(m, LimbBits * 0) = {}
    BY <1>2 DEF Digits
  <2>2. c(0) = 0
    BY <2>1, FS_EmptySet
  <2> QED
    BY <1>1, <1>2, <2>2
<1>6. ASSUME NEW k \in 1..K, k - 1 \in S PROVE k \in S
  <2> DEFINE d == Cardinality(Digits(a[k], LimbBits))
  <2>1. k \in 0..K /\ k \in Nat /\ k - 1 \in Nat
    BY <1>2
  <2>2. h[k] = (h[k - 1] + SeenParity(a, w, k)) % 2 /\ h[k - 1] = c(k - 1) % 2
    BY <1>1, <1>6 DEF ParityTurn, SeenParity
  <2>3. SeenParity(a, w, k) = d % 2 /\ d \in Nat
    BY <1>2, LimbBits \in Int, SeenParityIs, FiniteDigits
  <2>4. c(k) = c(k - 1) + d /\ c(k - 1) \in Nat
    BY <1>4, <2>1, DigitsOfTheNextWord
  <2> DEFINE x == c(k - 1)  y == c(k)
  <2>5. h[k] = ((x % 2) + (d % 2)) % 2 /\ y = x + d /\ x \in Nat /\ d \in Nat
    BY <2>2, <2>3, <2>4
  <2>6. h[k] = y % 2
    <3> HIDE DEF x, y, d
    <3> QED
      BY <2>5
  <2> QED
    BY <2>1, <2>6
<1>7. K \in S
  <2> HIDE DEF S
  <2>1. \A k \in 0..K : k \in S
    BY <1>2, <1>5, <1>6, UpToInduction
  <2> QED
    BY <1>2, <2>1
<1>8. {i \in 0..(w - 1): BitOf(m, i) = 1} = Digits(m, LimbBits * K)
  <2> HIDE DEF m, K
  <2>1. \A i \in 0..(w - 1) : BitOf(m, i) = 1 <=> Digit(m, i)
    BY <1>3, DigitIsBit
  <2>2. \A i \in Nat : Digit(m, i) => i < w
    <3> SUFFICES ASSUME NEW i \in Nat, Digit(m, i), w <= i PROVE FALSE
      OBVIOUS
    <3> QED
      BY <1>3, NoDigitBeyond
  <2>3. \A i \in Nat : i \in 0..(w - 1) => i \in 0..(LimbBits * K - 1)
    BY <1>2
  <2> QED
    BY <1>2, <2>1, <2>2, <2>3 DEF Digits
<1> QED
  BY <1>1, <1>7, <1>8

-----------------------------------------------------------------------------
(* The calls.                                                              *)

\* Whatever is called of the wide library has operands of its width, and is answered
\* by its function.
WideCall(w) ==
    /\ call.width = w /\ call.a \in Wide(w)
    /\ \/ call.op \in WideUnary /\ call.b \in WideWidths
       \/ call.op \in WideBinary /\ call.b \in Wide(w)

WideCallInv ==
    call.lib = "wide" =>
        /\ \E w \in WideWidths : WideCall(w)
        /\ answer = <<>> \/ answer = <<WideAnswer(call.op, call.a, call.b, call.width)>>

LEMMA WideCallInvHolds == Spec => []WideCallInv
<1>1. Init => WideCallInv
  <2> SUFFICES ASSUME Init, call.lib = "wide" PROVE WideCallInv
    BY DEF WideCallInv
  <2>1. ~\E w \in FsWidths : call \in Calls(w)
    BY DEF Calls
  <2>2. PICK w \in WideWidths : \/ Call("wide", WideUnary, Wide(w), WideWidths, w)
                                \/ Call("wide", WideBinary, Wide(w), Wide(w), w)
    BY <2>1 DEF Init, Call
  <2>3. WideCall(w)
    BY <2>2 DEF WideCall, Call
  <2> QED
    BY <2>3 DEF WideCallInv, Init
<1>2. WideCallInv /\ [Next]_vars => WideCallInv'
  <2> SUFFICES ASSUME WideCallInv, [Next]_vars PROVE WideCallInv'
    OBVIOUS
  <2>1. call' = call /\ (call.lib = "wide" =>
           answer' = answer \/ answer' = <<WideAnswer(call.op, call.a, call.b, call.width)>>)
    <3>1. CASE FsReturns
      BY <3>1 DEF FsReturns, Return
    <3>2. CASE WideReturns
      BY <3>2 DEF WideReturns, Return
    <3>3. CASE RealReturns
      BY <3>3 DEF RealReturns, Return
    <3>4. CASE UNCHANGED vars
      BY <3>4 DEF vars
    <3> QED
      BY <3>1, <3>2, <3>3, <3>4 DEF Next, Answered
  <2> QED
    BY <2>1 DEF WideCallInv, WideCall
<1> QED
  BY <1>1, <1>2, PTL DEF Spec

\* On words of any number of bits from two on and for every width, each operator on
\* wide integers is the operation on the numbers, modulo 2^width: the carries,
\* borrows and shifts between words, the masked last word, the sign and its extension,
\* long division, and powers by the lowest word of the exponent (gpga_wide.h).
THEOREM WideOperatorsAreExact == Spec => []WideExact
<1>1. WideCallInv => WideExact
  <2> SUFFICES ASSUME WideCallInv, answer # <<>>, call.lib = "wide" PROVE WideExact
    BY DEF WideExact, AnswerOf
  <2>1. PICK width \in WideWidths : WideCall(width)
    BY DEF WideCallInv
  <2> DEFINE w == call.width  a == call.a  b == call.b  op == call.op
             m == WideNum(a)  n == WideNum(b)  sm == WideSigned(a, w)  sn == WideSigned(b, w)
             shift == b[1]
             Exactly(number) == Result \in Wide(w) /\ WideNum(Result) = number
  <2>2. /\ w \in Nat \ {0} /\ a \in Wide(w)
        /\ \/ op \in WideUnary /\ b \in WideWidths
           \/ op \in WideBinary /\ b \in Wide(w)
    BY <2>1, WideWidthsAssumption DEF WideCall
  <2>3. Result = WideAnswer(op, a, b, w)
    BY DEF WideCallInv, Result
  <2>4. op \in WideBinary => b \in Wide(w) /\ shift \in Nat
    <3> SUFFICES ASSUME op \in WideBinary PROVE b \in Wide(w) /\ shift \in Nat
      OBVIOUS
    <3>1. b \in Wide(w)
      BY <2>2 DEF WideUnary, WideBinary
    <3>2. 1 \in 1..Words(w)
      <4>1. Words(w) \in Nat /\ Words(w) >= 1
        BY <2>2, WidthFacts
      <4> QED
        BY <4>1
    <3>3. shift \in 0..Ones
      BY <2>2, <3>1, <3>2, WideFacts
    <3> QED
      BY <3>1, <3>3, WordFacts
  <2>5. op \in WideUnary => b \in Nat \ {0}
    <3>1. op \in WideUnary => op \notin WideBinary
      BY DEF WideUnary, WideBinary
    <3> QED
      BY <2>2, <3>1, WideWidthsAssumption
  <2> HIDE DEF w, a, b, op
  <2>6. op = "not" => Exactly(2^w - 1 - m)
    <3> SUFFICES ASSUME op = "not" PROVE Exactly(2^w - 1 - m)
      OBVIOUS
    <3>1. Result = gpga_wide_not(a, w)
      BY <2>3 DEF WideAnswer, gpga_wide_to_u64
    <3> QED
      BY <2>2, <3>1, NotIs
  <2>7. op = "and" => Exactly(FromBits({i \in 0..(w - 1): BitOf(m, i) + BitOf(n, i) = 2}))
    <3> SUFFICES ASSUME op = "and"
          PROVE Exactly(FromBits({i \in 0..(w - 1): BitOf(m, i) + BitOf(n, i) = 2}))
      OBVIOUS
    <3>1. Result = gpga_wide_and(a, b, w)
      BY <2>3 DEF WideAnswer, gpga_wide_to_u64
    <3>2. op \in WideBinary
      BY DEF WideBinary
    <3> QED
      BY <2>2, <2>4, <3>1, <3>2, AndIs
  <2>8. op = "or" => Exactly(FromBits({i \in 0..(w - 1): BitOf(m, i) + BitOf(n, i) > 0}))
    <3> SUFFICES ASSUME op = "or"
          PROVE Exactly(FromBits({i \in 0..(w - 1): BitOf(m, i) + BitOf(n, i) > 0}))
      OBVIOUS
    <3>1. Result = gpga_wide_or(a, b, w)
      BY <2>3 DEF WideAnswer, gpga_wide_to_u64
    <3>2. op \in WideBinary
      BY DEF WideBinary
    <3> QED
      BY <2>2, <2>4, <3>1, <3>2, OrIs
  <2>9. op = "xor" => Exactly(FromBits({i \in 0..(w - 1): BitOf(m, i) + BitOf(n, i) = 1}))
    <3> SUFFICES ASSUME op = "xor"
          PROVE Exactly(FromBits({i \in 0..(w - 1): BitOf(m, i) + BitOf(n, i) = 1}))
      OBVIOUS
    <3>1. Result = gpga_wide_xor(a, b, w)
      BY <2>3 DEF WideAnswer, gpga_wide_to_u64
    <3>2. op \in WideBinary
      BY DEF WideBinary
    <3> QED
      BY <2>2, <2>4, <3>1, <3>2, XorIs
  <2>10. op = "add" => Exactly((m + n) % 2^w)
    <3> SUFFICES ASSUME op = "add" PROVE Exactly((m + n) % 2^w)
      OBVIOUS
    <3>1. Result = gpga_wide_add(a, b, w)
      BY <2>3 DEF WideAnswer, gpga_wide_to_u64
    <3>2. op \in WideBinary
      BY DEF WideBinary
    <3> QED
      BY <2>2, <2>4, <3>1, <3>2, AddIs
  <2>11. op = "sub" => Exactly((m - n) % 2^w)
    <3> SUFFICES ASSUME op = "sub" PROVE Exactly((m - n) % 2^w)
      OBVIOUS
    <3>1. Result = gpga_wide_sub(a, b, w)
      BY <2>3 DEF WideAnswer, gpga_wide_to_u64
    <3>2. op \in WideBinary
      BY DEF WideBinary
    <3> QED
      BY <2>2, <2>4, <3>1, <3>2, SubIs
  <2>12. op = "mul" => Exactly((m * n) % 2^w)
    <3> SUFFICES ASSUME op = "mul" PROVE Exactly((m * n) % 2^w)
      OBVIOUS
    <3>1. Result = gpga_wide_mul(a, b, w)
      BY <2>3 DEF WideAnswer, gpga_wide_to_u64
    <3>2. op \in WideBinary
      BY DEF WideBinary
    <3> QED
      BY <2>2, <2>4, <3>1, <3>2, MulIs
  <2>13. op = "div" => Exactly(IF n = 0 THEN 0 ELSE m \div n)
    <3> SUFFICES ASSUME op = "div" PROVE Exactly(IF n = 0 THEN 0 ELSE m \div n)
      OBVIOUS
    <3>1. Result = gpga_wide_div(a, b, w)
      BY <2>3 DEF WideAnswer, gpga_wide_to_u64
    <3>2. op \in WideBinary
      BY DEF WideBinary
    <3> QED
      BY <2>2, <2>4, <3>1, <3>2, DivIs
  <2>14. op = "mod" => Exactly(IF n = 0 THEN 0 ELSE m % n)
    <3> SUFFICES ASSUME op = "mod" PROVE Exactly(IF n = 0 THEN 0 ELSE m % n)
      OBVIOUS
    <3>1. Result = gpga_wide_mod(a, b, w)
      BY <2>3 DEF WideAnswer, gpga_wide_to_u64
    <3>2. op \in WideBinary
      BY DEF WideBinary
    <3> QED
      BY <2>2, <2>4, <3>1, <3>2, DivIs
  <2>15. op = "pow_u" => Exactly(PowerMod(m, shift, 2^w))
    <3> SUFFICES ASSUME op = "pow_u" PROVE Exactly(PowerMod(m, shift, 2^w))
      OBVIOUS
    <3>1. Result = gpga_wide_pow_u(a, b, w)
      BY <2>3 DEF WideAnswer, gpga_wide_to_u64
    <3>2. op \in WideBinary
      BY DEF WideBinary
    <3> QED
      BY <2>2, <2>4, <3>1, <3>2, PowIs
  <2>16. op = "pow_s" => Exactly(IF 2 * shift >= Base THEN 0 ELSE PowerMod(m, shift, 2^w))
    <3> SUFFICES ASSUME op = "pow_s"
          PROVE Exactly(IF 2 * shift >= Base THEN 0 ELSE PowerMod(m, shift, 2^w))
      OBVIOUS
    <3>1. Result = gpga_wide_pow_s(a, b, w)
      BY <2>3 DEF WideAnswer, gpga_wide_to_u64
    <3>2. op \in WideBinary
      BY DEF WideBinary
    <3> QED
      BY <2>2, <2>4, <3>1, <3>2, PowIs
  <2>17. op = "from" => Exactly(IF m % 2 = 1 THEN 2^w - 1 ELSE 0)
    <3> SUFFICES ASSUME op = "from" PROVE Exactly(IF m % 2 = 1 THEN 2^w - 1 ELSE 0)
      OBVIOUS
    <3>1. Result = gpga_wide_sext_from_u64(a[1] % 2, 1, w)
      BY <2>3 DEF WideAnswer, gpga_wide_to_u64
    <3> QED
      BY <2>2, <3>1, FromIs
  <2>18. op = "shl" => Exactly((m * 2^shift) % 2^w)
    <3> SUFFICES ASSUME op = "shl" PROVE Exactly((m * 2^shift) % 2^w)
      OBVIOUS
    <3>1. Result = gpga_wide_shl(a, shift, w)
      BY <2>3 DEF WideAnswer, gpga_wide_to_u64
    <3>2. op \in WideBinary
      BY DEF WideBinary
    <3> QED
      BY <2>2, <2>4, <3>1, <3>2, ShlIs
  <2>19. op = "shr" => Exactly(m \div 2^shift)
    <3> SUFFICES ASSUME op = "shr" PROVE Exactly(m \div 2^shift)
      OBVIOUS
    <3>1. Result = gpga_wide_shr(a, shift, w)
      BY <2>3 DEF WideAnswer, gpga_wide_to_u64
    <3>2. op \in WideBinary
      BY DEF WideBinary
    <3> QED
      BY <2>2, <2>4, <3>1, <3>2, ShrIs
  <2>20. op = "sar" => Exactly((sm \div 2^shift) % 2^w)
    <3> SUFFICES ASSUME op = "sar" PROVE Exactly((sm \div 2^shift) % 2^w)
      OBVIOUS
    <3>1. Result = gpga_wide_sar(a, shift, w)
      BY <2>3 DEF WideAnswer, gpga_wide_to_u64
    <3>2. op \in WideBinary
      BY DEF WideBinary
    <3> QED
      BY <2>2, <2>4, <3>1, <3>2, SarIs
  <2>21. op = "eq" => (Result <=> m = n)
    <3> SUFFICES ASSUME op = "eq" PROVE Result <=> m = n
      OBVIOUS
    <3>1. Result = gpga_wide_eq(a, b, w)
      BY <2>3 DEF WideAnswer
    <3>2. op \in WideBinary
      BY DEF WideBinary
    <3> QED
      BY <2>2, <2>4, <3>1, <3>2, EqIs
  <2>22. op = "lt_u" => (Result <=> m < n)
    <3> SUFFICES ASSUME op = "lt_u" PROVE Result <=> m < n
      OBVIOUS
    <3>1. Result = gpga_wide_lt_u(a, b, w)
      BY <2>3 DEF WideAnswer
    <3>2. op \in WideBinary
      BY DEF WideBinary
    <3> QED
      BY <2>2, <2>4, <3>1, <3>2, LtUIs
  <2>23. op = "le_u" => (Result <=> m <= n)
    <3> SUFFICES ASSUME op = "le_u" PROVE Result <=> m <= n
      OBVIOUS
    <3>1. Result = gpga_wide_le_u(a, b, w)
      BY <2>3 DEF WideAnswer
    <3>2. op \in WideBinary
      BY DEF WideBinary
    <3> QED
      BY <2>2, <2>4, <3>1, <3>2, LeUIs
  <2>24. op = "lt_s" => (Result <=> sm < sn)
    <3> SUFFICES ASSUME op = "lt_s" PROVE Result <=> sm < sn
      OBVIOUS
    <3>1. Result = gpga_wide_lt_s(a, b, w)
      BY <2>3 DEF WideAnswer
    <3>2. op \in WideBinary
      BY DEF WideBinary
    <3> QED
      BY <2>2, <2>4, <3>1, <3>2, LtSIs
  <2>25. op = "le_s" => (Result <=> sm <= sn)
    <3> SUFFICES ASSUME op = "le_s" PROVE Result <=> sm <= sn
      OBVIOUS
    <3>1. Result = gpga_wide_le_s(a, b, w)
      BY <2>3 DEF WideAnswer
    <3>2. op \in WideBinary
      BY DEF WideBinary
    <3> QED
      BY <2>2, <2>4, <3>1, <3>2, LeSIs
  <2>26. op = "red_and" => (Result <=> m = 2^w - 1)
    <3> SUFFICES ASSUME op = "red_and" PROVE Result <=> m = 2^w - 1
      OBVIOUS
    <3>1. Result = gpga_wide_red_and(a, w)
      BY <2>3 DEF WideAnswer
    <3> QED
      BY <2>2, <3>1, RedAndIs
  <2>27. op = "red_or" => (Result <=> m # 0)
    <3> SUFFICES ASSUME op = "red_or" PROVE Result <=> m # 0
      OBVIOUS
    <3>1. Result = gpga_wide_any(a, w)
      BY <2>3 DEF WideAnswer
    <3> QED
      BY <2>2, <3>1, AnyIs
  <2>28. op = "red_xor" => Result = Cardinality({i \in 0..(w - 1): BitOf(m, i) = 1}) % 2
    <3> SUFFICES ASSUME op = "red_xor"
          PROVE Result = Cardinality({i \in 0..(w - 1): BitOf(m, i) = 1}) % 2
      OBVIOUS
    <3>1. Result = gpga_wide_red_xor(a, w)
      BY <2>3 DEF WideAnswer
    <3> QED
      BY <2>2, <3>1, RedXorIs
  <2>29. op = "signbit" => Result = BitOf(m, w - 1)
    <3> SUFFICES ASSUME op = "signbit" PROVE Result = BitOf(m, w - 1)
      OBVIOUS
    <3>1. Result = gpga_wide_signbit(a, w)
      BY <2>3 DEF WideAnswer
    <3> QED
      BY <2>2, <3>1, SignedFacts
  <2>30. op = "sext" => WideNum(Result) = sm % 2^b
    <3> SUFFICES ASSUME op = "sext" PROVE WideNum(Result) = sm % 2^b
      OBVIOUS
    <3>1. Result = gpga_wide_sext(a, b, w)
      BY <2>3 DEF WideAnswer
    <3>2. op \in WideUnary
      BY DEF WideUnary
    <3> QED
      BY <2>2, <2>5, <3>1, <3>2, SextIs
  <2>31. op = "resize" => WideNum(Result) = m % 2^b
    <3> SUFFICES ASSUME op = "resize" PROVE WideNum(Result) = m % 2^b
      OBVIOUS
    <3>1. Result = gpga_wide_resize(a, b, w)
      BY <2>3 DEF WideAnswer
    <3>2. op \in WideUnary
      BY DEF WideUnary
    <3>3. m \in Int
      BY <2>2, WideFacts
    <3>4. \A j \in 0..(b - 1) : Digit(m, j) <=> Digit(WideNum(a), j)
      OBVIOUS
    <3>5. b \in Nat \ {0}
      BY <2>5, <3>2
    <3> HIDE DEF m
    <3>6. WideNum(gpga_wide_resize(a, b, w)) = m % 2^b
      BY <2>2, <3>3, <3>4, <3>5, ResizeIs
    <3> QED
      BY <3>1, <3>6
  <2> QED
    BY <2>6, <2>7, <2>8, <2>9, <2>10, <2>11, <2>12, <2>13, <2>14, <2>15, <2>16, <2>17,
       <2>18, <2>19, <2>20, <2>21, <2>22, <2>23, <2>24, <2>25, <2>26, <2>27, <2>28, <2>29,
       <2>30, <2>31 DEF WideExact, AnswerOf, w, a, b, op
<1> QED
  BY <1>1, WideCallInvHolds, PTL
=============================================================================
