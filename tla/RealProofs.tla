----------------------------- MODULE RealProofs -----------------------------
(***************************************************************************)
(* Proofs about the doubles of RealCore: for every number of fraction and  *)
(* exponent bits that leaves the integers below 2^(FractionBits + 1) in    *)
(* range, sums, products and quotients are correctly rounded, conversions  *)
(* and comparisons are those of the numbers.                               *)
(*                                                                         *)
(* A significand with its three extra bits stands for an exact value that  *)
(* may need many more.  All that rounding needs of it is that the extra    *)
(* bits place the value among the multiples of half a last place; the      *)
(* operators keep that through alignment, sticky bits and cancellation.    *)
(***************************************************************************)
EXTENDS Arithmetic, FourStateProofs

-----------------------------------------------------------------------------
(* The format.                                                             *)

\* The constants of the format: the hidden bit is even, the bias exceeds the fraction.
LEMMA FormatFacts ==
  /\ Hidden \in Nat /\ Hidden >= 8 /\ Hidden % 2 = 0 /\ Hidden = 2^FractionBits
  /\ Bias \in Nat /\ Bias >= FractionBits /\ Bias >= 3 /\ MaxExp = 2 * Bias + 1
  /\ MinExponent \in Int /\ MinExponent = 1 - Bias
  /\ FractionBits \in Nat /\ FractionBits >= 3
  /\ Infinite = (2 * Bias) * Hidden + Hidden /\ Infinite \in Nat
<1> DEFINE F == FractionBits  E == ExponentBits
<1>1. F - 3 \in Nat /\ (F - 3) + 3 = F /\ E - 1 \in Nat /\ (E - 1) + 1 = E /\ F \in Nat
  BY RealAssumption
<1>2. 2^3 = 8
  <2>1. 2^(0 + 1) = 2 * 2^0 /\ 2^(1 + 1) = 2 * 2^1 /\ 2^(2 + 1) = 2 * 2^2 /\ 2^0 = 1
    BY TwoTimes
  <2> QED
    BY <2>1
<1>3. 2^F = 2^(F - 3) * 8 /\ 2^(F - 3) \in Nat /\ 2^(F - 3) > 0
  <2>1. 2^((F - 3) + 3) = 2^(F - 3) * 2^3
    BY <1>1, TwoSum
  <2> QED
    BY <1>1, <1>2, <2>1, TwoPositive
<1>4. 2^E = 2 * 2^(E - 1) /\ 2^(E - 1) \in Nat /\ F < 2^(E - 1)
  BY <1>1, TwoTimes, RealAssumption
<1> DEFINE h == 2^(F - 3)  b == 2^(E - 1)
<1>5. h \in Nat /\ h > 0 /\ Hidden = h * 8 /\ b \in Nat /\ Bias = b - 1 /\ MaxExp = 2 * b - 1 /\ F < b
  BY <1>3, <1>4 DEF Hidden, Bias, MaxExp
<1> HIDE DEF h, b
<1>6. Hidden \in Nat /\ Hidden >= 8 /\ Hidden % 2 = 0
  BY <1>5
<1>7. Bias \in Nat /\ Bias >= F /\ Bias >= 3 /\ MaxExp = 2 * Bias + 1
  BY <1>1, <1>5
<1>8. Infinite = (2 * Bias) * Hidden + Hidden /\ Infinite \in Nat
  <2>1. Infinite = (2 * Bias + 1) * Hidden
    BY <1>7 DEF Infinite
  <2> QED
    BY <1>6, <1>7, <2>1
<1> QED
  BY <1>1, <1>6, <1>7, <1>8 DEF MinExponent, Hidden

\* The magnitude and the fields say the same.
LEMMA DoubleFacts ==
  ASSUME NEW d \in Double
  PROVE  /\ d.sign \in {0, 1} /\ d.exp \in Nat /\ d.exp <= MaxExp /\ d.mant \in Nat /\ d.mant < Hidden
         /\ Magnitude(d) \in Nat /\ Magnitude(d) = d.exp * Hidden + d.mant
         /\ Magnitude(d) \div Hidden = d.exp /\ Magnitude(d) % Hidden = d.mant
         /\ Magnitude(d) <= Infinite <=> ~gpga_double_is_nan(d)
         /\ Magnitude(d) = Infinite <=> gpga_double_is_inf(d)
         /\ Magnitude(d) = 0 <=> gpga_double_is_zero(d)
         /\ Magnitude(d) < Infinite <=> Finite(d)
<1>1. /\ d.sign \in {0, 1} /\ d.exp \in Nat /\ d.exp <= MaxExp /\ d.mant \in Nat /\ d.mant < Hidden
  BY FormatFacts DEF Double
<1> DEFINE M == Magnitude(d)  H == Hidden  e == d.exp  m == d.mant
<1>2. M = e * H + m /\ Infinite = MaxExp * H
  BY DEF Magnitude, Infinite
<1>3. H \in Nat /\ H >= 8 /\ MaxExp \in Nat /\ MaxExp > 0
  BY FormatFacts
<1>4. e * H \in Nat /\ (e < MaxExp => e * H + H <= MaxExp * H) /\ (e = 0 => e * H = 0)
      /\ (e > 0 => e * H >= H) /\ e * H = H * e
  <2>1. e < MaxExp => e * H + H <= MaxExp * H
    <3> SUFFICES ASSUME e < MaxExp PROVE e * H + H <= MaxExp * H
      OBVIOUS
    <3>1. MaxExp - (e + 1) \in Nat
      BY <1>1, <1>3
    <3>2. (MaxExp - (e + 1)) * H \in Nat
      BY <1>3, <3>1
    <3> QED
      BY <1>1, <1>3, <3>2
  <2>2. e > 0 => e * H >= H
    BY <1>1, <1>3
  <2> QED
    BY <1>1, <1>3, <2>1, <2>2
<1>5. M \in Nat
  BY <1>1, <1>2, <1>4
<1>6. M \div H = e /\ M % H = m
  <2>1. e \in Int /\ m \in Nat /\ m < H /\ M \in Int /\ H > 0
    BY <1>1, <1>3, <1>5
  <2>2. M = H * e + m
    BY <1>2, <1>4
  <2> HIDE DEF M, H, e, m
  <2> QED
    BY <1>3, <2>1, <2>2, DivisionIs
<1> HIDE DEF M, H, e, m
<1>7. /\ M <= Infinite <=> ~(e = MaxExp /\ m # 0)
      /\ M = Infinite <=> e = MaxExp /\ m = 0
      /\ M = 0 <=> e = 0 /\ m = 0
      /\ M < Infinite <=> e # MaxExp
  <2> DEFINE p == e * H  q == MaxExp * H
  <2>1. p \in Nat /\ q \in Nat /\ q > 0 /\ M = p + m /\ Infinite = q /\ m \in Nat /\ m < H
        /\ (e = MaxExp => p = q) /\ (e # MaxExp => p + H <= q) /\ (e = 0 => p = 0) /\ (e # 0 => p >= H)
    <3>1. e \in Nat /\ e <= MaxExp /\ m \in Nat /\ m < H
      BY <1>1 DEF e, m, H
    <3>2. q \in Nat /\ q > 0
      BY <1>3
    <3> QED
      BY <1>2, <1>3, <1>4, <3>1, <3>2
  <2> HIDE DEF p, q
  <2> QED
    BY <1>3, <2>1
<1> QED
  BY <1>1, <1>2, <1>5, <1>6, <1>7
     DEF M, H, e, m, gpga_double_is_nan, gpga_double_is_inf, gpga_double_is_zero, Finite

-----------------------------------------------------------------------------
(* The number a magnitude stands for.                                      *)

LEMMA UnitsLow ==
  ASSUME NEW n \in Nat, n < Hidden
  PROVE  Units(n) = n
BY DEF Units

\* A magnitude splits into an exponent and a full significand; twice the hidden bit
\* is the significand that the next exponent starts with.
LEMMA UnitsAt ==
  ASSUME NEW g \in Nat, NEW s \in Hidden..(2 * Hidden)
  PROVE  g * Hidden + s \in Nat /\ Units(g * Hidden + s) = s * 2^g
<1> DEFINE H == Hidden  n == g * H + s  p == 2^g
<1>1. H \in Nat /\ H >= 8 /\ s \in Nat /\ s >= H /\ s <= 2 * H /\ g * H \in Nat /\ g * H = H * g
  BY FormatFacts
<1>2. n \in Nat /\ n >= H
  BY <1>1
<1>3. p \in Nat /\ p > 0 /\ 2^(g + 1) = 2 * p
  BY TwoTimes, TwoPositive
<1>4. ASSUME s < 2 * H PROVE Units(n) = s * p
  <2>1. n = H * (g + 1) + (s - H) /\ g + 1 \in Int /\ s - H \in Nat /\ s - H < H /\ n \in Int /\ H > 0
    BY <1>1, <1>4
  <2> HIDE DEF n, H
  <2>2. n \div H = g + 1 /\ n % H = s - H
    BY <1>1, <2>1, DivisionIs
  <2>3. Units(n) = (H + (s - H)) * 2^((g + 1) - 1)
    BY <1>1, <1>2, <2>2 DEF Units, H
  <2> QED
    BY <1>1, <2>3
<1>5. ASSUME s = 2 * H PROVE Units(n) = s * p
  <2>1. n = H * (g + 2) + 0 /\ g + 2 \in Int /\ 0 \in Nat /\ 0 < H /\ n \in Int /\ H > 0
    BY <1>1, <1>5
  <2> HIDE DEF n, H
  <2>2. n \div H = g + 2 /\ n % H = 0
    BY <1>1, <2>1, DivisionIs
  <2>3. Units(n) = (H + 0) * 2^((g + 2) - 1)
    BY <1>1, <1>2, <2>2 DEF Units, H
  <2>4. (g + 2) - 1 = g + 1
    OBVIOUS
  <2>5. Units(n) = H * (2 * p)
    BY <1>1, <1>3, <2>3, <2>4
  <2> QED
    BY <1>1, <1>3, <1>5, <2>5
<1> QED
  BY <1>1, <1>2, <1>4, <1>5

LEMMA MagnitudeForm ==
  ASSUME NEW n \in Nat, n >= Hidden
  PROVE  \E g \in Nat : \E s \in Hidden..(2 * Hidden - 1) : n = g * Hidden + s
<1> DEFINE H == Hidden  q == n \div H  r == n % H
<1>1. H \in Nat /\ H >= 8
  BY FormatFacts
<1>2. q \in Int /\ r \in Nat /\ r < H /\ n = H * q + r
  BY <1>1, DivisionBy
<1> HIDE DEF q, r, H
<1>3. q >= 1
  <2> SUFFICES ASSUME q <= 0 PROVE FALSE
    BY <1>2
  <2>1. H * q <= 0
    BY <1>1, <1>2
  <2> QED
    BY <1>1, <1>2, <2>1 DEF H
<1>4. q - 1 \in Nat /\ H + r \in H..(2 * H - 1) /\ n = (q - 1) * H + (H + r)
  BY <1>1, <1>2, <1>3
<1> QED
  BY <1>4 DEF H

\* The next magnitude is a greater number.
LEMMA UnitsNext ==
  ASSUME NEW n \in Nat
  PROVE  Units(n) \in Nat /\ Units(n) < Units(n + 1)
<1> DEFINE H == Hidden
<1>1. H \in Nat /\ H >= 8
  BY FormatFacts
<1>2. CASE n < H - 1
  BY <1>1, <1>2, UnitsLow, n + 1 \in Nat
<1>3. CASE n = H - 1
  <2>1. 0 \in Nat /\ H \in H..(2 * H) /\ 0 * H + H = H /\ 2^0 = 1
    BY <1>1
  <2>2. Units(0 * H + H) = H * 2^0
    BY <2>1, UnitsAt
  <2> QED
    BY <1>1, <1>3, <2>1, <2>2, UnitsLow
<1>4. CASE n >= H
  <2>1. PICK g \in Nat : \E s \in H..(2 * H - 1) : n = g * H + s
    BY <1>4, MagnitudeForm
  <2>2. PICK s \in H..(2 * H - 1) : n = g * H + s
    BY <2>1
  <2>3. s \in H..(2 * H) /\ s + 1 \in H..(2 * H) /\ g * H \in Nat /\ n + 1 = g * H + (s + 1) /\ s \in Nat
    BY <1>1, <2>2
  <2>4. Units(n) = s * 2^g /\ Units(n + 1) = (s + 1) * 2^g
    BY <2>2, <2>3, UnitsAt
  <2> DEFINE p == 2^g
  <2>5. p \in Nat /\ p > 0
    BY TwoPositive
  <2> HIDE DEF p
  <2>6. s * p \in Nat /\ s * p < (s + 1) * p
    BY <2>3, <2>5
  <2> QED
    BY <2>4, <2>6 DEF p
<1> QED
  BY <1>1, <1>2, <1>3, <1>4

LEMMA UnitsOrder ==
  ASSUME NEW m \in Nat, NEW n \in Nat
  PROVE  /\ Units(m) \in Nat /\ Units(n) \in Nat
         /\ m < n <=> Units(m) < Units(n)
         /\ m = n <=> Units(m) = Units(n)
<1>1. ASSUME NEW i \in Nat, NEW j \in Nat, i < j PROVE Units(i) < Units(j)
  <2> DEFINE S == {k \in Nat : Units(i) < Units(i + k + 1)}
  <2>1. 0 \in S
    BY UnitsNext
  <2>2. ASSUME NEW k \in Nat, k \in S PROVE k + 1 \in S
    <3>1. i + k + 1 \in Nat /\ (i + k + 1) + 1 = i + (k + 1) + 1 /\ k + 1 \in Nat
          /\ i \in Nat /\ i + (k + 1) + 1 \in Nat
      OBVIOUS
    <3>2. Units(i + k + 1) < Units(i + (k + 1) + 1) /\ Units(i + k + 1) \in Nat
      BY <3>1, UnitsNext
    <3>3. Units(i) \in Nat /\ Units(i + (k + 1) + 1) \in Nat
      BY <3>1, UnitsNext
    <3> QED
      BY <2>2, <3>1, <3>2, <3>3
  <2>3. \A k \in Nat : k \in S
    <3> HIDE DEF S
    <3> QED
      BY <2>1, <2>2, SetInduction
  <2>4. j - i - 1 \in Nat /\ i + (j - i - 1) + 1 = j
    BY <1>1
  <2>5. j - i - 1 \in S
    BY <2>3, <2>4
  <2> QED
    BY <2>4, <2>5
<1>2. Units(m) \in Nat /\ Units(n) \in Nat
  BY UnitsNext
<1>3. m < n \/ m = n \/ n < m
  OBVIOUS
<1> QED
  BY <1>1, <1>2, <1>3

LEMMA UnitsOf ==
  ASSUME NEW d \in Double
  PROVE  /\ Sig(d) \in Nat /\ Place(d) \in Nat /\ Sig(d) < 2 * Hidden
         /\ Sig(d) = 0 <=> gpga_double_is_zero(d)
         /\ Units(Magnitude(d)) = Sig(d) * 2^Place(d) /\ Units(Magnitude(d)) \in Nat
<1>1. /\ d.exp \in Nat /\ d.mant \in Nat /\ d.mant < Hidden /\ Hidden \in Nat /\ Hidden >= 8
      /\ Magnitude(d) \in Nat /\ Magnitude(d) = d.exp * Hidden + d.mant
  BY DoubleFacts, FormatFacts
<1>2. /\ Sig(d) \in Nat /\ Place(d) \in Nat /\ Sig(d) < 2 * Hidden
      /\ Sig(d) = 0 <=> gpga_double_is_zero(d)
  <2>1. CASE d.exp = 0
    <3>1. Sig(d) = d.mant /\ Place(d) = 0
      BY <2>1 DEF Sig, Place
    <3> QED
      BY <1>1, <2>1, <3>1 DEF gpga_double_is_zero
  <2>2. CASE d.exp # 0
    <3>1. Sig(d) = Hidden + d.mant /\ Place(d) = d.exp - 1
      BY <2>2 DEF Sig, Place
    <3> QED
      BY <1>1, <2>2, <3>1 DEF gpga_double_is_zero
  <2> QED
    BY <2>1, <2>2
<1>3. CASE d.exp = 0
  <2>1. Sig(d) = d.mant /\ Place(d) = 0 /\ 2^0 = 1 /\ Magnitude(d) = d.mant
    BY <1>1, <1>3 DEF Sig, Place
  <2>2. Units(Magnitude(d)) = d.mant
    BY <1>1, <2>1, UnitsLow
  <2> QED
    BY <1>1, <1>2, <2>1, <2>2
<1>4. CASE d.exp # 0
  <2> DEFINE g == d.exp - 1  s == Hidden + d.mant
  <2>1. g \in Nat /\ s \in Hidden..(2 * Hidden) /\ Magnitude(d) = g * Hidden + s
    BY <1>1, <1>4
  <2>2. Sig(d) = s /\ Place(d) = g
    BY <1>4 DEF Sig, Place
  <2> HIDE DEF g, s
  <2>3. Units(Magnitude(d)) = s * 2^g
    BY <2>1, UnitsAt
  <2>4. Units(Magnitude(d)) \in Nat
    BY <1>1, UnitsNext
  <2> QED
    BY <1>2, <2>2, <2>3, <2>4
<1> QED
  BY <1>3, <1>4

\* Shifted up far enough, every smaller number has its leading bit in place K.
LEMMA LeadingBit ==
  ASSUME NEW K \in Nat, NEW m \in Nat, m > 0, m < 2 * 2^K
  PROVE  \E n \in 0..K : m * 2^n \in 2^K..(2 * 2^K - 1)
<1> DEFINE Leads(k, v) == \E n \in 0..k : v * 2^n \in 2^k..(2 * 2^k - 1)
           S == {k \in Nat : \A v \in Nat : v > 0 /\ v < 2 * 2^k => Leads(k, v)}
<1>1. 0 \in S
  <2> SUFFICES ASSUME NEW v \in Nat, v > 0, v < 2 * 2^0 PROVE Leads(0, v)
    OBVIOUS
  <2>1. 2^0 = 1 /\ v = 1 /\ 0 \in 0..0 /\ v * 1 \in 1..(2 * 1 - 1)
    OBVIOUS
  <2> QED
    BY <2>1
<1>2. ASSUME NEW k \in Nat, k \in S PROVE k + 1 \in S
  <2> DEFINE p == 2^k
  <2>1. p \in Nat /\ p > 0 /\ 2^(k + 1) = 2 * p /\ k + 1 \in Nat
    BY TwoTimes, TwoPositive
  <2>2. ASSUME NEW v \in Nat, v > 0, v < 2 * 2^(k + 1) PROVE Leads(k + 1, v)
    <3>1. CASE v >= 2 * p
      <4>1. 2^0 = 1 /\ 0 \in 0..(k + 1) /\ v * 1 = v
        OBVIOUS
      <4>2. v \in (2 * p)..(2 * (2 * p) - 1)
        BY <2>1, <2>2, <3>1
      <4> QED
        BY <2>1, <4>1, <4>2
    <3>2. CASE v < 2 * p
      <4>1. PICK n \in 0..k : v * 2^n \in p..(2 * p - 1)
        BY <1>2, <2>2, <3>2
      <4>2. n \in Nat /\ n + 1 \in 0..(k + 1) /\ 2^(n + 1) = 2 * 2^n /\ 2^n \in Nat
        BY TwoTimes
      <4> DEFINE q == 2^n
      <4>3. v * (2 * q) = 2 * (v * q) /\ v * q \in Nat
        BY <4>2
      <4> HIDE DEF q, p
      <4>4. 2 * (v * q) \in (2 * p)..(2 * (2 * p) - 1)
        BY <2>1, <4>1, <4>3 DEF q
      <4>5. v * 2^(n + 1) \in 2^(k + 1)..(2 * 2^(k + 1) - 1)
        BY <2>1, <4>2, <4>3, <4>4 DEF q
      <4> QED
        BY <4>2, <4>5
    <3> QED
      BY <2>1, <3>1, <3>2
  <2> QED
    BY <2>1, <2>2
<1> HIDE DEF Leads, S
<1>3. \A k \in Nat : k \in S
  BY <1>1, <1>2, SetInduction
<1>4. K \in S
  BY <1>3
<1>5. \A v \in Nat : v > 0 /\ v < 2 * 2^K => Leads(K, v)
  BY <1>4 DEF S
<1>6. Leads(K, m)
  BY <1>5
<1> QED
  BY <1>6 DEF Leads

\* The significand of a finite number, brought into place by u more shifts.
LEMMA NormalizedIs ==
  ASSUME NEW d \in Double, ~gpga_double_is_zero(d)
  PROVE  /\ Normalized(d).sig \in Hidden..(2 * Hidden - 1) /\ Normalized(d).exp \in Int
         /\ \E u \in 0..FractionBits :
               /\ Normalized(d).sig = Sig(d) * 2^u
               /\ Normalized(d).exp = Place(d) - Bias + 1 - u
               /\ d.exp # 0 => u = 0
<1>1. /\ d.exp \in Nat /\ d.mant \in Nat /\ d.mant < Hidden /\ Hidden \in Nat /\ Hidden >= 8
      /\ FractionBits \in Nat /\ Bias \in Nat /\ Hidden = 2^FractionBits /\ MinExponent = 1 - Bias
  BY DoubleFacts, FormatFacts
<1>2. CASE d.exp # 0
  <2>1. /\ Normalized(d).exp = d.exp - Bias /\ Normalized(d).sig = Hidden + d.mant
        /\ Sig(d) = Hidden + d.mant /\ Place(d) = d.exp - 1
    BY <1>2 DEF Normalized, Sig, Place
  <2>2. 0 \in 0..FractionBits /\ 2^0 = 1 /\ Sig(d) * 1 = Sig(d)
    BY <1>1, <2>1
  <2>3. Normalized(d).sig \in Hidden..(2 * Hidden - 1) /\ Normalized(d).exp \in Int
        /\ Normalized(d).exp = Place(d) - Bias + 1 - 0
    BY <1>1, <2>1
  <2> QED
    BY <1>2, <2>1, <2>2, <2>3
<1>3. CASE d.exp = 0
  <2> DEFINE up == CHOOSE n \in 0..FractionBits : d.mant * 2^n \in Hidden..(2 * Hidden - 1)
  <2>1. d.mant > 0
    BY <1>1, <1>3 DEF gpga_double_is_zero
  <2>2. \E n \in 0..FractionBits : d.mant * 2^n \in Hidden..(2 * Hidden - 1)
    <3>1. d.mant < 2 * 2^FractionBits
      BY <1>1
    <3>2. \E n \in 0..FractionBits :
             d.mant * 2^n \in 2^FractionBits..(2 * 2^FractionBits - 1)
      BY <1>1, <2>1, <3>1, LeadingBit, Zenon
    <3> QED
      BY <1>1, <3>2, Zenon
  <2>3. up \in 0..FractionBits /\ d.mant * 2^up \in Hidden..(2 * Hidden - 1)
    BY <2>2
  <2>4. /\ Normalized(d).exp = MinExponent - up /\ Normalized(d).sig = d.mant * 2^up
        /\ Sig(d) = d.mant /\ Place(d) = 0
    BY <1>3 DEF Normalized, Sig, Place
  <2> HIDE DEF up
  <2>5. Normalized(d).exp \in Int /\ Normalized(d).exp = Place(d) - Bias + 1 - up
    BY <1>1, <2>3, <2>4
  <2> QED
    BY <1>3, <2>3, <2>4, <2>5
<1> QED
  BY <1>2, <1>3

-----------------------------------------------------------------------------
(* The nearest double.                                                     *)

\* How far the magnitude m is from the number t / q.
Away(m, t, q) == Absolute(Units(m) * q - t)

\* Nearest with its exponent multiplied out.
IsNearest(d, t, q) ==
    /\ ~gpga_double_is_nan(d)
    /\ \A m \in {Magnitude(d) - 1, Magnitude(d) + 1} \cap 0..Infinite :
           \/ Away(Magnitude(d), t, q) < Away(m, t, q)
           \/ Away(Magnitude(d), t, q) = Away(m, t, q) /\ d.mant % 2 = 0

Scaled(n, k) == IF k < 0 THEN n ELSE n * 2^k

LEMMA ScaledFits ==
  ASSUME NEW n \in Nat, NEW k \in Int
  PROVE  Scaled(n, k) \in Nat
BY TwoPositive DEF Scaled

LEMMA NearestMeans ==
  ASSUME NEW d \in Double, NEW n \in Nat, NEW q \in Nat, NEW k \in Int,
         IsNearest(d, Scaled(n, k), Scaled(q, -k))
  PROVE  Nearest(d, n, q, k)
<1> DEFINE up == IF k < 0 THEN 2^(-k) ELSE 1  exact == IF k < 0 THEN n ELSE n * 2^k
<1>1. up \in Nat /\ exact = Scaled(n, k) /\ q * up = Scaled(q, -k)
  <2>1. CASE k < 0
    BY <2>1, TwoPositive DEF Scaled
  <2>2. CASE k > 0
    BY <2>2 DEF Scaled
  <2>3. CASE k = 0
    <3>1. q * 2^(-0) = q /\ n * 2^0 = n
      OBVIOUS
    <3> QED
      BY <2>3, <3>1 DEF Scaled
  <2> QED
    BY <2>1, <2>2, <2>3
<1>2. Magnitude(d) \in Nat
  BY DoubleFacts
<1>3. ASSUME NEW m \in Nat
      PROVE  Absolute(Units(m) * q * up - exact) = Away(m, Scaled(n, k), Scaled(q, -k))
  <2>1. Units(m) \in Nat
    BY UnitsNext
  <2> HIDE DEF up, exact
  <2>2. Units(m) * q * up = Units(m) * (q * up)
    BY <1>1, <2>1
  <2> QED
    BY <1>1, <2>2 DEF Away
<1> HIDE DEF up, exact
<1>4. Absolute(Units(Magnitude(d)) * q * up - exact) = Away(Magnitude(d), Scaled(n, k), Scaled(q, -k))
  BY <1>2, <1>3
<1>5. \A m \in {Magnitude(d) - 1, Magnitude(d) + 1} \cap 0..Infinite :
         Absolute(Units(m) * q * up - exact) = Away(m, Scaled(n, k), Scaled(q, -k))
  BY <1>3
<1> QED
  BY <1>4, <1>5 DEF Nearest, IsNearest, up, exact

\* The integer s is nearest to t / D, and even if t / D is halfway.
RoundsTo(s, t, D) ==
    /\ (2 * s - 1) * D <= 2 * t /\ 2 * t <= (2 * s + 1) * D
    /\ 2 * t = (2 * s - 1) * D \/ 2 * t = (2 * s + 1) * D => s % 2 = 0

\* A magnitude that does not fit is infinity.
Clamped(n) == IF n < Infinite THEN n ELSE Infinite

\* A significand that is nearest to a normal number is the nearest double, also where
\* the places of the numbers below are finer and where infinity takes over.
LEMMA NearestIs ==
  ASSUME NEW g \in Nat, NEW s \in Hidden..(2 * Hidden), NEW t \in Nat, NEW q \in Nat, q > 0,
         NEW d \in Double, Magnitude(d) = Clamped(g * Hidden + s),
         RoundsTo(s, t, 2^g * q), Hidden * (2^g * q) <= t
  PROVE  IsNearest(d, t, q)
<1> DEFINE M == Magnitude(d)  n == g * Hidden + s  D == 2^g * q  U == Units(M) * q
<1>1. /\ Hidden \in Nat /\ Hidden >= 8 /\ Hidden % 2 = 0 /\ s \in Nat /\ s >= Hidden /\ s <= 2 * Hidden
      /\ Infinite \in Nat /\ Infinite = (2 * Bias) * Hidden + Hidden /\ Bias \in Nat
  BY FormatFacts
<1>2. n \in Nat /\ Units(n) = s * 2^g /\ g * Hidden \in Nat
  BY <1>1, UnitsAt
<1>3. 2^g \in Nat /\ 2^g > 0 /\ D \in Nat /\ D > 0
  <2>1. 2^g \in Nat /\ 2^g > 0
    BY TwoPositive
  <2> QED
    BY <2>1
<1>4. M \in Nat /\ M <= Infinite /\ ~gpga_double_is_nan(d)
  BY <1>1, <1>2, DoubleFacts DEF Clamped
<1>5. /\ U \in Nat
      /\ \A m \in Nat : Units(m) * q \in Nat /\ (m < M => Units(m) * q < U)
  <2>1. Units(M) \in Nat
    BY <1>4, UnitsNext
  <2>2. ASSUME NEW m \in Nat PROVE Units(m) * q \in Nat /\ (m < M => Units(m) * q < U)
    <3>1. Units(m) \in Nat /\ (m < M => Units(m) < Units(M))
      BY <1>4, UnitsOrder
    <3> DEFINE x == Units(m)  y == Units(M)
    <3>2. x \in Nat /\ y \in Nat /\ (m < M => x < y)
      BY <2>1, <3>1
    <3> HIDE DEF x, y
    <3>3. x * q \in Nat /\ (x < y => x * q < y * q)
      BY <3>2
    <3> QED
      BY <3>2, <3>3 DEF x, y
  <2> QED
    BY <2>1, <2>2
\* A lower double is further away when t is not below d's number.
<1>6. ASSUME NEW m \in Nat, m < M, U <= t PROVE Away(M, t, q) < Away(m, t, q)
  <2> DEFINE V == Units(m) * q
  <2>1. V \in Nat /\ U \in Nat /\ V < U
    BY <1>5, <1>6
  <2>2. Away(M, t, q) = Absolute(U - t) /\ Away(m, t, q) = Absolute(V - t)
    BY DEF Away
  <2> HIDE DEF V, U
  <2> QED
    BY <1>6, <2>1, <2>2 DEF Absolute
<1>7. CASE n <= Infinite
  <2> DEFINE x == s * D  H == Hidden
  <2>1. M = n /\ U = x /\ x \in Nat
    <3>1. M = n
      BY <1>1, <1>2, <1>7 DEF Clamped
    <3> HIDE DEF n, M
    <3> DEFINE p == 2^g
    <3>2. U = (s * p) * q /\ p \in Nat
      BY <1>2, <1>3, <3>1
    <3> HIDE DEF p
    <3>3. (s * p) * q = s * (p * q) /\ s * (p * q) \in Nat
      BY <1>1, <3>2
    <3> QED
      BY <3>1, <3>2, <3>3 DEF p
  <2>2. /\ 2 * x - D <= 2 * t /\ 2 * t <= 2 * x + D
        /\ 2 * t = 2 * x - D \/ 2 * t = 2 * x + D => s % 2 = 0
    <3> HIDE DEF D
    <3>1. (2 * s - 1) * D = 2 * x - D /\ (2 * s + 1) * D = 2 * x + D
      BY <1>1, <1>3
    <3> HIDE DEF x
    <3> QED
      BY <3>1 DEF RoundsTo, D
  <2>3. d.mant % 2 = s % 2
    <3>1. d.exp \in Nat /\ d.mant \in Nat /\ M = d.exp * H + d.mant
      BY DoubleFacts
    <3>2. H = 2 * (H \div 2) /\ H \div 2 \in Nat
      BY <1>1
    <3> DEFINE h == H \div 2  e == d.exp
    <3>3. e \in Nat /\ h \in Nat /\ H = 2 * h
      BY <3>1, <3>2
    <3> HIDE DEF h, e
    <3>4. e * H = 2 * (e * h) /\ g * H = 2 * (g * h) /\ e * h \in Int /\ g * h \in Int
      BY <3>3
    <3>5. d.mant + 2 * (e * h) = s + 2 * (g * h)
      BY <1>1, <2>1, <3>1, <3>4 DEF e
    <3>6. (d.mant + 2 * (e * h)) % 2 = d.mant % 2 /\ (s + 2 * (g * h)) % 2 = s % 2
      BY <1>1, <3>1, <3>4, ParityKept
    <3> QED
      BY <3>5, <3>6
  <2>4. ASSUME M + 1 <= Infinite
        PROVE  \/ Away(M, t, q) < Away(M + 1, t, q)
               \/ Away(M, t, q) = Away(M + 1, t, q) /\ s % 2 = 0
    <3> DEFINE V == Units(M + 1) * q  p == 2^g
    <3>1. Units(M + 1) >= (s + 1) * p /\ Units(M + 1) \in Nat
      <4>1. CASE s < 2 * H
        <5>1. s + 1 \in H..(2 * H) /\ g * H + (s + 1) = M + 1
          BY <1>1, <1>2, <2>1, <4>1
        <5>2. Units(M + 1) = (s + 1) * p
          BY <5>1, UnitsAt
        <5> QED
          BY <1>1, <1>3, <5>2
      <4>2. CASE s = 2 * H
        <5>1. H + 1 \in H..(2 * H) /\ (g + 1) * H + (H + 1) = M + 1 /\ g + 1 \in Nat
          BY <1>1, <1>2, <2>1, <4>2
        <5>2. Units(M + 1) = (H + 1) * 2^(g + 1) /\ 2^(g + 1) = 2 * p
          BY <5>1, UnitsAt, TwoTimes
        <5> HIDE DEF p
        <5>3. (H + 1) * (2 * p) = (s + 1) * p + p /\ (s + 1) * p \in Nat /\ p \in Nat
          BY <1>1, <1>3, <4>2 DEF p
        <5> QED
          BY <5>2, <5>3
      <4> QED
        BY <1>1, <4>1, <4>2
    <3>2. V >= x + D /\ V \in Nat
      <4> DEFINE W == Units(M + 1)
      <4>1. p \in Nat /\ W \in Nat /\ W >= (s + 1) * p
        BY <1>3, <3>1
      <4> HIDE DEF W, p
      <4>2. W * q >= ((s + 1) * p) * q /\ W * q \in Nat
        BY <1>1, <4>1
      <4>3. ((s + 1) * p) * q = s * (p * q) + p * q
        BY <1>1, <4>1
      <4> QED
        BY <4>2, <4>3 DEF p, W
    <3>3. Away(M, t, q) = Absolute(x - t) /\ Away(M + 1, t, q) = Absolute(V - t)
      BY <2>1 DEF Away
    <3> HIDE DEF V, x, D
    <3> QED
      BY <1>3, <2>1, <2>2, <3>2, <3>3 DEF Absolute
  <2>5. ASSUME M - 1 \in 0..Infinite
        PROVE  \/ Away(M, t, q) < Away(M - 1, t, q)
               \/ Away(M, t, q) = Away(M - 1, t, q) /\ s % 2 = 0
    <3>1. CASE U <= t
      <4>1. M - 1 \in Nat /\ M - 1 < M
        BY <1>4, <2>5
      <4> HIDE DEF U, M
      <4> QED
        BY <1>6, <3>1, <4>1
    <3>2. CASE U > t
      <4>1. s > H
        BY <1>1, <2>1, <3>2
      <4>2. s - 1 \in H..(2 * H) /\ g * H + (s - 1) = M - 1
        BY <1>1, <1>2, <2>1, <4>1
      <4>3. Units(M - 1) = (s - 1) * 2^g
        BY <4>2, UnitsAt
      <4> DEFINE V == Units(M - 1) * q  p == 2^g
      <4>4. V = x - D
        <5>1. V = ((s - 1) * p) * q /\ p \in Nat
          BY <1>3, <4>3
        <5> HIDE DEF V, p
        <5>2. ((s - 1) * p) * q = s * (p * q) - p * q
          BY <1>1, <5>1
        <5> QED
          BY <5>1, <5>2 DEF p
      <4>5. Away(M, t, q) = Absolute(x - t) /\ Away(M - 1, t, q) = Absolute(V - t)
        BY <2>1 DEF Away
      <4>6. x > t
        BY <2>1, <3>2
      <4> HIDE DEF V, x, D
      <4> QED
        BY <1>3, <2>1, <2>2, <4>4, <4>5, <4>6 DEF Absolute
    <3> QED
      BY <1>5, <3>1, <3>2
  <2> QED
    BY <1>4, <2>3, <2>4, <2>5 DEF IsNearest
<1>8. CASE n > Infinite
  <2> DEFINE H == Hidden  b == 2 * Bias
  <2>1. M = b * H + H /\ M = Infinite
    BY <1>1, <1>2, <1>8 DEF Clamped
  <2>2. g >= b /\ b \in Nat
    <3> SUFFICES ASSUME g + 1 <= b PROVE FALSE
      BY <1>1
    <3>1. b - (g + 1) \in Nat
      BY <1>1
    <3>2. (b - (g + 1)) * H \in Nat
      BY <1>1, <3>1
    <3>3. (b - (g + 1)) * H = b * H - g * H - H
      BY <1>1
    <3> QED
      BY <1>1, <1>2, <1>8, <3>2, <3>3
  <2>3. Units(M) = H * 2^b
    <3>1. H \in H..(2 * H)
      BY <1>1
    <3> QED
      BY <2>1, <2>2, <3>1, UnitsAt
  <2>4. U <= t
    <3>1. 2^b <= 2^g /\ 2^b \in Nat
      BY <2>2, TwoGrows, TwoPositive
    <3> DEFINE p == 2^g  r == 2^b
    <3>2. U = (H * r) * q
      BY <2>3
    <3>3. r \in Nat /\ p \in Nat /\ r <= p
      BY <1>3, <3>1
    <3> HIDE DEF p, r
    <3>4. r * q <= p * q /\ r * q \in Nat /\ p * q \in Nat
      BY <3>3
    <3> DEFINE rq == r * q  pq == p * q
    <3>5. (H * r) * q = H * rq
      BY <1>1, <3>3
    <3>6. rq \in Nat /\ pq \in Nat /\ rq <= pq
      BY <3>4
    <3>7. H * pq <= t
      BY DEF p
    <3> HIDE DEF rq, pq
    <3>8. H * rq <= H * pq
      BY <1>1, <3>6
    <3> QED
      BY <1>1, <1>5, <3>2, <3>5, <3>6, <3>7, <3>8
  <2>5. ASSUME NEW m \in {M - 1, M + 1} \cap 0..Infinite PROVE Away(M, t, q) < Away(m, t, q)
    <3>1. m \in Nat /\ m < M
      BY <1>1, <1>4, <2>1, <2>5
    <3> HIDE DEF U, M
    <3> QED
      BY <1>6, <2>4, <3>1
  <2> QED
    BY <1>4, <2>5 DEF IsNearest
<1> QED
  BY <1>1, <1>2, <1>7, <1>8

\* A double is nearest to the number it stands for.
LEMMA ExactIsNearest ==
  ASSUME NEW d \in Double, ~gpga_double_is_nan(d), NEW q \in Nat, q > 0,
         NEW t \in Nat, t = Units(Magnitude(d)) * q
  PROVE  IsNearest(d, t, q)
<1> DEFINE M == Magnitude(d)
<1>1. M \in Nat /\ Infinite \in Nat
  BY DoubleFacts, FormatFacts
<1>2. Away(M, t, q) = 0
  BY DEF Away, Absolute
<1>3. ASSUME NEW m \in Nat, m # M PROVE 0 < Away(m, t, q)
  <2> DEFINE x == Units(m)  y == Units(M)
  <2>1. x \in Nat /\ y \in Nat /\ x # y /\ t = y * q
    BY <1>1, <1>3, UnitsOrder
  <2>2. Away(m, t, q) = Absolute(x * q - t)
    BY DEF Away
  <2> HIDE DEF x, y
  <2>3. x < y \/ y < x
    BY <2>1
  <2>4. x * q # y * q /\ x * q \in Nat /\ y * q \in Nat
    <3>1. x < y => x * q < y * q
      BY <2>1
    <3>2. y < x => y * q < x * q
      BY <2>1
    <3>3. x * q \in Nat /\ y * q \in Nat
      BY <2>1
    <3> QED
      BY <2>3, <3>1, <3>2, <3>3
  <2> QED
    BY <2>1, <2>2, <2>4 DEF Absolute
<1>4. \A m \in {M - 1, M + 1} \cap 0..Infinite : m \in Nat /\ m # M
  BY <1>1
<1> HIDE DEF M
<1> QED
  BY <1>2, <1>3, <1>4 DEF IsNearest, M

\* A common factor of two numbers does not change what is nearest.
LEMMA Cancel ==
  ASSUME NEW a \in Int, NEW b \in Int, NEW p \in Nat, p > 0
  PROVE  /\ a * p <= b * p => a <= b
         /\ a * p = b * p => a = b
         /\ a * p < b * p => a < b
<1>1. a > b => a * p > b * p
  BY a > b => a - b >= 1
<1>2. a < b => a * p < b * p
  BY b > a => b - a >= 1
<1>3. a * p \in Int /\ b * p \in Int
  OBVIOUS
<1> DEFINE x == a * p  y == b * p
<1> HIDE DEF x, y
<1>4. x \in Int /\ y \in Int /\ (a > b => x > y) /\ (a < b => x < y)
  BY <1>1, <1>2, <1>3 DEF x, y
<1>5. (x <= y => a <= b) /\ (x = y => a = b) /\ (x < y => a < b)
  <2>1. a = b => x = y
    BY DEF x, y
  <2> QED
    BY <1>4, <2>1
<1> QED
  BY <1>5 DEF x, y

LEMMA RoundsAlike ==
  ASSUME NEW s \in Nat, NEW v \in Nat, NEW P \in Nat, P > 0, NEW t \in Nat, NEW D \in Nat, D > 0,
         v * D = t * P, RoundsTo(s, v, P)
  PROVE  RoundsTo(s, t, D)
<1> DEFINE l == 2 * s - 1  r == 2 * s + 1
<1>1. l \in Int /\ r \in Int /\ l * P <= 2 * v /\ 2 * v <= r * P
      /\ (2 * v = l * P \/ 2 * v = r * P => s % 2 = 0)
  BY DEF RoundsTo
<1> HIDE DEF l, r
<1>2. /\ (l * D) * P = (l * P) * D /\ (r * D) * P = (r * P) * D /\ (2 * t) * P = (2 * v) * D
      /\ l * D \in Int /\ r * D \in Int /\ 2 * t \in Int
      /\ l * P \in Int /\ r * P \in Int /\ 2 * v \in Int
  <2>1. (l * D) * P = (l * P) * D /\ (r * D) * P = (r * P) * D
    BY <1>1
  <2>2. (2 * t) * P = 2 * (t * P) /\ (2 * v) * D = 2 * (v * D)
    OBVIOUS
  <2>3. l * D \in Int /\ r * D \in Int /\ 2 * t \in Int
        /\ l * P \in Int /\ r * P \in Int /\ 2 * v \in Int
    BY <1>1
  <2> QED
    BY <2>1, <2>2, <2>3
<1> DEFINE lp == l * P  rp == r * P  ld == l * D  rd == r * D  w == 2 * v  u == 2 * t
<1>3. /\ lp \in Int /\ rp \in Int /\ ld \in Int /\ rd \in Int /\ w \in Int /\ u \in Int
      /\ ld * P = lp * D /\ rd * P = rp * D /\ u * P = w * D
      /\ lp <= w /\ w <= rp /\ (w = lp \/ w = rp => s % 2 = 0)
  BY <1>1, <1>2
<1> HIDE DEF lp, rp, ld, rd, w, u
<1>4. lp * D <= w * D /\ w * D <= rp * D
  BY <1>3
<1>5. ld * P <= u * P /\ u * P <= rd * P
  BY <1>3, <1>4
<1>6. ld <= u /\ u <= rd
  BY <1>3, <1>5, Cancel
<1>7. (u = ld => w = lp) /\ (u = rd => w = rp)
  <2>1. ASSUME u = ld PROVE w = lp
    <3>1. w * D = lp * D
      BY <1>3, <2>1
    <3> QED
      BY <1>3, <3>1, Cancel
  <2>2. ASSUME u = rd PROVE w = rp
    <3>1. w * D = rp * D
      BY <1>3, <2>2
    <3> QED
      BY <1>3, <3>1, Cancel
  <2> QED
    BY <2>1, <2>2
<1> QED
  BY <1>3, <1>6, <1>7 DEF RoundsTo, ld, rd, u, l, r

-----------------------------------------------------------------------------
(* Significands with three extra bits.                                     *)

\* The half places of ext are those of v / p: ext says whether v is on one.
Places(ext, v, p) ==
    IF ext % 4 = 0 THEN v = ext * p
    ELSE 4 * (ext \div 4) * p < v /\ v < (4 * (ext \div 4) + 4) * p

\* The last bit of r stands for a one somewhere in v below p.
Sticky(r, v, p) == v = r * p \/ (Odd(r) /\ (r - 1) * p < v /\ v < (r + 1) * p)

LEMMA FourParts ==
  ASSUME NEW n \in Nat
  PROVE  /\ n \div 4 \in Nat /\ n % 4 \in 0..3 /\ n = 4 * (n \div 4) + (n % 4)
         /\ Odd(n) <=> n % 4 \in {1, 3}
<1> DEFINE c == n \div 4  k == n % 4
<1>1. c \in Nat /\ k \in 0..3 /\ n = 4 * c + k
  OBVIOUS
<1> HIDE DEF c, k
<1>2. 2 * c \in Int /\ n = k + 2 * (2 * c) /\ k \in Int
  BY <1>1
<1>3. n % 2 = k % 2
  BY <1>2, ParityKept
<1> QED
  BY <1>1, <1>3 DEF Odd, c, k

LEMMA StickyPlaces ==
  ASSUME NEW r \in Nat, NEW v \in Nat, NEW p \in Nat, p > 0, Sticky(r, v, p)
  PROVE  Places(r, v, p)
<1> DEFINE c == 4 * (r \div 4)  k == r % 4
<1>1. c \in Nat /\ k \in 0..3 /\ r = c + k /\ (Odd(r) <=> k \in {1, 3})
  BY FourParts
<1> HIDE DEF c, k
<1>2. /\ r * p = c * p + k * p /\ (r - 1) * p = c * p + k * p - p /\ (r + 1) * p = c * p + k * p + p
      /\ (c + 4) * p = c * p + 4 * p /\ c * p \in Nat
  BY <1>1
<1>3. CASE k = 0
  BY <1>1, <1>3 DEF Sticky, Places, k
<1>4. CASE k \in {1, 2, 3}
  <2> DEFINE x == c * p
  <2>1. x \in Nat
    BY <1>2
  <2>2. k * p \in {p, 2 * p, 3 * p} /\ (k = 1 => k * p = p) /\ (k = 3 => k * p = 3 * p)
    BY <1>4
  <2>3. c * p < v /\ v < (c + 4) * p
    <3> DEFINE y == k * p
    <3>1. y \in {p, 2 * p, 3 * p} /\ (k = 1 => y = p) /\ (k = 3 => y = 3 * p)
      BY <2>2
    <3>2. \/ v = x + y
          \/ k \in {1, 3} /\ x + y - p < v /\ v < x + y + p
      BY <1>1, <1>2 DEF Sticky
    <3>3. x < v /\ v < x + 4 * p
      <4> HIDE DEF x, y
      <4> QED
        BY <1>1, <2>1, <3>1, <3>2
    <3> QED
      BY <1>2, <3>3
  <2> QED
    BY <1>1, <1>4, <2>3 DEF Places, c, k
<1> QED
  BY <1>1, <1>3, <1>4

\* One more place for the sticky bit keeps the half places.
LEMMA StickyDoubled ==
  ASSUME NEW r \in Nat, NEW v \in Nat, NEW p \in Nat, p > 0, Sticky(r, v, p)
  PROVE  Places(2 * r, 2 * v, p)
<1> DEFINE h == r \div 2
<1>1. h \in Nat /\ (r = 2 * h \/ r = 2 * h + 1) /\ (Odd(r) <=> r = 2 * h + 1)
  BY DEF Odd
<1>2. CASE r = 2 * h
  <2>1. (2 * r) % 4 = 0
    BY <1>1, <1>2
  <2>2. v = r * p
    BY <1>1, <1>2 DEF Sticky
  <2>3. 2 * v = (2 * r) * p
    BY <2>2
  <2> QED
    BY <2>1, <2>3 DEF Places
<1>3. CASE r = 2 * h + 1
  <2>1. (2 * r) % 4 = 2 /\ 4 * ((2 * r) \div 4) = 4 * h
    BY <1>1, <1>3
  <2>2. (r - 1) * p < v /\ v < (r + 1) * p
    <3>1. (r - 1) * p = r * p - p /\ (r + 1) * p = r * p + p /\ r * p \in Nat
      OBVIOUS
    <3> QED
      BY <3>1 DEF Sticky
  <2>3. 2 * ((r - 1) * p) = (4 * h) * p /\ 2 * ((r + 1) * p) = (4 * h + 4) * p
    BY <1>1, <1>3
  <2>4. (r - 1) * p \in Int /\ (r + 1) * p \in Int
    OBVIOUS
  <2>5. (4 * h) * p < 2 * v /\ 2 * v < (4 * h + 4) * p
    BY <2>2, <2>3, <2>4
  <2> QED
    BY <2>1, <2>5 DEF Places
<1> QED
  BY <1>1, <1>2, <1>3

\* The quotient whose last bit says that there is a remainder.
Stuck(v, p) == IF v % p # 0 /\ ~Odd(v \div p) THEN (v \div p) + 1 ELSE v \div p

LEMMA StuckIs ==
  ASSUME NEW v \in Nat, NEW p \in Nat, p > 0
  PROVE  LET r == Stuck(v, p)
         IN  /\ r \in Nat /\ Sticky(r, v, p)
             /\ r \in {v \div p, (v \div p) + 1} /\ v \div p \in Nat
             /\ v % p = 0 => v = r * p
<1> DEFINE c == v \div p  k == v % p
<1>1. p \in Nat /\ p > 0
  OBVIOUS
<1>2. c \in Nat /\ k \in Nat /\ k < p /\ v = p * c + k
  BY <1>1, DivisionBy
<1>3. Stuck(v, p) = IF k # 0 /\ ~Odd(c) THEN c + 1 ELSE c
  BY DEF Stuck
<1> HIDE DEF c, k
<1>4. c * p = p * c /\ (c + 1) * p = p * c + p /\ (c - 1) * p = p * c - p /\ p * c \in Nat
      /\ ((c + 1) + 1) * p = p * c + 2 * p
  BY <1>1, <1>2
<1>5. CASE k = 0
  <2>1. v = c * p
    BY <1>2, <1>4, <1>5
  <2> QED
    BY <1>2, <1>3, <1>5, <2>1 DEF Sticky, c, k
<1>6. CASE k # 0 /\ Odd(c)
  <2>1. (c - 1) * p < v /\ v < (c + 1) * p
    BY <1>1, <1>2, <1>4, <1>6
  <2> QED
    BY <1>2, <1>3, <1>6, <2>1 DEF Sticky, c, k
<1>7. CASE k # 0 /\ ~Odd(c)
  <2>1. ((c + 1) - 1) * p < v /\ v < ((c + 1) + 1) * p
    BY <1>1, <1>2, <1>4, <1>7
  <2>2. Odd(c + 1)
    BY <1>2, <1>7 DEF Odd
  <2> QED
    BY <1>2, <1>3, <1>7, <2>1, <2>2 DEF Sticky, c, k
<1> QED
  BY <1>5, <1>6, <1>7

\* An even bound of the quotient is kept.
LEMMA StuckBounds ==
  ASSUME NEW v \in Nat, NEW p \in Nat, p > 0, NEW l \in Nat, NEW N \in Nat, N % 2 = 0,
         l * p <= v, v < N * p
  PROVE  Stuck(v, p) \in l..(N - 1)
<1> DEFINE c == v \div p  k == v % p
<1>1. p \in Nat /\ p > 0 /\ l * p <= v /\ v < N * p
  OBVIOUS
<1>2. c \in Nat /\ k \in Nat /\ k < p /\ v = p * c + k
  BY <1>1, DivisionBy
<1>3. Stuck(v, p) = IF k # 0 /\ ~Odd(c) THEN c + 1 ELSE c
  BY DEF Stuck
<1> HIDE DEF c, k
<1>4. l <= c /\ c < N
  <2>1. l * p < (c + 1) * p /\ c * p < N * p
    <3>1. p * c = c * p /\ (c + 1) * p = c * p + p /\ c * p \in Nat /\ l * p \in Nat /\ N * p \in Nat
      BY <1>1, <1>2
    <3> QED
      BY <1>1, <1>2, <3>1
  <2>2. l < c + 1 /\ c < N
    BY <1>1, <1>2, <2>1, Cancel
  <2> QED
    BY <1>2, <2>2
<1>5. ~Odd(c) => c + 1 < N
  BY <1>2, <1>4 DEF Odd
<1> QED
  BY <1>2, <1>3, <1>4, <1>5

\* A shift with a sticky bit, and a second one by a single place.
LEMMA ShiftSticks ==
  ASSUME NEW v \in Nat, NEW n \in Nat
  PROVE  LET r == gpga_shift_right_sticky(v, n)
         IN  /\ r \in Nat /\ Sticky(r, v, 2^n)
             /\ v % 2^n = 0 => v = r * 2^n
             /\ \A l, N \in Nat : N % 2 = 0 /\ l * 2^n <= v /\ v < N * 2^n => r \in l..(N - 1)
<1> DEFINE p == 2^n
<1>1. p \in Nat /\ p > 0
  BY TwoPositive
<1>2. gpga_shift_right_sticky(v, n) = Stuck(v, p)
  BY DEF gpga_shift_right_sticky, Stuck
<1> HIDE DEF p
<1>3. Stuck(v, p) \in Nat /\ Sticky(Stuck(v, p), v, p) /\ (v % p = 0 => v = Stuck(v, p) * p)
  BY <1>1, StuckIs
<1>4. \A l, N \in Nat : N % 2 = 0 /\ l * p <= v /\ v < N * p => Stuck(v, p) \in l..(N - 1)
  BY <1>1, StuckBounds
<1> QED
  BY <1>2, <1>3, <1>4 DEF p

LEMMA ShiftAgain ==
  ASSUME NEW r \in Nat, NEW v \in Nat, NEW p \in Nat, p > 0, Sticky(r, v, p)
  PROVE  LET s == gpga_shift_right_sticky(r, 1)
         IN  s \in {r \div 2, (r \div 2) + 1} /\ Sticky(s, v, 2 * p)
<1> DEFINE s == gpga_shift_right_sticky(r, 1)  h == r \div 2
<1>1. h \in Nat /\ (r = 2 * h \/ r = 2 * h + 1) /\ (Odd(r) <=> r = 2 * h + 1) /\ (r % 2 # 0 <=> Odd(r))
  BY DEF Odd
<1>2. s = IF Odd(r) /\ ~Odd(h) THEN h + 1 ELSE h
  <2>1. 2^1 = 2
    OBVIOUS
  <2> QED
    BY <1>1, <2>1 DEF gpga_shift_right_sticky
<1> HIDE DEF h
<1>3. CASE r = 2 * h
  <2>1. s = h /\ v = r * p
    BY <1>1, <1>2, <1>3 DEF Sticky
  <2>2. v = h * (2 * p)
    BY <1>1, <1>3, <2>1
  <2> QED
    BY <2>1, <2>2 DEF Sticky, h
<1>4. CASE r = 2 * h + 1
  <2>1. (2 * h) * p < v /\ v < (2 * h + 2) * p
    <3>1. (r - 1) * p = r * p - p /\ (r + 1) * p = r * p + p /\ r * p \in Nat
      OBVIOUS
    <3>2. (r - 1) * p < v /\ v < (r + 1) * p
      BY <3>1 DEF Sticky
    <3>3. r - 1 = 2 * h /\ r + 1 = 2 * h + 2
      BY <1>1, <1>4
    <3> QED
      BY <3>2, <3>3
  <2> DEFINE x == h * p
  <2>2. (2 * h) * p = 2 * x /\ (2 * h + 2) * p = 2 * x + 2 * p /\ x \in Nat
    BY <1>1
  <2>3. /\ (h - 1) * (2 * p) = 2 * x - 2 * p /\ (h + 1) * (2 * p) = 2 * x + 2 * p
        /\ ((h + 1) - 1) * (2 * p) = 2 * x /\ ((h + 1) + 1) * (2 * p) = 2 * x + 4 * p
    BY <1>1
  <2>4. CASE Odd(h)
    <3>1. s = h
      BY <1>1, <1>2, <2>4
    <3>2. (h - 1) * (2 * p) < v /\ v < (h + 1) * (2 * p)
      BY <2>1, <2>2, <2>3
    <3> QED
      BY <2>4, <3>1, <3>2 DEF Sticky, h
  <2>5. CASE ~Odd(h)
    <3>1. s = h + 1 /\ Odd(h + 1)
      BY <1>1, <1>2, <1>4, <2>5 DEF Odd
    <3>2. ((h + 1) - 1) * (2 * p) < v /\ v < ((h + 1) + 1) * (2 * p)
      BY <2>1, <2>2, <2>3
    <3> QED
      BY <3>1, <3>2 DEF Sticky, h
  <2> QED
    BY <2>4, <2>5
<1> QED
  BY <1>1, <1>3, <1>4

\* The rounding of the three bits is that of the value they stand for.
LEMMA RoundedIs ==
  ASSUME NEW ext \in Nat, NEW v \in Nat, NEW p \in Nat, p > 0, Places(ext, v, p)
  PROVE  /\ RoundedUp(ext) \in {ext \div 8, (ext \div 8) + 1} /\ ext \div 8 \in Nat
         /\ RoundsTo(RoundedUp(ext), v, 8 * p)
<1> DEFINE a == ext \div 8  b == (ext \div 4) % 2  k == ext % 4  s == RoundedUp(ext)
<1>1. a \in Nat /\ b \in {0, 1} /\ k \in 0..3 /\ ext \div 4 = 2 * a + b /\ ext = 8 * a + 4 * b + k
  <2>1. ext \div 4 \in Nat /\ k \in 0..3 /\ ext = 4 * (ext \div 4) + k
    BY FourParts
  <2> DEFINE c == ext \div 4
  <2>2. c \div 2 \in Nat /\ c % 2 \in {0, 1} /\ c = 2 * (c \div 2) + (c % 2)
    BY <2>1
  <2>3. ext \div 8 = c \div 2
    <3> DEFINE q == c \div 2  r == c % 2
    <3>1. q \in Int /\ 4 * r + k \in Nat /\ 4 * r + k < 8 /\ ext = 8 * q + (4 * r + k)
      <4> HIDE DEF q, r, c, k
      <4> QED
        BY <2>1, <2>2 DEF q, r, c
    <3> HIDE DEF q, r, k
    <3>2. ext \div 8 = q
      BY <3>1, DivisionIs
    <3> QED
      BY <3>2 DEF q
  <2> QED
    BY <2>1, <2>2, <2>3
<1>2. s = IF b = 1 /\ (k # 0 \/ Odd(a)) THEN a + 1 ELSE a
  BY DEF RoundedUp
<1> DEFINE x == a * p
<1>3. x \in Nat
  BY <1>1
<1>4. IF k = 0 THEN v = 8 * x + 4 * (b * p)
      ELSE 8 * x + 4 * (b * p) < v /\ v < 8 * x + 4 * (b * p) + 4 * p
  <2> HIDE DEF a, b, k
  <2>1. ext % 4 = k
    BY DEF k
  <2>2. k = 0 => v = (8 * a + 4 * b) * p
    BY <1>1, <2>1 DEF Places
  <2>3. k # 0 => (4 * (2 * a + b)) * p < v /\ v < (4 * (2 * a + b) + 4) * p
    BY <1>1, <2>1 DEF Places
  <2>4. /\ (8 * a + 4 * b) * p = 8 * x + 4 * (b * p) /\ (4 * (2 * a + b)) * p = 8 * x + 4 * (b * p)
        /\ (4 * (2 * a + b) + 4) * p = 8 * x + 4 * (b * p) + 4 * p
    BY <1>1
  <2> QED
    BY <2>2, <2>3, <2>4
<1>5. /\ (2 * a - 1) * (8 * p) = 16 * x - 8 * p /\ (2 * a + 1) * (8 * p) = 16 * x + 8 * p
      /\ (2 * (a + 1) - 1) * (8 * p) = 16 * x + 8 * p /\ (2 * (a + 1) + 1) * (8 * p) = 16 * x + 24 * p
  BY <1>1
<1> HIDE DEF a, b, k, x, s
<1>6. CASE b = 0
  <2>1. s = a /\ b * p = 0
    BY <1>2, <1>6
  <2>2. 16 * x - 8 * p < 2 * v /\ 2 * v < 16 * x + 8 * p
    BY <1>3, <1>4, <2>1
  <2> QED
    BY <1>1, <1>5, <2>1, <2>2 DEF RoundsTo, s, a
<1>7. CASE b = 1
  <2>1. b * p = p
    BY <1>7
  <2>2. CASE k = 0 /\ Odd(a)
    <3>1. s = a + 1 /\ (a + 1) % 2 = 0
      BY <1>1, <1>2, <1>7, <2>2 DEF Odd
    <3>2. 2 * v = 16 * x + 8 * p
      BY <1>3, <1>4, <2>1, <2>2
    <3> QED
      BY <1>1, <1>3, <1>5, <3>1, <3>2 DEF RoundsTo, s, a
  <2>3. CASE k = 0 /\ ~Odd(a)
    <3>1. s = a /\ a % 2 = 0
      BY <1>1, <1>2, <1>7, <2>3 DEF Odd
    <3>2. 2 * v = 16 * x + 8 * p
      BY <1>3, <1>4, <2>1, <2>3
    <3> QED
      BY <1>1, <1>3, <1>5, <3>1, <3>2 DEF RoundsTo, s, a
  <2>4. CASE k # 0
    <3>1. s = a + 1
      BY <1>2, <1>7, <2>4
    <3>2. 16 * x + 8 * p < 2 * v /\ 2 * v < 16 * x + 24 * p
      BY <1>3, <1>4, <2>1, <2>4
    <3> QED
      BY <1>1, <1>5, <3>1, <3>2 DEF RoundsTo, s, a
  <2> QED
    BY <2>2, <2>3, <2>4
<1> QED
  BY <1>1, <1>6, <1>7

-----------------------------------------------------------------------------
(* Packing.                                                                *)

LEMMA PackIs ==
  ASSUME NEW sign \in {0, 1}, NEW e \in 0..MaxExp, NEW m \in Nat
  PROVE  LET d == gpga_double_pack(sign, e, m)
         IN  d \in Double /\ d.sign = sign /\ d.exp = e /\ d.mant = m % Hidden
             /\ Magnitude(d) = e * Hidden + (m % Hidden)
<1>1. Hidden \in Nat /\ Hidden > 0 /\ m % Hidden \in 0..(Hidden - 1)
  BY FormatFacts, DivisionBy
<1> QED
  BY <1>1 DEF gpga_double_pack, Double, Magnitude

\* Zeros and infinities.
LEMMA ZeroAndInf ==
  ASSUME NEW sign \in {0, 1}
  PROVE  /\ gpga_double_zero(sign) \in Double /\ gpga_double_zero(sign).sign = sign
         /\ Magnitude(gpga_double_zero(sign)) = 0
         /\ gpga_double_inf(sign) \in Double /\ gpga_double_inf(sign).sign = sign
         /\ Magnitude(gpga_double_inf(sign)) = Infinite
<1>1. 0 \in 0..MaxExp /\ MaxExp \in 0..MaxExp /\ 0 \in Nat /\ 0 % Hidden = 0 /\ Hidden \in Nat
  <2>1. Hidden \in Nat /\ Hidden > 0 /\ MaxExp \in Nat
    BY FormatFacts
  <2>2. 0 % Hidden = 0
    BY <2>1, Remaining
  <2> QED
    BY <2>1, <2>2
<1> DEFINE z == gpga_double_pack(sign, 0, 0)  i == gpga_double_pack(sign, MaxExp, 0)
<1>2. z \in Double /\ z.sign = sign /\ Magnitude(z) = 0 * Hidden + (0 % Hidden)
  BY <1>1, PackIs
<1>3. i \in Double /\ i.sign = sign /\ Magnitude(i) = MaxExp * Hidden + (0 % Hidden)
  BY <1>1, PackIs
<1>4. MaxExp * Hidden \in Nat /\ 0 * Hidden = 0
  BY <1>1, MaxExp \in Nat, FormatFacts
<1> HIDE DEF z, i
<1>5. Magnitude(z) = 0 /\ Magnitude(i) = MaxExp * Hidden
  BY <1>1, <1>2, <1>3, <1>4
<1> QED
  BY <1>2, <1>3, <1>5 DEF gpga_double_zero, gpga_double_inf, Infinite, z, i

\* A full significand at exponent e, that of the next exponent when it has just
\* carried, and infinity when the exponent has no field.
Packed(sign, e, s) ==
    IF s = 2 * Hidden
    THEN IF e + 1 > Bias THEN gpga_double_inf(sign) ELSE gpga_double_pack(sign, e + 1 + Bias, Hidden)
    ELSE IF e > Bias THEN gpga_double_inf(sign) ELSE gpga_double_pack(sign, e + Bias, s)

LEMMA PackedIs ==
  ASSUME NEW sign \in {0, 1}, NEW e \in Int, e >= 1 - Bias, NEW s \in Hidden..(2 * Hidden)
  PROVE  LET d == Packed(sign, e, s)
         IN  d \in Double /\ d.sign = sign /\ Magnitude(d) = Clamped((e + Bias - 1) * Hidden + s)
<1> DEFINE d == Packed(sign, e, s)  H == Hidden  B == Bias
<1>1. /\ H \in Nat /\ H >= 8 /\ B \in Nat /\ B >= 3 /\ MaxExp = 2 * B + 1
      /\ Infinite = (2 * B) * H + H /\ s \in Nat /\ s >= H /\ s <= 2 * H
  BY FormatFacts
<1> DEFINE g == e + B - 1
<1>2. g \in Nat
  BY <1>1
<1>3. H % H = 0 /\ (s < 2 * H => s % H = s - H)
  <2>1. H \in Int /\ s \in Int /\ H > 0 /\ 1 \in Int /\ 0 \in Nat /\ H = H * 1 + 0
    BY <1>1
  <2>2. H % H = 0
    BY <1>1, <2>1, DivisionIs
  <2>3. ASSUME s < 2 * H PROVE s % H = s - H
    <3>1. s - H \in Nat /\ s - H < H /\ s = H * 1 + (s - H)
      BY <1>1, <2>3
    <3> HIDE DEF H
    <3> QED
      BY <1>1, <2>1, <3>1, DivisionIs
  <2> QED
    BY <2>2, <2>3
\* What the exponent says of the magnitude.
<1>4. /\ e > B => g * H + s >= Infinite
      /\ e = B /\ s = 2 * H => g * H + s = Infinite
      /\ e <= B /\ s < 2 * H => g * H + s < Infinite
      /\ e < B => g * H + s < Infinite
  <2>1. ASSUME e > B PROVE g * H + s >= Infinite
    <3>1. g - 2 * B \in Nat
      BY <1>1, <1>2, <2>1
    <3>2. (g - 2 * B) * H \in Nat /\ (g - 2 * B) * H = g * H - (2 * B) * H
      BY <1>1, <1>2, <3>1
    <3>3. g * H \in Nat /\ (2 * B) * H \in Nat
      BY <1>1, <1>2
    <3> HIDE DEF g
    <3> QED
      BY <1>1, <3>2, <3>3
  <2>2. ASSUME e = B PROVE g * H + s = (2 * B) * H - H + s
    <3>1. g = 2 * B - 1
      BY <1>1, <2>2
    <3> QED
      BY <1>1, <3>1
  <2>3. ASSUME e < B PROVE g * H + s <= (2 * B) * H - 2 * H + s
    <3>1. 2 * B - 2 - g \in Nat
      BY <1>1, <2>3
    <3>2. (2 * B - 2 - g) * H \in Nat /\ (2 * B - 2 - g) * H = (2 * B) * H - 2 * H - g * H
      BY <1>1, <1>2, <3>1
    <3>3. g * H \in Nat /\ (2 * B) * H \in Nat
      BY <1>1, <1>2
    <3> HIDE DEF g
    <3> QED
      BY <1>1, <3>2, <3>3
  <2>4. g * H \in Nat /\ (2 * B) * H \in Nat
    BY <1>1, <1>2
  <2> HIDE DEF g, H, B
  <2>5. e = B /\ s = 2 * H => g * H + s = Infinite
    BY <1>1, <2>2, <2>4
  <2>6. e <= B /\ s < 2 * H => g * H + s < Infinite
    <3>1. e \in Int /\ B \in Int
      BY <1>1
    <3>2. e <= B => e = B \/ e < B
      BY <3>1
    <3> QED
      BY <1>1, <2>2, <2>3, <2>4, <3>2
  <2>7. e < B => g * H + s < Infinite
    BY <1>1, <2>3, <2>4
  <2> QED
    BY <2>1, <2>5, <2>6, <2>7
<1>5. CASE s = 2 * H
  <2>1. CASE e + 1 > B
    <3>1. g * H + s >= Infinite
      <4>1. e > B \/ e = B
        BY <1>1, <2>1
      <4>2. g * H + s \in Nat /\ Infinite \in Nat
        BY <1>1, <1>2
      <4> HIDE DEF g, H, B
      <4> QED
        BY <1>4, <1>5, <4>1, <4>2
    <3>2. d = gpga_double_inf(sign)
      BY <1>5, <2>1 DEF Packed
    <3> HIDE DEF g, d
    <3>3. g * H + s \in Nat /\ Infinite \in Nat
      BY <1>1, <1>2
    <3>4. d \in Double /\ d.sign = sign /\ Magnitude(d) = Infinite
      BY <3>2, ZeroAndInf
    <3>5. Clamped(g * H + s) = Infinite
      BY <3>1, <3>3 DEF Clamped
    <3> QED
      BY <3>4, <3>5 DEF d, g
  <2>2. CASE e + 1 <= B
    <3>1. e + 1 + B \in 0..MaxExp /\ d = gpga_double_pack(sign, e + 1 + B, H)
      BY <1>1, <1>5, <2>2 DEF Packed
    <3>2. d \in Double /\ d.sign = sign /\ Magnitude(d) = (e + 1 + B) * H + (H % H)
      <4>1. H \in Nat
        BY <1>1
      <4> HIDE DEF d, H, B
      <4>2. LET c == gpga_double_pack(sign, e + 1 + B, H)
            IN  c \in Double /\ c.sign = sign /\ Magnitude(c) = (e + 1 + B) * Hidden + (H % Hidden)
        BY <3>1, <4>1, PackIs, Zenon
      <4> QED
        BY <3>1, <4>2 DEF H
    <3>3. (e + 1 + B) * H + 0 = g * H + s
      BY <1>1, <1>5
    <3>4. g * H + s < Infinite
      BY <1>1, <1>4, <2>2
    <3> HIDE DEF g, d
    <3> QED
      BY <1>3, <3>2, <3>3, <3>4 DEF Clamped, d, g
  <2> QED
    BY <1>1, <2>1, <2>2
<1>6. CASE s < 2 * H
  <2>1. CASE e > B
    <3>1. d = gpga_double_inf(sign) /\ g * H + s >= Infinite
      BY <1>1, <1>4, <1>6, <2>1 DEF Packed
    <3>2. g * H + s \in Nat /\ Infinite \in Nat
      BY <1>1, <1>2
    <3> HIDE DEF g, d
    <3>3. d \in Double /\ d.sign = sign /\ Magnitude(d) = Infinite
      BY <3>1, ZeroAndInf
    <3>4. Clamped(g * H + s) = Infinite
      BY <3>1, <3>2 DEF Clamped
    <3> QED
      BY <3>3, <3>4 DEF d, g
  <2>2. CASE e <= B
    <3>1. e + B \in 0..MaxExp /\ d = gpga_double_pack(sign, e + B, s)
      BY <1>1, <1>6, <2>2 DEF Packed
    <3>2. d \in Double /\ d.sign = sign /\ Magnitude(d) = (e + B) * H + (s % H)
      <4> HIDE DEF d
      <4> QED
        BY <1>1, <3>1, PackIs
    <3>3. (e + B) * H + (s - H) = g * H + s
      BY <1>1
    <3>4. g * H + s < Infinite
      BY <1>1, <1>4, <1>6, <2>2
    <3> HIDE DEF g, d
    <3> QED
      BY <1>3, <1>6, <3>2, <3>3, <3>4 DEF Clamped, d, g
  <2> QED
    BY <1>1, <2>1, <2>2
<1> QED
  BY <1>1, <1>5, <1>6

\* Rounding answers with a double of the sign it is given, never with a NaN.
LEMMA RoundPackFits ==
  ASSUME NEW sign \in {0, 1}, NEW exp \in Int, NEW ext \in Nat
  PROVE  LET d == gpga_double_round_pack(sign, exp, ext)
         IN  d \in Double /\ d.sign = sign /\ ~gpga_double_is_nan(d)
<1> DEFINE d == gpga_double_round_pack(sign, exp, ext)
           r == RoundedUp(ext)
           carry == r >= 2 * Hidden
           sig == IF carry THEN r \div 2 ELSE r
           e == IF carry THEN exp + 1 ELSE exp
           den == RoundedUp(gpga_shift_right_sticky(sig * 8, MinExponent - e))
<1>1. /\ Bias \in Nat /\ Bias >= 3 /\ MaxExp = 2 * Bias + 1 /\ MinExponent = 1 - Bias
      /\ MaxExp \in Nat /\ 0 \in 0..MaxExp /\ 1 \in 0..MaxExp
  BY FormatFacts
<1>2. \A n \in Nat : RoundedUp(n) \in Nat
  <2> SUFFICES ASSUME NEW n \in Nat PROVE RoundedUp(n) \in Nat
    OBVIOUS
  <2>1. n \div 8 \in Nat
    OBVIOUS
  <2> QED
    BY <2>1 DEF RoundedUp
<1>3. r \in Nat
  BY <1>2
<1> HIDE DEF r
<1>4. sig \in Nat /\ e \in Int
  BY <1>3
<1> HIDE DEF sig, e, carry
<1>5. d = IF e > Bias THEN gpga_double_inf(sign)
          ELSE IF e < MinExponent
          THEN IF den >= Hidden THEN gpga_double_pack(sign, 1, 0) ELSE gpga_double_pack(sign, 0, den)
          ELSE gpga_double_pack(sign, e + Bias, sig)
  BY DEF gpga_double_round_pack, r, carry, sig, e
<1>6. \A x \in 0..(MaxExp - 1), m \in Nat :
         LET c == gpga_double_pack(sign, x, m)
         IN  c \in Double /\ c.sign = sign /\ ~gpga_double_is_nan(c)
  <2> SUFFICES ASSUME NEW x \in 0..(MaxExp - 1), NEW m \in Nat
               PROVE  LET c == gpga_double_pack(sign, x, m)
                      IN  c \in Double /\ c.sign = sign /\ ~gpga_double_is_nan(c)
    OBVIOUS
  <2>1. x \in 0..MaxExp /\ x # MaxExp
    BY <1>1
  <2> QED
    BY <2>1, PackIs DEF gpga_double_is_nan
<1> HIDE DEF den, d
<1>7. CASE e > Bias
  <2>1. d = gpga_double_inf(sign)
    BY <1>5, <1>7
  <2>2. d \in Double /\ d.sign = sign /\ Magnitude(d) = Infinite
    BY <2>1, ZeroAndInf
  <2>3. ~gpga_double_is_nan(d)
    BY <2>2, DoubleFacts DEF gpga_double_is_inf, gpga_double_is_nan
  <2> QED
    BY <2>2, <2>3 DEF d
<1>8. CASE e <= Bias /\ e < MinExponent
  <2>1. den \in Nat
    <3>1. MinExponent - e \in Nat /\ sig * 8 \in Nat
      BY <1>1, <1>4, <1>8
    <3>2. gpga_shift_right_sticky(sig * 8, MinExponent - e) \in Nat
      BY <3>1, ShiftSticks
    <3> QED
      BY <1>2, <3>2 DEF den
  <2>2. d \in {gpga_double_pack(sign, 1, 0), gpga_double_pack(sign, 0, den)}
    BY <1>1, <1>4, <1>5, <1>8
  <2>3. 1 \in 0..(MaxExp - 1) /\ 0 \in 0..(MaxExp - 1) /\ 0 \in Nat
    BY <1>1
  <2> QED
    BY <1>6, <2>1, <2>2, <2>3 DEF d
<1>9. CASE e <= Bias /\ e >= MinExponent
  <2>1. d = gpga_double_pack(sign, e + Bias, sig)
    BY <1>1, <1>4, <1>5, <1>9
  <2>2. e + Bias \in 0..(MaxExp - 1)
    BY <1>1, <1>4, <1>9
  <2> QED
    BY <1>4, <1>6, <2>1, <2>2 DEF d
<1> QED
  BY <1>1, <1>4, <1>7, <1>8, <1>9

\* Eighths of a last place at exponent e count units so that v / p of them are t / q.
Stands(e, v, p, t, q) ==
    \E i, j \in Nat : e + Bias - 1 = i - j /\ v * 2^i * q = t * (8 * p) * 2^j

\* A significand with its leading bit in place that stands for the normal number t / q:
\* the result is the nearest double.
LEMMA RoundPackIs ==
  ASSUME NEW sign \in {0, 1}, NEW exp \in Int, NEW ext \in (8 * Hidden)..(16 * Hidden - 1),
         NEW v \in Nat, NEW p \in Nat, p > 0, Places(ext, v, p),
         NEW t \in Nat, NEW q \in Nat, q > 0, Hidden * q <= t,
         Stands(exp, v, p, t, q)
  PROVE  IsNearest(gpga_double_round_pack(sign, exp, ext), t, q)
<1> DEFINE H == Hidden  s == RoundedUp(ext)  P == 8 * p
<1>1. /\ H \in Nat /\ H >= 8 /\ H > 0 /\ Bias \in Nat /\ Bias >= 3 /\ MinExponent = 1 - Bias
      /\ ext \in Nat /\ P \in Nat /\ P > 0
  BY FormatFacts
<1>2. v < 2 * H * P /\ H * P <= v
  <2>1. ext \div 4 \in Nat /\ ext % 4 \in 0..3 /\ ext = 4 * (ext \div 4) + (ext % 4)
    BY <1>1, FourParts
  <2> DEFINE c == ext \div 4  k == ext % 4
  <2>2. c \in Nat /\ k \in 0..3 /\ ext = 4 * c + k
    BY <2>1
  <2>3. IF k = 0 THEN v = ext * p ELSE 4 * c * p < v /\ v < (4 * c + 4) * p
    BY DEF Places
  <2> HIDE DEF c, k
  <2>4. c >= 2 * H /\ c + 1 <= 4 * H
    BY <1>1, <2>2
  <2>5. c * p >= (2 * H) * p /\ (c + 1) * p <= (4 * H) * p
    BY <1>1, <2>2, <2>4
  <2>6. /\ 4 * (c * p) <= v /\ v < 4 * ((c + 1) * p)
    <3>1. /\ (4 * c) * p = 4 * (c * p) /\ (4 * c + 4) * p = 4 * ((c + 1) * p)
          /\ (c + 1) * p = c * p + p /\ c * p \in Nat
      BY <2>2
    <3>2. k = 0 => v = (4 * c) * p
      BY <2>2, <2>3
    <3>3. (4 * c) * p = 4 * c * p
      BY <2>2
    <3> QED
      BY <2>2, <2>3, <3>1, <3>2, <3>3
  <2>7. H * P = 4 * ((2 * H) * p) /\ 2 * H * P = 4 * ((4 * H) * p) /\ (2 * H) * p \in Nat
        /\ (4 * H) * p \in Nat /\ c * p \in Nat /\ (c + 1) * p \in Nat
    BY <1>1, <2>2
  <2> QED
    BY <2>5, <2>6, <2>7
<1>0. PICK i \in Nat, j \in Nat : exp + Bias - 1 = i - j /\ v * 2^i * q = t * P * 2^j
  BY DEF Stands
<1> HIDE DEF P
<1>3. exp >= 1 - Bias
  <2>0. exp + Bias - 1 = i - j
    BY <1>0
  <2> SUFFICES ASSUME i < j PROVE FALSE
    BY <1>1, <2>0
  <2> DEFINE m == j - i
  <2>1. m - 1 \in Nat /\ m \in Nat /\ j = i + m /\ (m - 1) + 1 = m
    OBVIOUS
  <2>2. 2^j = 2^i * 2^m /\ 2^m = 2 * 2^(m - 1)
    BY <2>1, TwoSum, TwoTimes
  <2> DEFINE a == 2^i  b == 2^(m - 1)
  <2>3. a \in Nat /\ a > 0 /\ b \in Nat /\ b >= 1 /\ 2^j = a * (2 * b)
    BY <2>1, <2>2, TwoPositive
  <2>4. v * a * q = t * P * 2^j
    BY <1>0
  <2> HIDE DEF a, b, m
  <2>5. (v * q) * a = (2 * ((t * P) * b)) * a /\ v * q \in Nat /\ t * P \in Nat
    <3>1. v * a * q = (v * q) * a /\ t * P * (a * (2 * b)) = (2 * ((t * P) * b)) * a
      BY <1>1, <2>3
    <3> QED
      BY <1>1, <2>3, <2>4, <3>1
  <2>6. v * q = 2 * ((t * P) * b)
    <3>1. v * q \in Int /\ 2 * ((t * P) * b) \in Int
      BY <1>1, <2>3, <2>5
    <3> QED
      BY <2>3, <2>5, <3>1, Cancel
  <2>7. (t * P) * b >= t * P /\ (t * P) * b \in Nat
    <3> DEFINE x == t * P
    <3>1. x \in Nat
      BY <2>5
    <3> HIDE DEF x
    <3>2. x * b >= x /\ x * b \in Nat
      BY <2>3, <3>1
    <3> QED
      BY <3>2 DEF x
  <2>8. t * P >= (H * q) * P /\ v * q < (2 * H * P) * q
    <3> DEFINE x == H * q  y == 2 * H * P
    <3>1. x \in Nat /\ y \in Nat /\ x <= t /\ v < y
      BY <1>1, <1>2
    <3> HIDE DEF x, y
    <3>2. t * P >= x * P /\ v * q < y * q
      BY <1>1, <3>1
    <3> QED
      BY <3>2 DEF x, y
  <2>9. (2 * H * P) * q = 2 * ((H * q) * P) /\ (H * q) * P \in Nat
    BY <1>1
  <2> QED
    BY <2>5, <2>6, <2>7, <2>8, <2>9
<1> DEFINE g == i - j  D == 2^g * q
<1>4. g \in Nat /\ g = exp + Bias - 1
  <2>1. exp + Bias - 1 = i - j
    BY <1>0
  <2> QED
    BY <1>1, <1>3, <2>1
<1>5. D \in Nat /\ D > 0 /\ v * D = t * P
  <2>1. i = j + g
    BY <1>4
  <2>2. 2^i = 2^j * 2^g
    BY <1>4, <2>1, TwoSum
  <2> DEFINE a == 2^j  b == 2^g
  <2>3. a \in Nat /\ a > 0 /\ b \in Nat /\ b > 0 /\ 2^i = a * b
    BY <1>4, <2>2, TwoPositive
  <2>4. v * (a * b) * q = t * P * a
    BY <1>0, <2>3
  <2> HIDE DEF a, b
  <2>5. (v * (b * q)) * a = (t * P) * a /\ v * (b * q) \in Int /\ t * P \in Int
    <3>1. v * (a * b) * q = (v * (b * q)) * a
      BY <2>3
    <3>2. v * (b * q) \in Int /\ t * P \in Int
      BY <1>1, <2>3
    <3> QED
      BY <2>4, <3>1, <3>2
  <2>6. v * (b * q) = t * P
    BY <2>3, <2>5, Cancel
  <2>7. b * q \in Nat /\ b * q > 0
    BY <2>3
  <2> QED
    BY <2>6, <2>7 DEF b
<1> HIDE DEF D
<1>6. RoundsTo(s, t, D) /\ s \in {ext \div 8, (ext \div 8) + 1} /\ ext \div 8 \in Nat
  <2>1. s \in {ext \div 8, (ext \div 8) + 1} /\ ext \div 8 \in Nat /\ RoundsTo(s, v, P)
    BY <1>1, RoundedIs DEF P
  <2>2. s \in Nat
    BY <2>1
  <2> HIDE DEF s
  <2>3. RoundsTo(s, t, D)
    BY <1>1, <1>5, <2>1, <2>2, RoundsAlike
  <2> QED
    BY <2>1, <2>3
<1>7. s \in H..(2 * H)
  <2>1. ext \div 8 >= H /\ ext \div 8 < 2 * H
    BY <1>1
  <2> HIDE DEF s
  <2> QED
    BY <1>1, <1>6, <2>1
<1>8. H * D <= t
  <2>1. (H * P) * D <= v * D
    <3> DEFINE x == H * P
    <3>1. x \in Nat /\ x <= v
      BY <1>1, <1>2
    <3> HIDE DEF x
    <3>2. x * D <= v * D
      BY <1>5, <3>1
    <3> QED
      BY <3>2 DEF x
  <2>2. (H * P) * D = (H * D) * P /\ H * D \in Int
    BY <1>1, <1>5
  <2>3. (H * D) * P <= t * P
    BY <1>5, <2>1, <2>2
  <2> QED
    BY <1>1, <2>2, <2>3, Cancel
<1>9. gpga_double_round_pack(sign, exp, ext) = Packed(sign, exp, s)
  <2>1. CASE s = 2 * H
    <3>1. s >= 2 * H /\ s \div 2 = H /\ exp + 1 >= MinExponent /\ ~(exp + 1 < MinExponent)
      <4> HIDE DEF s
      <4> QED
        BY <1>1, <1>3, <2>1
    <3>2. gpga_double_round_pack(sign, exp, ext) =
             IF exp + 1 > Bias THEN gpga_double_inf(sign) ELSE gpga_double_pack(sign, exp + 1 + Bias, H)
      BY <3>1 DEF gpga_double_round_pack
    <3> QED
      BY <2>1, <3>2 DEF Packed
  <2>2. CASE s < 2 * H
    <3>1. ~(s >= 2 * H) /\ ~(exp < MinExponent) /\ s # 2 * H
      <4> HIDE DEF s
      <4> QED
        BY <1>1, <1>3, <1>7, <2>2
    <3>2. gpga_double_round_pack(sign, exp, ext) =
             IF exp > Bias THEN gpga_double_inf(sign) ELSE gpga_double_pack(sign, exp + Bias, s)
      BY <3>1 DEF gpga_double_round_pack
    <3> QED
      BY <3>1, <3>2 DEF Packed
  <2> HIDE DEF s
  <2> QED
    BY <1>1, <1>7, <2>1, <2>2
<1> DEFINE d == Packed(sign, exp, s)
<1>10. d \in Double /\ Magnitude(d) = Clamped(g * H + s)
  <2> HIDE DEF s
  <2> QED
    BY <1>3, <1>4, <1>7, PackedIs
<1> HIDE DEF s, d, g
<1>11. IsNearest(d, t, q)
  BY <1>4, <1>6, <1>7, <1>8, <1>10, NearestIs DEF D
<1> QED
  BY <1>9, <1>11 DEF d

-----------------------------------------------------------------------------
(* Products and quotients.                                                 *)

LEMMA ScaleBalance ==
  ASSUME NEW n \in Nat, NEW q \in Nat, NEW x \in Nat, NEW y \in Nat
  PROVE  n * 2^x * Scaled(q, y - x) = Scaled(n, x - y) * 2^y * q
<1> DEFINE a == 2^x  b == 2^y
<1>1. a \in Nat /\ b \in Nat
  BY TwoPositive
<1>2. CASE x < y
  <2> DEFINE c == 2^(y - x)
  <2>1. y - x \in Nat /\ x + (y - x) = y /\ ~(y - x < 0) /\ x - y < 0
    BY <1>2
  <2>2. b = a * c /\ c \in Nat
    BY <2>1, TwoSum, TwoPositive
  <2>3. Scaled(q, y - x) = q * c /\ Scaled(n, x - y) = n
    BY <2>1 DEF Scaled
  <2> HIDE DEF a, b, c
  <2>4. n * a * (q * c) = n * (a * c) * q
    BY <1>1, <2>2
  <2> QED
    BY <2>2, <2>3, <2>4 DEF a, b
<1>3. CASE x = y
  <2>1. 2^(x - y) = 1 /\ 2^(y - x) = 1 /\ ~(x - y < 0) /\ ~(y - x < 0)
    <3>1. x - y = 0 /\ y - x = 0 /\ 2^0 = 1
      BY <1>3
    <3> QED
      BY <3>1
  <2>2. Scaled(q, y - x) = q * 1 /\ Scaled(n, x - y) = n * 1
    BY <2>1 DEF Scaled
  <2>3. a = b
    BY <1>3
  <2> HIDE DEF a, b
  <2>4. n * a * (q * 1) = (n * 1) * a * q
    BY <1>1
  <2> QED
    BY <2>2, <2>3, <2>4 DEF a, b
<1>4. CASE x > y
  <2> DEFINE c == 2^(x - y)
  <2>1. x - y \in Nat /\ y + (x - y) = x /\ y - x < 0 /\ ~(x - y < 0)
    BY <1>4
  <2>2. a = b * c /\ c \in Nat
    BY <2>1, TwoSum, TwoPositive
  <2>3. Scaled(q, y - x) = q /\ Scaled(n, x - y) = n * c
    BY <2>1 DEF Scaled
  <2> HIDE DEF a, b, c
  <2>4. n * (b * c) * q = (n * c) * b * q
    BY <1>1, <2>2
  <2> QED
    BY <2>2, <2>3, <2>4 DEF a, b
<1> QED
  BY <1>2, <1>3, <1>4

LEMMA NormalMeans ==
  ASSUME NEW n \in Nat, NEW q \in Nat, q > 0, NEW k \in Int, IsNormal(n, q, k)
  PROVE  Hidden * Scaled(q, -k) <= Scaled(n, k) /\ Scaled(q, -k) > 0 /\ Scaled(q, -k) \in Nat
         /\ Scaled(n, k) \in Nat /\ n > 0
<1>1. Hidden \in Nat /\ Hidden > 0
  BY FormatFacts
<1>2. CASE k < 0
  <2>1. -k \in Nat /\ ~(-k < 0)
    BY <1>2
  <2> DEFINE c == 2^(-k)
  <2>2. c \in Nat /\ c > 0
    BY <2>1, TwoPositive
  <2>3. Scaled(q, -k) = q * c /\ Scaled(n, k) = n /\ n >= Hidden * q * c
    BY <1>2, <2>1 DEF Scaled, IsNormal
  <2> HIDE DEF c
  <2>4. Hidden * q * c = Hidden * (q * c) /\ q * c \in Nat /\ q * c > 0
    BY <1>1, <2>2
  <2> DEFINE x == q * c  y == Hidden * x
  <2>5. x \in Nat /\ x > 0 /\ n >= y
    BY <2>3, <2>4
  <2> HIDE DEF x
  <2>6. y > 0 /\ y \in Nat
    BY <1>1, <2>5
  <2> HIDE DEF y
  <2>7. y <= n /\ n > 0
    BY <2>5, <2>6
  <2> QED
    BY <2>3, <2>4, <2>7 DEF x, y
<1>3. CASE k >= 0
  <2> DEFINE c == 2^k
  <2>1. c \in Nat /\ c > 0
    BY <1>3, TwoPositive
  <2>2. Scaled(q, -k) = q /\ Scaled(n, k) = n * c /\ n * c >= Hidden * q
    <3>1. CASE k = 0
      <4>1. Scaled(q, -k) = q * 2^(-k) /\ Scaled(n, k) = n * 2^k /\ n * 2^k >= Hidden * q
        BY <3>1 DEF Scaled, IsNormal
      <4>2. 2^(-k) = 1
        BY <3>1
      <4> QED
        BY <4>1, <4>2
    <3>2. CASE k > 0
      <4>1. -k < 0 /\ ~(k < 0)
        BY <3>2
      <4> QED
        BY <4>1 DEF Scaled, IsNormal
    <3> QED
      BY <1>3, <3>1, <3>2
  <2> HIDE DEF c
  <2>3. Hidden * q > 0 /\ Hidden * q \in Nat /\ n * c \in Nat
    BY <1>1, <2>1
  <2>4. n > 0
    <3>1. n = 0 => n * c = 0
      BY <2>1
    <3> QED
      BY <2>2, <2>3, <3>1
  <2> QED
    BY <2>2, <2>3, <2>4
<1> QED
  BY <1>2, <1>3

\* The fields of a finite number that is not zero.
LEMMA FiniteFacts ==
  ASSUME NEW d \in Double, Finite(d)
  PROVE  ~gpga_double_is_nan(d) /\ ~gpga_double_is_inf(d)
BY DEF Finite, gpga_double_is_nan, gpga_double_is_inf

\* A product in the range of normal numbers is the nearest double.
LEMMA ProductIs ==
  ASSUME NEW a \in Double, Finite(a), NEW b \in Double, Finite(b),
         NEW k, k = Place(a) + Place(b) - (FractionBits - MinExponent)
  PROVE  LET d == gpga_double_mul(a, b)
         IN  /\ d \in Double /\ d.sign = Xor(a, b) /\ ~gpga_double_is_nan(d)
             /\ IsNormal(Sig(a) * Sig(b), 1, k) => IsNearest(d, Scaled(Sig(a) * Sig(b), k), Scaled(1, -k))
<1> DEFINE d == gpga_double_mul(a, b)  H == Hidden  F == FractionBits  B == Bias
           n == Sig(a) * Sig(b)  sign == Xor(a, b)
<1>1. /\ H \in Nat /\ H >= 8 /\ H = 2^F /\ F \in Nat /\ F >= 3 /\ B \in Nat /\ B >= 3
      /\ MinExponent = 1 - B
  BY FormatFacts
<1>2. sign \in {0, 1}
  BY DoubleFacts DEF Xor
<1>3. /\ Sig(a) \in Nat /\ Place(a) \in Nat /\ (Sig(a) = 0 <=> gpga_double_is_zero(a))
      /\ Sig(b) \in Nat /\ Place(b) \in Nat /\ (Sig(b) = 0 <=> gpga_double_is_zero(b))
  BY UnitsOf
<1>4. CASE gpga_double_is_zero(a) \/ gpga_double_is_zero(b)
  <2>1. d = gpga_double_zero(sign)
    BY <1>4, FiniteFacts DEF gpga_double_mul
  <2>2. n = 0
    BY <1>3, <1>4
  <2>3. k \in Int
    BY <1>1, <1>3
  <2>4. ~IsNormal(n, 1, k)
    <3> SUFFICES ASSUME IsNormal(n, 1, k) PROVE FALSE
      OBVIOUS
    <3> HIDE DEF n
    <3>1. n > 0
      BY <2>2, <2>3, NormalMeans
    <3> QED
      BY <2>2, <3>1
  <2>5. gpga_double_zero(sign) \in Double /\ gpga_double_zero(sign).sign = sign
        /\ ~gpga_double_is_nan(gpga_double_zero(sign))
    <3>1. gpga_double_zero(sign) \in Double /\ gpga_double_zero(sign).sign = sign
          /\ Magnitude(gpga_double_zero(sign)) = 0
      BY <1>2, ZeroAndInf
    <3>2. Infinite \in Nat
      BY FormatFacts
    <3> QED
      BY <3>1, <3>2, DoubleFacts
  <2> QED
    BY <2>1, <2>4, <2>5
<1>5. CASE ~gpga_double_is_zero(a) /\ ~gpga_double_is_zero(b)
  <2> DEFINE sa == Normalized(a).sig  ea == Normalized(a).exp
             sb == Normalized(b).sig  eb == Normalized(b).exp
             P == sa * sb
  <2>1. /\ sa \in H..(2 * H - 1) /\ ea \in Int
        /\ \E u \in 0..F : sa = Sig(a) * 2^u /\ ea = Place(a) - B + 1 - u
    BY <1>5, NormalizedIs
  <2>2. /\ sb \in H..(2 * H - 1) /\ eb \in Int
        /\ \E u \in 0..F : sb = Sig(b) * 2^u /\ eb = Place(b) - B + 1 - u
    BY <1>5, NormalizedIs
  <2>3. PICK ua \in 0..F : sa = Sig(a) * 2^ua /\ ea = Place(a) - B + 1 - ua
    BY <2>1
  <2>4. PICK ub \in 0..F : sb = Sig(b) * 2^ub /\ eb = Place(b) - B + 1 - ub
    BY <2>2
  <2>5. d = IF P >= 2 * H * H
            THEN gpga_double_round_pack(sign, ea + eb + 1, gpga_shift_right_sticky(P, F - 2))
            ELSE gpga_double_round_pack(sign, ea + eb, gpga_shift_right_sticky(P, F - 3))
    BY <1>5, FiniteFacts DEF gpga_double_mul
  <2>6. P \in Nat /\ P >= H * H /\ P < (4 * H) * H /\ H * H \in Nat
    <3> HIDE DEF sa, sb
    <3>1. sa \in Nat /\ sb \in Nat /\ sa >= H /\ sb >= H /\ sa <= 2 * H /\ sb < 2 * H
      BY <1>1, <2>1, <2>2
    <3> HIDE DEF H
    <3>2. sa * sb >= H * sb /\ H * sb >= H * H /\ sa * sb <= (2 * H) * sb
      BY <1>1, <3>1
    <3>3. (2 * H) * sb < (2 * H) * (2 * H)
      BY <1>1, <3>1
    <3>4. (2 * H) * (2 * H) = (4 * H) * H /\ sa * sb \in Nat /\ H * sb \in Nat /\ (2 * H) * sb \in Nat
          /\ (4 * H) * H \in Nat /\ H * H \in Nat
      BY <1>1, <3>1
    <3> QED
      BY <3>2, <3>3, <3>4
  <2> HIDE DEF P
  \* Both branches: z more places for the product.
  <2>7. ASSUME NEW z \in {0, 1}, (2^z * H) * H <= P, P < (2^z * (2 * H)) * H
        PROVE  LET ext == gpga_shift_right_sticky(P, F - 3 + z)
                   r == gpga_double_round_pack(sign, ea + eb + z, ext)
               IN  /\ r \in Double /\ r.sign = sign /\ ~gpga_double_is_nan(r)
                   /\ IsNormal(n, 1, k) => IsNearest(r, Scaled(n, k), Scaled(1, -k))
    <3> DEFINE m == F - 3 + z  w == 2^m  Z == 2^z  ext == gpga_shift_right_sticky(P, m)
    <3>1. m \in Nat /\ z \in Nat /\ F + z = m + 3
      BY <1>1
    <3>2. w \in Nat /\ w > 0 /\ Z \in Nat /\ Z > 0 /\ H * Z = 8 * w
      <4>1. 2^(F + z) = 2^F * 2^z /\ 2^(m + 3) = 2^m * 2^3
        BY <1>1, <3>1, TwoSum
      <4>2. 2^3 = 8
        <5>1. 2^(0 + 1) = 2 * 2^0 /\ 2^(1 + 1) = 2 * 2^1 /\ 2^(2 + 1) = 2 * 2^2 /\ 2^0 = 1
          BY TwoTimes
        <5> QED
          BY <5>1
      <4>3. w \in Nat /\ w > 0 /\ Z \in Nat /\ Z > 0
        BY <3>1, TwoPositive
      <4>4. H * Z = w * 8
        BY <1>1, <3>1, <4>1, <4>2
      <4> QED
        BY <4>3, <4>4
    <3>3. ext \in Nat /\ Sticky(ext, P, w)
      BY <2>6, <3>1, ShiftSticks
    <3>4. ext \in (8 * H)..(16 * H - 1)
      <4>1. (8 * H) * w <= P /\ P < (16 * H) * w
        <5> HIDE DEF w, Z
        <5>1. (Z * H) * H = (8 * H) * w /\ (Z * (2 * H)) * H = (16 * H) * w
          <6>1. (Z * H) * H = (H * Z) * H /\ (Z * (2 * H)) * H = 2 * ((H * Z) * H)
            BY <1>1, <3>2
          <6>2. (8 * w) * H = (8 * H) * w /\ 2 * ((8 * w) * H) = (16 * H) * w
            BY <1>1, <3>2
          <6> QED
            BY <3>2, <6>1, <6>2
        <5> QED
          BY <2>7, <5>1 DEF Z
      <4>2. 8 * H \in Nat /\ 16 * H \in Nat /\ (16 * H) % 2 = 0
        BY <1>1
      <4> HIDE DEF m, H
      <4> QED
        BY <2>6, <3>1, <4>1, <4>2, ShiftSticks DEF w
    <3> DEFINE r == gpga_double_round_pack(sign, ea + eb + z, ext)
    <3>5. ea + eb + z \in Int
      BY <2>1, <2>2
    <3>6. r \in Double /\ r.sign = sign /\ ~gpga_double_is_nan(r)
      <4> HIDE DEF ext, ea, eb, sign
      <4> QED
        BY <1>2, <3>3, <3>5, RoundPackFits
    <3>7. ASSUME IsNormal(n, 1, k) PROVE IsNearest(r, Scaled(n, k), Scaled(1, -k))
      <4> DEFINE t == Scaled(n, k)  q == Scaled(1, -k)  x == Place(a) + Place(b)  y == F + B - 1
      <4>1. n \in Nat /\ k \in Int /\ x \in Nat /\ y \in Nat /\ k = x - y /\ -k = y - x
        BY <1>1, <1>3
      <4>2. H * q <= t /\ q > 0 /\ q \in Nat /\ t \in Nat
        <5> HIDE DEF n
        <5> QED
          BY <3>7, <4>1, NormalMeans
      <4>3. n * 2^x * q = t * 2^y * 1
        <5>1. n * 2^x * Scaled(1, y - x) = Scaled(n, x - y) * 2^y * 1
          <6> HIDE DEF n, x, y
          <6> QED
            BY <4>1, ScaleBalance
        <5> QED
          BY <4>1, <5>1
      <4> DEFINE i == x + z  j == ua + ub + (B - 1)
      <4>4. i \in Nat /\ j \in Nat /\ (ea + eb + z) + B - 1 = i - j
        BY <1>1, <1>3, <2>3, <2>4, <3>1
      <4>5. P * 2^i * q = t * (8 * w) * 2^j
        <5> DEFINE A == 2^ua  C == 2^ub  G == 2^(B - 1)  X == 2^x
        <5>1. ua \in Nat /\ ub \in Nat /\ B - 1 \in Nat /\ ua + ub \in Nat
          BY <1>1
        <5>2. 2^i = X * Z /\ 2^(ua + ub + (B - 1)) = 2^(ua + ub) * G /\ 2^(ua + ub) = A * C
              /\ 2^(F + (B - 1)) = 2^F * G
          BY <1>1, <3>1, <4>1, <5>1, TwoSum
        <5>3. 2^y = H * G
          <6>1. y = F + (B - 1)
            BY <1>1
          <6> QED
            BY <1>1, <5>2, <6>1
        <5>4. A \in Nat /\ C \in Nat /\ G \in Nat /\ X \in Nat
          BY <4>1, <5>1, TwoPositive
        <5>5. P = (Sig(a) * A) * (Sig(b) * C)
          BY <2>3, <2>4 DEF P
        <5>6. P = n * (A * C)
          <6> HIDE DEF A, C
          <6> QED
            BY <1>3, <5>4, <5>5
        <5>7. n * X * q = t * (H * G)
          <6>1. t * 2^y * 1 = t * 2^y
            <7>1. 2^y \in Nat
              BY <4>1, TwoPositive
            <7> HIDE DEF y, t
            <7> QED
              BY <4>2, <7>1
          <6> QED
            BY <4>3, <5>3, <6>1
        <5> HIDE DEF A, C, G, X, Z, w, n, t, q, H
        <5>8. (n * (A * C)) * (X * Z) * q = (n * X * q) * ((A * C) * Z)
          BY <3>2, <4>1, <4>2, <5>4
        <5>9. t * (H * Z) * ((A * C) * G) = (t * (H * G)) * ((A * C) * Z)
          BY <1>1, <3>2, <4>2, <5>4
        <5> QED
          BY <3>2, <5>2, <5>6, <5>7, <5>8, <5>9
      <4>6. Stands(ea + eb + z, P, w, t, q)
        <5> HIDE DEF i, j, w, t, q
        <5> QED
          BY <4>4, <4>5 DEF Stands
      <4>7. Places(ext, P, w)
        BY <2>6, <3>2, <3>3, StickyPlaces
      <4> DEFINE e == ea + eb + z
      <4>8. e \in Int /\ ext \in (8 * Hidden)..(16 * Hidden - 1) /\ Hidden * q <= t
            /\ Stands(e, P, w, t, q)
        BY <3>4, <3>5, <4>2, <4>6
      <4> HIDE DEF e, ext, w, t, q, sign
      <4>9. IsNearest(gpga_double_round_pack(sign, e, ext), t, q)
        BY <1>2, <2>6, <3>2, <4>2, <4>7, <4>8, RoundPackIs
      <4> QED
        BY <4>9 DEF e, ext, t, q
    <3> QED
      BY <3>6, <3>7
  <2>8. CASE P >= 2 * H * H
    <3>1. 2^1 = 2 /\ 1 \in {0, 1} /\ (2 * H) * H <= P /\ P < (2 * (2 * H)) * H
      BY <1>1, <2>6, <2>8
    <3>2. F - 3 + 1 = F - 2
      BY <1>1
    <3>3. d = gpga_double_round_pack(sign, ea + eb + 1, gpga_shift_right_sticky(P, F - 3 + 1))
      BY <2>5, <2>8, <3>2
    <3> HIDE DEF d, sign, ea, eb, n
    <3> QED
      BY <2>7, <3>1, <3>3 DEF d, sign, n
  <2>9. CASE ~(P >= 2 * H * H)
    <3>1. 2^0 = 1 /\ 0 \in {0, 1} /\ (1 * H) * H <= P /\ P < (1 * (2 * H)) * H
      BY <1>1, <2>6, <2>9
    <3>2. F - 3 + 0 = F - 3 /\ ea + eb + 0 = ea + eb
      BY <1>1, <2>1, <2>2
    <3>3. d = gpga_double_round_pack(sign, ea + eb + 0, gpga_shift_right_sticky(P, F - 3 + 0))
      BY <2>5, <2>9, <3>2
    <3> HIDE DEF d, sign, ea, eb, n
    <3> QED
      BY <2>7, <3>1, <3>3 DEF d, sign, n
  <2> QED
    BY <2>8, <2>9
<1> QED
  BY <1>4, <1>5

\* The long division of two significands: the bits it keeps and the remainder.
LEMMA MantissaQuotient ==
  ASSUME NEW sa \in Hidden..(2 * Hidden - 1), NEW sb \in Hidden..(2 * Hidden - 1)
  PROVE  LET wide == sa * (8 * Hidden)
             r == gpga_div_mantissa(sa, sb)
         IN  /\ wide \in Nat /\ r \in Nat /\ Sticky(r, wide, sb)
             /\ r \in (4 * Hidden)..(16 * Hidden - 1)
<1> DEFINE H == Hidden  wide == sa * (8 * H)  c == wide \div sb
<1>1. /\ H \in Nat /\ H >= 8 /\ sa \in Nat /\ sa >= H /\ sa < 2 * H
      /\ sb \in Nat /\ sb >= H /\ sb < 2 * H /\ sb > 0
  BY FormatFacts
<1>2. 2^(FractionBits + 3) = 8 * H
  <2>1. 2^(FractionBits + 3) = 2^FractionBits * 2^3
    BY FormatFacts, TwoSum
  <2>2. 2^3 = 8
    <3>1. 2^(0 + 1) = 2 * 2^0 /\ 2^(1 + 1) = 2 * 2^1 /\ 2^(2 + 1) = 2 * 2^2 /\ 2^0 = 1
      BY TwoTimes
    <3> QED
      BY <3>1
  <2>3. H = 2^FractionBits
    BY FormatFacts
  <2> QED
    BY <1>1, <2>1, <2>2, <2>3
<1>3. wide \in Nat /\ (4 * H) * sb <= wide /\ wide < (16 * H) * sb
  <2> HIDE DEF H
  <2>1. sa * (8 * H) >= H * (8 * H) /\ sa * (8 * H) < (2 * H) * (8 * H)
        /\ (4 * H) * sb <= (4 * H) * (2 * H) /\ (16 * H) * H <= (16 * H) * sb
    BY <1>1
  <2>2. H * (8 * H) = (4 * H) * (2 * H) /\ (2 * H) * (8 * H) = (16 * H) * H
        /\ sa * (8 * H) \in Nat /\ (4 * H) * sb \in Nat /\ (16 * H) * sb \in Nat
        /\ (16 * H) * H \in Nat /\ (4 * H) * (2 * H) \in Nat
    BY <1>1
  <2> QED
    BY <2>1, <2>2
<1> HIDE DEF wide
<1>4. c \in Nat /\ c < 16 * H
  <2>1. c \in Int /\ wide % sb \in Nat /\ wide = sb * c + (wide % sb)
    BY <1>1, <1>3, DivisionBy
  <2> DEFINE k == wide % sb
  <2>2. k \in Nat /\ wide = sb * c + k
    BY <2>1
  <2>3. c \in Nat
    BY <1>1, <1>3
  <2> HIDE DEF k, c
  <2>4. c * sb < (16 * H) * sb
    <3>1. sb * c = c * sb /\ c * sb \in Int /\ (16 * H) * sb \in Int
      BY <1>1, <2>1
    <3> QED
      BY <1>3, <2>2, <3>1
  <2>5. c < 16 * H
    BY <1>1, <2>1, <2>4, Cancel
  <2> QED
    BY <2>3, <2>5
<1>5. gpga_div_mantissa(sa, sb) = Stuck(wide, sb)
  <2>1. c % (16 * H) = c
    <3>1. 16 * H \in Nat
      BY <1>1
    <3> HIDE DEF H, c
    <3> QED
      BY <1>4, <3>1, Remaining
  <2> QED
    BY <1>2, <2>1 DEF gpga_div_mantissa, Stuck, wide
<1>6. Stuck(wide, sb) \in Nat /\ Sticky(Stuck(wide, sb), wide, sb)
  BY <1>1, <1>3, StuckIs
<1>7. Stuck(wide, sb) \in (4 * H)..(16 * H - 1)
  <2>1. 4 * H \in Nat /\ 16 * H \in Nat /\ (16 * H) % 2 = 0
    BY <1>1
  <2> HIDE DEF H
  <2> QED
    BY <1>1, <1>3, <2>1, StuckBounds
<1> QED
  BY <1>3, <1>5, <1>6, <1>7 DEF wide

\* A quotient in the range of normal numbers is the nearest double.
LEMMA QuotientIs ==
  ASSUME NEW a \in Double, Finite(a), NEW b \in Double, Finite(b), Sig(b) # 0,
         NEW k, k = Place(a) - Place(b) + (FractionBits - MinExponent)
  PROVE  LET d == gpga_double_div(a, b)
         IN  /\ d \in Double /\ d.sign = Xor(a, b) /\ ~gpga_double_is_nan(d)
             /\ IsNormal(Sig(a), Sig(b), k) => IsNearest(d, Scaled(Sig(a), k), Scaled(Sig(b), -k))
<1> DEFINE d == gpga_double_div(a, b)  H == Hidden  F == FractionBits  B == Bias
           n == Sig(a)  m == Sig(b)  sign == Xor(a, b)
<1>1. /\ H \in Nat /\ H >= 8 /\ H = 2^F /\ F \in Nat /\ F >= 3 /\ B \in Nat /\ B >= 3
      /\ MinExponent = 1 - B
  BY FormatFacts
<1>2. sign \in {0, 1}
  BY DoubleFacts DEF Xor
<1>3. /\ n \in Nat /\ Place(a) \in Nat /\ (n = 0 <=> gpga_double_is_zero(a))
      /\ m \in Nat /\ Place(b) \in Nat /\ m > 0 /\ ~gpga_double_is_zero(b)
  <2>1. n \in Nat /\ Place(a) \in Nat /\ (n = 0 <=> gpga_double_is_zero(a))
    BY UnitsOf
  <2>2. m \in Nat /\ Place(b) \in Nat /\ (m = 0 <=> gpga_double_is_zero(b))
    BY UnitsOf
  <2> QED
    BY <2>1, <2>2
<1>4. CASE gpga_double_is_zero(a)
  <2>1. d = gpga_double_zero(sign)
    BY <1>3, <1>4, FiniteFacts DEF gpga_double_div
  <2>2. n = 0 /\ k \in Int
    BY <1>1, <1>3, <1>4
  <2>3. ~IsNormal(n, m, k)
    <3> SUFFICES ASSUME IsNormal(n, m, k) PROVE FALSE
      OBVIOUS
    <3> HIDE DEF n, m
    <3>1. n > 0
      BY <1>3, <2>2, NormalMeans
    <3> QED
      BY <2>2, <3>1
  <2>4. gpga_double_zero(sign) \in Double /\ gpga_double_zero(sign).sign = sign
        /\ ~gpga_double_is_nan(gpga_double_zero(sign))
    <3>1. gpga_double_zero(sign) \in Double /\ gpga_double_zero(sign).sign = sign
          /\ Magnitude(gpga_double_zero(sign)) = 0
      BY <1>2, ZeroAndInf
    <3>2. Infinite \in Nat
      BY FormatFacts
    <3> QED
      BY <3>1, <3>2, DoubleFacts
  <2> QED
    BY <2>1, <2>3, <2>4
<1>5. CASE ~gpga_double_is_zero(a)
  <2> DEFINE sa == Normalized(a).sig  ea == Normalized(a).exp
             sb == Normalized(b).sig  eb == Normalized(b).exp
             wide == sa * (8 * H)  quot == gpga_div_mantissa(sa, sb)
  <2>1. /\ sa \in H..(2 * H - 1) /\ ea \in Int
        /\ \E u \in 0..F : sa = Sig(a) * 2^u /\ ea = Place(a) - B + 1 - u
    BY <1>5, NormalizedIs
  <2>2. /\ sb \in H..(2 * H - 1) /\ eb \in Int
        /\ \E u \in 0..F : sb = Sig(b) * 2^u /\ eb = Place(b) - B + 1 - u
    BY <1>3, NormalizedIs
  <2>3. PICK ua \in 0..F : sa = n * 2^ua /\ ea = Place(a) - B + 1 - ua
    BY <2>1
  <2>4. PICK ub \in 0..F : sb = m * 2^ub /\ eb = Place(b) - B + 1 - ub
    BY <2>2
  <2>5. d = IF quot < 8 * H THEN gpga_double_round_pack(sign, ea - eb - 1, quot * 2)
            ELSE gpga_double_round_pack(sign, ea - eb, quot)
    BY <1>3, <1>5, FiniteFacts DEF gpga_double_div
  <2>6. wide \in Nat /\ quot \in Nat /\ Sticky(quot, wide, sb) /\ quot \in (4 * H)..(16 * H - 1)
        /\ sb \in Nat /\ sb > 0
    <3>1. sb \in Nat /\ sb > 0
      BY <1>1, <2>2
    <3> HIDE DEF sa, sb
    <3> QED
      BY <2>1, <2>2, <3>1, MantissaQuotient
  <2> HIDE DEF wide, quot
  \* Both branches: z more places for the quotient.
  <2>7. ASSUME NEW z \in {0, 1}, NEW ext \in (8 * H)..(16 * H - 1),
               Places(ext, wide * 2^z, sb)
        PROVE  LET r == gpga_double_round_pack(sign, ea - eb - z, ext)
               IN  /\ r \in Double /\ r.sign = sign /\ ~gpga_double_is_nan(r)
                   /\ IsNormal(n, m, k) => IsNearest(r, Scaled(n, k), Scaled(m, -k))
    <3> DEFINE e == ea - eb - z  r == gpga_double_round_pack(sign, e, ext)  Z == 2^z  v == wide * Z
    <3>1. e \in Int /\ ext \in Nat /\ z \in Nat
      BY <1>1, <2>1, <2>2
    <3>2. Z \in Nat /\ v \in Nat
      <4>1. Z \in Nat
        BY <3>1, TwoPositive
      <4> HIDE DEF Z
      <4> QED
        BY <2>6, <4>1
    <3>3. r \in Double /\ r.sign = sign /\ ~gpga_double_is_nan(r)
      <4> HIDE DEF e, sign
      <4> QED
        BY <1>2, <3>1, RoundPackFits
    <3>4. ASSUME IsNormal(n, m, k) PROVE IsNearest(r, Scaled(n, k), Scaled(m, -k))
      <4> DEFINE t == Scaled(n, k)  q == Scaled(m, -k)
                 x == Place(a) + (F + (B - 1))  y == Place(b)
      <4>1. k \in Int /\ x \in Nat /\ y \in Nat /\ k = x - y /\ -k = y - x /\ B - 1 \in Nat
            /\ F + (B - 1) \in Nat
        BY <1>1, <1>3
      <4>2. H * q <= t /\ q > 0 /\ q \in Nat /\ t \in Nat
        <5> HIDE DEF n, m
        <5> QED
          BY <1>3, <3>4, <4>1, NormalMeans
      <4>3. n * 2^x * q = t * 2^y * m
        <5>1. n * 2^x * Scaled(m, y - x) = Scaled(n, x - y) * 2^y * m
          <6> HIDE DEF n, m, x, y
          <6> QED
            BY <1>3, <4>1, ScaleBalance
        <5> QED
          BY <4>1, <5>1
      <4> DEFINE i == Place(a) + ub + (B - 1)  j == ua + Place(b) + z
      <4>4. i \in Nat /\ j \in Nat /\ e + B - 1 = i - j
        <5>1. i \in Nat /\ j \in Nat
          BY <1>3, <3>1, <4>1
        <5>2. ea = Place(a) - B + 1 - ua /\ eb = Place(b) - B + 1 - ub
          BY <2>3, <2>4
        <5> HIDE DEF n, m, sa, sb, ea, eb, Z, v
        <5> QED
          BY <1>1, <1>3, <3>1, <5>1, <5>2
      <4>5. v * 2^i * q = t * (8 * sb) * 2^j
        <5> DEFINE A == 2^ua  C == 2^ub  G == 2^(B - 1)  X == 2^Place(a)  Y == 2^y
        <5>1. ua \in Nat /\ ub \in Nat /\ Place(a) + ub \in Nat /\ ua + Place(b) \in Nat
          BY <1>1, <1>3
        <5>2. /\ 2^i = 2^(Place(a) + ub) * G /\ 2^(Place(a) + ub) = X * C
              /\ 2^j = 2^(ua + Place(b)) * Z /\ 2^(ua + Place(b)) = A * Y
          BY <1>3, <3>1, <4>1, <5>1, TwoSum
        <5>3. 2^x = X * (H * G)
          <6>1. 2^(F + (B - 1)) = 2^F * G
            BY <1>1, <4>1, TwoSum
          <6>2. 2^x = X * 2^(F + (B - 1))
            BY <1>3, <4>1, TwoSum
          <6> QED
            BY <1>1, <6>1, <6>2
        <5>4. A \in Nat /\ C \in Nat /\ G \in Nat /\ X \in Nat /\ Y \in Nat
          BY <1>3, <4>1, <5>1, TwoPositive
        <5>5. v = ((n * A) * (8 * H)) * Z /\ sb = m * C
          BY <2>3, <2>4 DEF wide
        <5>6. n * (X * (H * G)) * q = t * Y * m
          BY <4>3, <5>3
        <5> HIDE DEF A, C, G, X, Y, Z, n, m, t, q, H, v, sb
        <5>7. (((n * A) * (8 * H)) * Z) * ((X * C) * G) * q
                = (n * (X * (H * G)) * q) * (8 * ((A * C) * Z))
          BY <1>1, <1>3, <3>2, <4>2, <5>4
        <5>8. t * (8 * (m * C)) * ((A * Y) * Z) = (t * Y * m) * (8 * ((A * C) * Z))
          BY <1>1, <1>3, <3>2, <4>2, <5>4
        <5> QED
          BY <5>2, <5>5, <5>6, <5>7, <5>8
      <4>6. Stands(e, v, sb, t, q)
        <5> HIDE DEF i, j, t, q, v, sb, e
        <5> QED
          BY <4>4, <4>5 DEF Stands
      <4>7. ext \in (8 * Hidden)..(16 * Hidden - 1) /\ Hidden * q <= t /\ Places(ext, v, sb)
        BY <2>7, <4>2
      <4> HIDE DEF e, v, t, q, sign, sb
      <4>8. IsNearest(gpga_double_round_pack(sign, e, ext), t, q)
        BY <1>2, <2>6, <3>1, <3>2, <4>2, <4>6, <4>7, RoundPackIs
      <4> QED
        BY <4>8 DEF e, t, q
    <3> QED
      BY <3>3, <3>4
  <2>8. CASE quot < 8 * H
    <3>1. 2^1 = 2 /\ 1 \in {0, 1} /\ quot * 2 \in (8 * H)..(16 * H - 1) /\ quot * 2 = 2 * quot
      BY <1>1, <2>6, <2>8
    <3>2. Places(2 * quot, 2 * wide, sb)
      <4> HIDE DEF sb
      <4> QED
        BY <2>6, StickyDoubled
    <3>3. wide * 2^1 = 2 * wide
      BY <2>6, <3>1
    <3>4. Places(quot * 2, wide * 2^1, sb)
      BY <3>1, <3>2, <3>3
    <3>5. d = gpga_double_round_pack(sign, ea - eb - 1, quot * 2)
      BY <2>5, <2>8
    <3> HIDE DEF d, sign, ea, eb, n, m
    <3> QED
      BY <2>7, <3>1, <3>4, <3>5 DEF d, sign, n, m
  <2>9. CASE quot >= 8 * H
    <3>1. 2^0 = 1 /\ 0 \in {0, 1} /\ quot \in (8 * H)..(16 * H - 1) /\ ea - eb - 0 = ea - eb
      BY <1>1, <2>1, <2>2, <2>6, <2>9
    <3>2. Places(quot, wide, sb)
      <4> HIDE DEF sb
      <4> QED
        BY <2>6, StickyPlaces
    <3>3. wide * 2^0 = wide
      BY <2>6, <3>1
    <3>4. ~(quot < 8 * H)
      BY <1>1, <2>6, <2>9
    <3>5. d = gpga_double_round_pack(sign, ea - eb - 0, quot)
      BY <2>5, <3>1, <3>4
    <3>6. Places(quot, wide * 2^0, sb)
      BY <3>2, <3>3
    <3> HIDE DEF d, sign, ea, eb, n, m
    <3> QED
      BY <2>7, <3>1, <3>5, <3>6 DEF d, sign, n, m
  <2> QED
    BY <1>1, <2>6, <2>8, <2>9
<1> QED
  BY <1>4, <1>5

-----------------------------------------------------------------------------
(* Sums.                                                                   *)

\* The lower of two significands is brought to the exponent of the higher: what is
\* lost is small, leaves its sticky bit, and both stand for their numbers.
Aligned(s1, e1, s2, z, low, t1, t2) ==
    /\ z \in Nat /\ low \in Nat /\ Sticky(low, 8 * s2, 2^z) /\ low < 16 * Hidden
    /\ z > 0 => low < 8 * Hidden
    /\ z = 0 => low = 8 * s2
    /\ 8 * s2 = low * 2^z \/ (low < Hidden /\ e1 > MinExponent)
    /\ \E i, j \in Nat : /\ e1 + Bias - 1 = i - j /\ (i = 0 \/ j = 0)
                         /\ (8 * s1 * 2^z) * 2^i = t1 * (8 * 2^z) * 2^j
                         /\ (8 * s2) * 2^i = t2 * (8 * 2^z) * 2^j

LEMMA AlignedIs ==
  ASSUME NEW hi \in Double, ~gpga_double_is_zero(hi), NEW lo \in Double, ~gpga_double_is_zero(lo),
         Normalized(hi).exp >= Normalized(lo).exp
  PROVE  LET z == Normalized(hi).exp - Normalized(lo).exp
         IN  Aligned(Normalized(hi).sig, Normalized(hi).exp, Normalized(lo).sig, z,
                     gpga_shift_right_sticky(Normalized(lo).sig * 8, z),
                     Units(Magnitude(hi)), Units(Magnitude(lo)))
<1> DEFINE H == Hidden  F == FractionBits  B == Bias
           s1 == Normalized(hi).sig  e1 == Normalized(hi).exp  P1 == Place(hi)  m1 == Sig(hi)
           s2 == Normalized(lo).sig  e2 == Normalized(lo).exp  P2 == Place(lo)  m2 == Sig(lo)
           z == e1 - e2  p == 2^z  low == gpga_shift_right_sticky(s2 * 8, z)
           t1 == Units(Magnitude(hi))  t2 == Units(Magnitude(lo))
<1>1. /\ H \in Nat /\ H >= 8 /\ H % 2 = 0 /\ F \in Nat /\ B \in Nat /\ MinExponent = 1 - B
  BY FormatFacts
<1>2. s1 \in H..(2 * H - 1) /\ e1 \in Int /\ s2 \in H..(2 * H - 1) /\ e2 \in Int
  BY NormalizedIs
<1>3. PICK u1 \in 0..F : s1 = m1 * 2^u1 /\ e1 = P1 - B + 1 - u1 /\ (hi.exp # 0 => u1 = 0)
  BY NormalizedIs
<1>4. PICK u2 \in 0..F : s2 = m2 * 2^u2 /\ e2 = P2 - B + 1 - u2
  BY NormalizedIs
<1>5. /\ m1 \in Nat /\ P1 \in Nat /\ t1 = m1 * 2^P1 /\ t1 \in Nat
      /\ m2 \in Nat /\ P2 \in Nat /\ t2 = m2 * 2^P2 /\ t2 \in Nat
  BY UnitsOf
<1>6. hi.exp = 0 => P1 = 0
  BY DEF Place
<1>7. u1 \in Nat /\ u2 \in Nat /\ z \in Nat
  <2>1. u1 \in Nat /\ u2 \in Nat
    BY <1>1
  <2>2. e1 >= e2
    OBVIOUS
  <2> HIDE DEF e1, e2
  <2> QED
    BY <1>2, <2>1, <2>2
<1>8. p \in Nat /\ p > 0
  BY <1>7, TwoPositive
<1>9. s2 * 8 \in Nat /\ s2 * 8 = 8 * s2
  <2> HIDE DEF s2, H
  <2> QED
    BY <1>1, <1>2
<1>10. /\ low \in Nat /\ Sticky(low, s2 * 8, p)
       /\ (s2 * 8) % p = 0 => s2 * 8 = low * p
       /\ \A l, N \in Nat : N % 2 = 0 /\ l * p <= s2 * 8 /\ s2 * 8 < N * p => low \in l..(N - 1)
  <2> HIDE DEF s2, z
  <2> QED
    BY <1>7, <1>9, ShiftSticks
<1> HIDE DEF low, p, z, s1, s2, e1, e2, m1, m2, t1, t2, P1, P2, H
\* The places.
<1>11. P1 + u2 = (P2 + u1) + z /\ e1 + B - 1 = P1 - u1
  BY <1>1, <1>2, <1>3, <1>4, <1>5, <1>7 DEF z
<1>12. 2^P1 * 2^u2 = 2^P2 * 2^u1 * p
  <2>1. 2^(P1 + u2) = 2^P1 * 2^u2 /\ 2^(P2 + u1) = 2^P2 * 2^u1
    BY <1>5, <1>7, TwoSum
  <2>2. P2 + u1 \in Nat
    BY <1>5, <1>7
  <2>3. 2^((P2 + u1) + z) = 2^(P2 + u1) * 2^z
    BY <1>7, <2>2, TwoSum
  <2> QED
    BY <1>11, <2>1, <2>3 DEF p
<1> DEFINE A == 2^P1  C == 2^P2  G == 2^u1  K == 2^u2
<1>13. A \in Nat /\ C \in Nat /\ G \in Nat /\ K \in Nat
  BY <1>5, <1>7, TwoPositive
<1>14. (8 * s1 * p) * A = t1 * (8 * p) * G
  <2> HIDE DEF A, G
  <2>1. s1 = m1 * G /\ t1 = m1 * A
    BY <1>3, <1>5 DEF A, G
  <2>2. (8 * (m1 * G) * p) * A = (m1 * A) * (8 * p) * G
    BY <1>5, <1>8, <1>13
  <2> QED
    BY <2>1, <2>2
<1>15. (8 * s2) * A = t2 * (8 * p) * G
  <2>1. s2 = m2 * K /\ t2 = m2 * C /\ A * K = C * G * p
    BY <1>4, <1>5, <1>12
  <2> HIDE DEF A, G, C, K
  <2>2. (8 * (m2 * K)) * A = 8 * m2 * (A * K)
    BY <1>5, <1>8, <1>13
  <2>3. (m2 * C) * (8 * p) * G = 8 * m2 * (C * G * p)
    BY <1>5, <1>8, <1>13
  <2> QED
    BY <2>1, <2>2, <2>3
\* The bounds.
<1>16. low < 16 * H
  <2>1. s2 * 8 < (16 * H) * p
    <3>1. s2 * 8 < 16 * H
      BY <1>1, <1>2
    <3>2. 16 * H <= (16 * H) * p
      BY <1>1, <1>8
    <3> QED
      BY <1>1, <1>8, <1>9, <3>1, <3>2
  <2>2. 16 * H \in Nat /\ 0 \in Nat /\ (16 * H) % 2 = 0 /\ 0 * p <= s2 * 8
    BY <1>1, <1>8, <1>9
  <2> QED
    BY <1>10, <2>1, <2>2
<1>17. ASSUME z > 0 PROVE low < 8 * H
  <2>1. p >= 2
    <3>1. 1 \in Nat /\ 1 <= z
      BY <1>7, <1>17
    <3>2. 2^1 <= 2^z
      BY <1>7, <3>1, TwoGrows
    <3>3. 2^0 = 1 /\ 2^(0 + 1) = 2 * 2^0
      BY TwoTimes
    <3> QED
      BY <1>8, <3>2, <3>3 DEF p
  <2>2. s2 * 8 < (8 * H) * p
    <3>1. s2 * 8 < (8 * H) * 2
      BY <1>1, <1>2
    <3>2. (8 * H) * 2 <= (8 * H) * p
      BY <1>1, <1>8, <2>1
    <3> QED
      BY <1>1, <1>8, <1>9, <3>1, <3>2
  <2>3. 8 * H \in Nat /\ 0 \in Nat /\ (8 * H) % 2 = 0 /\ 0 * p <= s2 * 8
    BY <1>1, <1>8, <1>9
  <2> QED
    BY <1>10, <2>2, <2>3
<1>18. ASSUME z = 0 PROVE low = 8 * s2
  <2>1. p = 1
    BY <1>18, TwoTimes DEF p
  <2>2. (s2 * 8) % 1 = 0
    BY <1>9
  <2> QED
    BY <1>9, <1>10, <2>1, <2>2
<1>19. CASE z <= u2 + 3
  <2> DEFINE w == u2 + 3
  <2>1. w \in Nat /\ z <= w
    BY <1>7, <1>19
  <2>2. 2^w = 2^z * 2^(w - z) /\ w - z \in Nat
    <3> HIDE DEF w
    <3> QED
      BY <1>7, <2>1, TwoGrows
  <2>3. 2^w = K * 8
    <3>1. 2^(0 + 1) = 2 * 2^0 /\ 2^(1 + 1) = 2 * 2^1 /\ 2^(2 + 1) = 2 * 2^2 /\ 2^0 = 1
      BY TwoTimes
    <3>2. 2^(u2 + 3) = 2^u2 * 2^3
      BY <1>7, TwoSum
    <3> QED
      BY <3>1, <3>2
  <2> DEFINE c == 2^(w - z)
  <2>4. c \in Nat
    BY <2>2, TwoPositive
  <2>5. m2 * (K * 8) = p * (m2 * c)
    <3>1. K * 8 = p * c
      BY <2>2, <2>3 DEF p
    <3>2. m2 * (p * c) = p * (m2 * c)
      <4> HIDE DEF c
      <4> QED
        BY <1>5, <1>8, <2>4
    <3> QED
      BY <3>1, <3>2
  <2>6. s2 * 8 = p * (m2 * c) + 0 /\ m2 * c \in Int
    <3>1. s2 * 8 = m2 * (K * 8)
      <4>1. s2 = m2 * K
        BY <1>4
      <4> HIDE DEF K
      <4> QED
        BY <1>5, <1>13, <4>1
    <3> HIDE DEF c
    <3> QED
      BY <1>5, <1>8, <1>9, <2>4, <2>5, <3>1
  <2>7. (s2 * 8) % p = 0
    <3> HIDE DEF c
    <3> QED
      BY <1>8, <1>9, <2>6, DivisionIs
  <2>8. 8 * s2 = low * p
    BY <1>9, <1>10, <2>7
  <2> QED
    BY <1>1, <1>5, <1>7, <1>8, <1>9, <1>10, <1>3, <1>6, <1>11, <1>14, <1>15, <1>16, <1>17, <1>18, <2>8
       DEF Aligned, p, z, s1, s2, e1, e2, low, t1, t2, H
<1>20. CASE z > u2 + 3
  <2>1. z >= 4
    BY <1>7, <1>20
  <2>2. p >= 16
    <3>1. 4 \in Nat /\ 4 <= z
      BY <2>1
    <3>2. 2^4 <= 2^z
      BY <1>7, <3>1, TwoGrows
    <3>3. 2^(0 + 1) = 2 * 2^0 /\ 2^(1 + 1) = 2 * 2^1 /\ 2^(2 + 1) = 2 * 2^2 /\ 2^(3 + 1) = 2 * 2^3
          /\ 2^0 = 1
      BY TwoTimes
    <3> QED
      BY <1>8, <3>2, <3>3 DEF p
  <2>3. low < H
    <3>1. s2 * 8 < H * p
      <4>1. s2 * 8 < H * 16
        BY <1>1, <1>2
      <4>2. H * 16 <= H * p
        BY <1>1, <1>8, <2>2
      <4> QED
        BY <1>1, <1>8, <1>9, <4>1, <4>2
    <3>2. 0 \in Nat /\ 0 * p <= s2 * 8
      BY <1>8, <1>9
    <3> QED
      BY <1>1, <1>10, <3>1, <3>2
  <2>4. e1 > MinExponent
    BY <1>1, <1>2, <1>4, <1>5, <1>7, <1>20 DEF z
  <2> QED
    BY <1>1, <1>5, <1>7, <1>8, <1>9, <1>10, <1>3, <1>6, <1>11, <1>14, <1>15, <1>16, <1>17, <1>18, <2>3, <2>4
       DEF Aligned, p, z, s1, s2, e1, e2, low, t1, t2, H
<1> QED
  BY <1>7, <1>19, <1>20

\* A sum or difference with an even number of last places keeps the sticky bit.
LEMMA StickySum ==
  ASSUME NEW r \in Nat, NEW v \in Nat, NEW p \in Nat, p > 0, Sticky(r, v, p), NEW c \in Nat
  PROVE  /\ Sticky(8 * c + r, 8 * c * p + v, p)
         /\ Sticky(8 * c - r, 8 * c * p - v, p)
         /\ v = r * p => 8 * c * p - v = (8 * c - r) * p
<1> DEFINE x == c * p  y == r * p
<1>1. x \in Nat /\ y \in Nat /\ 8 * c * p = 8 * x
  OBVIOUS
<1>2. /\ (8 * c + r) * p = 8 * x + y /\ (8 * c - r) * p = 8 * x - y
      /\ ((8 * c + r) - 1) * p = 8 * x + y - p /\ ((8 * c + r) + 1) * p = 8 * x + y + p
      /\ ((8 * c - r) - 1) * p = 8 * x - y - p /\ ((8 * c - r) + 1) * p = 8 * x - y + p
      /\ (r - 1) * p = y - p /\ (r + 1) * p = y + p
  OBVIOUS
<1>3. (Odd(8 * c + r) <=> Odd(r)) /\ (Odd(8 * c - r) <=> Odd(r))
  BY DEF Odd
<1>4. v = y \/ (Odd(r) /\ y - p < v /\ v < y + p)
  BY <1>2 DEF Sticky
<1> HIDE DEF x, y
<1>5. \/ 8 * x + v = 8 * x + y
      \/ Odd(r) /\ 8 * x + y - p < 8 * x + v /\ 8 * x + v < 8 * x + y + p
  BY <1>1, <1>4
<1>6. \/ 8 * x - v = 8 * x - y
      \/ Odd(r) /\ 8 * x - y - p < 8 * x - v /\ 8 * x - v < 8 * x - y + p
  BY <1>1, <1>4
<1>7. Sticky(8 * c + r, 8 * c * p + v, p)
  BY <1>1, <1>2, <1>3, <1>5 DEF Sticky
<1>8. Sticky(8 * c - r, 8 * c * p - v, p)
  BY <1>1, <1>2, <1>3, <1>6 DEF Sticky
<1>9. v = r * p => 8 * c * p - v = (8 * c - r) * p
  BY <1>1, <1>2 DEF y
<1> QED
  BY <1>7, <1>8, <1>9

\* Operands of one sign: the sum is rounded once, with or without a carry.
Added(sign, exp, ext) ==
    IF ext >= 16 * Hidden
    THEN gpga_double_round_pack(sign, exp + 1, gpga_shift_right_sticky(ext, 1))
    ELSE gpga_double_round_pack(sign, exp, ext)

LEMMA AddedIs ==
  ASSUME NEW sign \in {0, 1}, NEW s1 \in Hidden..(2 * Hidden - 1), NEW e1 \in Int,
         NEW s2 \in Hidden..(2 * Hidden - 1), NEW z, NEW low, NEW t1 \in Nat, NEW t2 \in Nat,
         Aligned(s1, e1, s2, z, low, t1, t2)
  PROVE  LET d == Added(sign, e1, s1 * 8 + low)
         IN  /\ d \in Double /\ d.sign = sign /\ ~gpga_double_is_nan(d)
             /\ t1 + t2 >= Hidden => IsNearest(d, t1 + t2, 1)
<1> DEFINE H == Hidden  B == Bias  p == 2^z  ext == 8 * s1 + low
           d == Added(sign, e1, s1 * 8 + low)  t == t1 + t2
           v == 8 * s1 * p + 8 * s2
<1>1. H \in Nat /\ H >= 8 /\ H % 2 = 0 /\ B \in Nat
  BY FormatFacts
<1>2. /\ z \in Nat /\ low \in Nat /\ Sticky(low, 8 * s2, p) /\ low < 16 * H
  BY DEF Aligned
<1>3. PICK i \in Nat, j \in Nat : /\ e1 + B - 1 = i - j
                                  /\ (8 * s1 * p) * 2^i = t1 * (8 * p) * 2^j
                                  /\ (8 * s2) * 2^i = t2 * (8 * p) * 2^j
  BY DEF Aligned
<1>4. p \in Nat /\ p > 0
  BY <1>2, TwoPositive
<1>5. s1 \in Nat /\ s2 \in Nat /\ 8 * s2 \in Nat /\ s1 * 8 = 8 * s1
  BY <1>1
<1> HIDE DEF p
<1>6. ext \in Nat /\ v \in Nat /\ t \in Nat /\ 8 * H <= ext /\ ext < 32 * H - 8
  <2>1. v \in Nat
    BY <1>4, <1>5
  <2> QED
    BY <1>1, <1>2, <1>5, <2>1
<1>7. Sticky(ext, v, p)
  BY <1>2, <1>4, <1>5, StickySum
<1>8. 2^i \in Nat /\ 2^j \in Nat /\ 2^(i + 1) = 2 * 2^i
  BY TwoTimes
<1>9. v * 2^i = t * (8 * p) * 2^j
  <2> DEFINE I == 2^i  J == 2^j  x == 8 * s1 * p  y == 8 * s2
  <2>1. x * I = t1 * (8 * p) * J /\ y * I = t2 * (8 * p) * J
    BY <1>3
  <2>2. I \in Nat /\ J \in Nat /\ x \in Nat /\ y \in Nat
    BY <1>4, <1>5, <1>8
  <2> HIDE DEF I, J, x, y
  <2>3. (x + y) * I = x * I + y * I /\ (t1 + t2) * (8 * p) * J = t1 * (8 * p) * J + t2 * (8 * p) * J
    BY <1>4, <2>2
  <2>4. (x + y) * I = t * (8 * p) * J
    BY <2>1, <2>3
  <2> QED
    BY <2>4 DEF I, J, x, y
<1> HIDE DEF ext, v, t
<1>10. CASE ext < 16 * H
  <2>1. d = gpga_double_round_pack(sign, e1, ext)
    BY <1>1, <1>5, <1>6, <1>10 DEF Added, ext
  <2>2. ext \in (8 * H)..(16 * H - 1)
    BY <1>1, <1>6, <1>10
  <2>3. Places(ext, v, p)
    BY <1>4, <1>6, <1>7, StickyPlaces
  <2>4. Stands(e1, v, p, t, 1)
    <3>1. v * 2^i * 1 = t * (8 * p) * 2^j
      BY <1>6, <1>8, <1>9
    <3> QED
      BY <1>3, <3>1 DEF Stands
  <2>5. d \in Double /\ d.sign = sign /\ ~gpga_double_is_nan(d)
    BY <1>6, <2>1, RoundPackFits
  <2>6. t >= H => IsNearest(d, t, 1)
    BY <1>1, <1>4, <1>6, <2>1, <2>2, <2>3, <2>4, RoundPackIs
  <2> QED
    BY <2>5, <2>6 DEF t
<1>11. CASE ext >= 16 * H
  <2> DEFINE half == gpga_shift_right_sticky(ext, 1)
  <2>1. d = gpga_double_round_pack(sign, e1 + 1, half)
    BY <1>1, <1>5, <1>6, <1>11 DEF Added, ext
  <2>2. half \in {ext \div 2, (ext \div 2) + 1} /\ Sticky(half, v, 2 * p)
    BY <1>4, <1>6, <1>7, ShiftAgain
  <2> HIDE DEF half
  <2>3. half \in (8 * H)..(16 * H - 1) /\ half \in Nat
    BY <1>1, <1>6, <1>11, <2>2
  <2>4. 2 * p \in Nat /\ 2 * p > 0
    BY <1>4
  <2>5. Places(half, v, 2 * p)
    BY <1>6, <2>2, <2>3, <2>4, StickyPlaces
  <2>6. Stands(e1 + 1, v, 2 * p, t, 1)
    <3> DEFINE I == 2^i  J == 2^j
    <3>1. v * I = t * (8 * p) * J /\ I \in Nat /\ J \in Nat
      BY <1>8, <1>9
    <3> HIDE DEF I, J
    <3>2. v * (2 * I) * 1 = 2 * (v * I) /\ t * (8 * (2 * p)) * J = 2 * (t * (8 * p) * J)
      BY <1>4, <1>6, <3>1
    <3>3. v * (2 * I) * 1 = t * (8 * (2 * p)) * J
      BY <3>1, <3>2
    <3>4. v * 2^(i + 1) * 1 = t * (8 * (2 * p)) * 2^j
      BY <1>8, <3>3 DEF I, J
    <3>5. e1 + 1 + B - 1 = (i + 1) - j /\ i + 1 \in Nat
      BY <1>1, <1>3
    <3> QED
      BY <3>4, <3>5 DEF Stands
  <2>7. d \in Double /\ d.sign = sign /\ ~gpga_double_is_nan(d)
    BY <2>1, <2>3, RoundPackFits
  <2>8. t >= H => IsNearest(d, t, 1)
    <3>1. e1 + 1 \in Int
      OBVIOUS
    <3> QED
      BY <1>1, <1>6, <2>1, <2>3, <2>4, <2>5, <2>6, <3>1, RoundPackIs
  <2> QED
    BY <2>7, <2>8 DEF t
<1> QED
  BY <1>1, <1>6, <1>10, <1>11

\* Operands of different signs: nothing is left exactly when the numbers are equal, and
\* the leading bit moves no further than the exponent allows unless the difference is
\* below the normal numbers.
LEMMA CancelledIs ==
  ASSUME NEW sign \in {0, 1}, NEW s1 \in Hidden..(2 * Hidden - 1), NEW e1 \in Int,
         NEW s2 \in Hidden..(2 * Hidden - 1), NEW z, NEW low, NEW t1 \in Nat, NEW t2 \in Nat,
         Aligned(s1, e1, s2, z, low, t1, t2), low <= s1 * 8
  PROVE  LET d == Cancelled(sign, e1, s1 * 8 - low)
         IN  /\ d \in Double /\ ~gpga_double_is_nan(d) /\ t1 >= t2
             /\ t1 # t2 => d.sign = sign
             /\ t1 = t2 => gpga_double_is_zero(d)
             /\ t1 - t2 >= Hidden => IsNearest(d, t1 - t2, 1)
<1> DEFINE H == Hidden  B == Bias  p == 2^z  ext == 8 * s1 - low
           d == Cancelled(sign, e1, s1 * 8 - low)  t == t1 - t2
           v == 8 * s1 * p - 8 * s2
<1>1. /\ H \in Nat /\ H >= 8 /\ H % 2 = 0 /\ B \in Nat /\ MinExponent = 1 - B
      /\ FractionBits \in Nat /\ H = 2^FractionBits
  BY FormatFacts
<1>2. /\ z \in Nat /\ low \in Nat /\ Sticky(low, 8 * s2, p) /\ low < 16 * H
      /\ 8 * s2 = low * p \/ (low < H /\ e1 > MinExponent)
  BY DEF Aligned
<1>3. PICK i \in Nat, j \in Nat : /\ e1 + B - 1 = i - j /\ (i = 0 \/ j = 0)
                                  /\ (8 * s1 * p) * 2^i = t1 * (8 * p) * 2^j
                                  /\ (8 * s2) * 2^i = t2 * (8 * p) * 2^j
  BY DEF Aligned
<1>4. p \in Nat /\ p > 0
  BY <1>2, TwoPositive
<1>5. s1 \in Nat /\ s2 \in Nat /\ 8 * s2 \in Nat /\ s1 * 8 = 8 * s1
  BY <1>1
<1> DEFINE I == 2^i  J == 2^j
<1>6. I \in Nat /\ I > 0 /\ J \in Nat /\ J > 0 /\ (i = 0 => I = 1) /\ (j = 0 => J = 1)
  <2>1. 2^0 = 1
    BY TwoTimes
  <2> QED
    BY <2>1, TwoPositive
<1> HIDE DEF p, I, J
<1>7. ext \in Nat /\ v \in Int /\ ext < 16 * H /\ t \in Int /\ ext = s1 * 8 - low
  <2>1. 8 * s1 * p \in Nat
    BY <1>4, <1>5
  <2> QED
    BY <1>1, <1>2, <1>5, <2>1
<1>8. Sticky(ext, v, p) /\ (8 * s2 = low * p => v = ext * p)
  BY <1>2, <1>4, <1>5, StickySum
<1>9. v * I = t * (8 * p) * J
  <2> DEFINE x == 8 * s1 * p  y == 8 * s2
  <2>1. x * I = t1 * (8 * p) * J /\ y * I = t2 * (8 * p) * J
    BY <1>3 DEF p, I, J
  <2>2. x \in Nat /\ y \in Nat
    BY <1>4, <1>5
  <2> HIDE DEF x, y
  <2>3. (x - y) * I = x * I - y * I /\ (t1 - t2) * (8 * p) * J = t1 * (8 * p) * J - t2 * (8 * p) * J
    BY <1>4, <1>6, <2>2
  <2>4. (x - y) * I = t * (8 * p) * J
    BY <2>1, <2>3
  <2> QED
    BY <2>4 DEF x, y
<1>10. low < H => ext > 7 * H
  <2>1. 8 * H <= 8 * s1
    BY <1>1, <1>5
  <2> QED
    BY <1>1, <1>2, <1>5, <2>1
<1> HIDE DEF ext, v, t
<1>11. v \in Nat /\ (ext = 0 <=> v = 0)
  <2>1. CASE v = ext * p
    <3>1. v \in Nat
      BY <1>4, <1>7, <2>1
    <3>2. ext = 0 => v = 0
      BY <1>4, <2>1
    <3>3. v = 0 => ext = 0
      BY <1>4, <1>7, <2>1, Cancel
    <3> QED
      BY <3>1, <3>2, <3>3
  <2>2. CASE v # ext * p
    <3>1. Odd(ext) /\ (ext - 1) * p < v
      BY <1>8, <2>2 DEF Sticky
    <3>2. ext > 0 /\ ext - 1 \in Nat
      BY <1>7, <3>1 DEF Odd
    <3>3. (ext - 1) * p \in Nat
      BY <1>4, <3>2
    <3> QED
      BY <1>7, <3>1, <3>2, <3>3
  <2> QED
    BY <2>1, <2>2
\* t is v, scaled.
<1> DEFINE W == (8 * p) * J
<1>12. W \in Nat /\ W > 0 /\ v * I = t * W /\ v * I \in Nat
  <2>1. W \in Nat
    BY <1>4, <1>6
  <2>2. W > 0
    <3>1. 8 * p >= 1 /\ J >= 1 /\ 8 * p \in Nat
      BY <1>4, <1>6
    <3> DEFINE x == 8 * p
    <3> HIDE DEF x
    <3>2. x \in Nat /\ x >= 1 /\ W = x * J
      BY <3>1 DEF x
    <3>3. J \in Nat /\ J >= 1
      BY <1>6
    <3> HIDE DEF W
    <3> QED
      BY <3>2, <3>3
  <2>3. t * W = t * (8 * p) * J
    BY <1>4, <1>6, <1>7
  <2>4. v * I \in Nat
    BY <1>6, <1>11
  <2> QED
    BY <1>9, <2>1, <2>2, <2>3, <2>4
<1> HIDE DEF W
<1>13. t \in Nat /\ (t = 0 <=> v = 0)
  <2>1. t >= 0
    <3>1. 0 * W <= t * W
      BY <1>12
    <3>2. 0 \in Int
      OBVIOUS
    <3> QED
      BY <1>7, <1>12, <3>1, <3>2, Cancel
  <2>2. t = 0 => v = 0
    <3> SUFFICES ASSUME t = 0 PROVE v = 0
      OBVIOUS
    <3>1. v * I = 0 * I
      BY <1>6, <1>12
    <3> QED
      BY <1>6, <1>11, <3>1, Cancel
  <2>3. v = 0 => t = 0
    <3> SUFFICES ASSUME v = 0 PROVE t = 0
      OBVIOUS
    <3>1. t * W = 0 * W
      BY <1>6, <1>12
    <3> QED
      BY <1>7, <1>12, <3>1, Cancel
  <2> QED
    BY <1>7, <2>1, <2>2, <2>3
<1>14. t1 >= t2 /\ (t1 = t2 <=> t = 0)
  BY <1>13 DEF t
<1>15. CASE ext = 0
  <2>1. d = gpga_double_zero(0)
    BY <1>7, <1>15 DEF Cancelled
  <2>2. gpga_double_zero(0) \in Double /\ Magnitude(gpga_double_zero(0)) = 0
    BY ZeroAndInf
  <2>3. gpga_double_is_zero(d) /\ ~gpga_double_is_nan(d) /\ d \in Double
    BY <2>1, <2>2, DoubleFacts, FormatFacts
  <2>4. t1 = t2
    BY <1>11, <1>13, <1>14, <1>15
  <2>5. ~(t1 - t2 >= H)
    BY <1>1, <2>4
  <2> QED
    BY <2>3, <2>4, <2>5
<1>16. CASE ext # 0
  <2> DEFINE K == FractionBits + 3
             room == IF e1 > MinExponent THEN e1 - MinExponent ELSE 0
             need == CHOOSE n \in 0..K : ext * 2^n \in (8 * H)..(16 * H - 1)
             up == IF need < room THEN need ELSE room
  <2>1. d = gpga_double_round_pack(sign, e1 - up, ext * 2^up)
    BY <1>7, <1>16 DEF Cancelled
  <2>2. need \in 0..K /\ ext * 2^need \in (8 * H)..(16 * H - 1)
    <3>1. K \in Nat /\ 2^K = 8 * H
      <4>1. 2^(0 + 1) = 2 * 2^0 /\ 2^(1 + 1) = 2 * 2^1 /\ 2^(2 + 1) = 2 * 2^2 /\ 2^0 = 1
        BY TwoTimes
      <4>2. 2^(FractionBits + 3) = 2^FractionBits * 2^3
        BY <1>1, TwoSum
      <4> QED
        BY <1>1, <4>1, <4>2
    <3>2. ext > 0 /\ ext < 2 * 2^K
      BY <1>1, <1>7, <1>16, <3>1
    <3> HIDE DEF K
    <3>3. \E n \in 0..K : ext * 2^n \in 2^K..(2 * 2^K - 1)
      BY <1>7, <3>1, <3>2, LeadingBit
    <3>4. 2 * 2^K - 1 = 16 * H - 1
      BY <1>1, <3>1
    <3>5. \E n \in 0..K : ext * 2^n \in (8 * H)..(16 * H - 1)
      BY <3>1, <3>3, <3>4
    <3> QED
      BY <3>5
  <2>3. need \in Nat /\ room \in Nat /\ up \in Nat
    <3> HIDE DEF need
    <3>1. need \in Nat
      BY <1>1, <2>2
    <3> QED
      BY <1>1, <3>1
  <2>4. 2^up \in Nat /\ ext * 2^up \in Nat
    <3>1. 2^up \in Nat
      BY <2>3, TwoPositive
    <3> DEFINE x == 2^up
    <3> HIDE DEF x
    <3>2. ext * x \in Nat
      BY <1>7, <3>1 DEF x
    <3> QED
      BY <3>1, <3>2 DEF x
  <2>5. d \in Double /\ d.sign = sign /\ ~gpga_double_is_nan(d)
    <3> HIDE DEF up
    <3>1. e1 - up \in Int
      BY <2>3
    <3> QED
      BY <2>1, <2>4, <3>1, RoundPackFits
  <2>6. t1 # t2
    BY <1>11, <1>13, <1>14, <1>16
  <2>7. ASSUME t >= H PROVE IsNearest(d, t, 1)
    <3> HIDE DEF need
    <3>1. need <= room
      <4>1. CASE v = ext * p
        <5>1. ext * I >= (8 * H) * J /\ ext * I \in Nat
          <6>1. ext * I = (8 * t) * J
            <7>1. (ext * I) * p = ((8 * t) * J) * p
              <8>1. (ext * p) * I = (ext * I) * p
                BY <1>4, <1>6, <1>7
              <8>2. t * (8 * p) * J = ((8 * t) * J) * p
                BY <1>4, <1>6, <1>13
              <8> QED
                BY <1>9, <4>1, <8>1, <8>2
            <7>2. ext * I \in Int /\ (8 * t) * J \in Int
              BY <1>6, <1>7, <1>13
            <7> QED
              BY <1>4, <7>1, <7>2, Cancel
          <6>2. (8 * t) * J >= (8 * H) * J
            BY <1>1, <1>6, <1>13, <2>7
          <6>3. ext * I \in Nat
            BY <1>6, <1>7
          <6>4. (8 * H) * J \in Nat /\ (8 * t) * J \in Nat
            BY <1>1, <1>6, <1>13
          <6> QED
            BY <6>1, <6>2, <6>3, <6>4
        <5>2. room = i - j \/ (i = 0 /\ room = 0)
          BY <1>1, <1>3
        <5>3. ext * 2^room >= 8 * H
          <6>1. CASE j = 0 /\ room = i
            <7>1. ext * I >= 8 * H
              BY <1>1, <1>6, <5>1, <6>1
            <7> QED
              BY <6>1, <7>1 DEF I
          <6>2. CASE i = 0 /\ room = 0
            <7>1. 2^room = 1 /\ I = 1
              <8>1. 2^0 = 1
                BY TwoTimes
              <8> HIDE DEF room
              <8> QED
                BY <1>6, <6>2, <8>1
            <7>2. (8 * H) * J >= 8 * H
              BY <1>1, <1>6
            <7>3. (8 * H) * J \in Nat
              BY <1>1, <1>6
            <7> QED
              BY <1>1, <1>7, <5>1, <7>1, <7>2, <7>3
          <6> QED
            BY <1>3, <2>3, <5>2, <6>1, <6>2
        <5>4. SUFFICES ASSUME need > room PROVE FALSE
          BY <2>3
        <5>5. 2 * 2^room <= 2^need
          <6> HIDE DEF room
          <6>1. room + 1 \in Nat /\ room + 1 <= need
            BY <2>3, <5>4
          <6>2. 2^(room + 1) <= 2^need
            BY <2>3, <6>1, TwoGrows
          <6> QED
            BY <2>3, <6>2, TwoTimes
        <5> DEFINE x == 2^room  y == 2^need
        <5>6. x \in Nat /\ y \in Nat
          BY <2>3, TwoPositive
        <5>7. ext * x >= 8 * H /\ ext * y < 16 * H /\ 2 * x <= y
          BY <1>1, <2>2, <5>3, <5>5
        <5> HIDE DEF x, y
        <5>8. ext * (2 * x) <= ext * y
          BY <1>7, <5>6, <5>7
        <5>9. ext * (2 * x) = 2 * (ext * x) /\ ext * x \in Nat /\ ext * y \in Nat
          BY <1>7, <5>6
        <5> QED
          BY <1>1, <5>7, <5>8, <5>9
      <4>2. CASE v # ext * p
        <5>1. low < H /\ e1 > MinExponent
          BY <1>2, <1>8, <4>2
        <5>2. room >= 1
          BY <1>1, <5>1
        <5>3. SUFFICES ASSUME need >= 2 PROVE FALSE
          BY <2>3, <5>2
        <5>4. 4 <= 2^need
          <6>1. 2 \in Nat /\ 2 <= need
            BY <5>3
          <6>2. 2^2 <= 2^need
            BY <2>3, <6>1, TwoGrows
          <6>3. 2^(0 + 1) = 2 * 2^0 /\ 2^(1 + 1) = 2 * 2^1 /\ 2^0 = 1
            BY TwoTimes
          <6> QED
            BY <6>2, <6>3
        <5> DEFINE y == 2^need
        <5>5. y \in Nat /\ ext * y < 16 * H /\ 4 <= y
          BY <1>1, <2>2, <2>3, <5>4, TwoPositive
        <5> HIDE DEF y
        <5>6. ext * 4 <= ext * y /\ ext * y \in Nat
          BY <1>7, <5>5
        <5> QED
          BY <1>1, <1>7, <1>10, <5>1, <5>5, <5>6
      <4> QED
        BY <4>1, <4>2
    <3>2. up = need
      BY <2>3, <3>1
    <3> HIDE DEF up, room
    <3> DEFINE N == 2^need
    <3>3. N \in Nat /\ N > 0 /\ ext * N \in (8 * H)..(16 * H - 1)
      BY <2>2, <2>3, TwoPositive
    <3>4. Places(ext * N, v * N, p)
      <4>1. CASE v = ext * p
        <5>1. v * N = (ext * N) * p
          BY <1>4, <1>7, <3>3, <4>1
        <5>2. Sticky(ext * N, v * N, p)
          BY <5>1 DEF Sticky
        <5>3. ext * N \in Nat /\ v * N \in Nat
          BY <1>7, <1>11, <3>3
        <5> HIDE DEF N
        <5> QED
          BY <1>4, <5>2, <5>3, StickyPlaces
      <4>2. CASE v # ext * p
        <5>1. low < H /\ ext > 7 * H
          BY <1>2, <1>8, <1>10, <4>2
        <5>2. need \in {0, 1}
          <6>1. SUFFICES ASSUME need >= 2 PROVE FALSE
            BY <2>3
          <6>2. 4 <= 2^need
            <7>1. 2 \in Nat /\ 2 <= need
              BY <6>1
            <7>2. 2^2 <= 2^need
              BY <2>3, <7>1, TwoGrows
            <7>3. 2^(0 + 1) = 2 * 2^0 /\ 2^(1 + 1) = 2 * 2^1 /\ 2^0 = 1
              BY TwoTimes
            <7> QED
              BY <7>2, <7>3
          <6>3. 4 <= N /\ ext * N < 16 * H
            BY <1>1, <3>3, <6>2
          <6> HIDE DEF N
          <6>4. ext * 4 <= ext * N /\ ext * N \in Nat
            BY <1>7, <3>3, <6>3
          <6> QED
            BY <1>1, <1>7, <5>1, <6>3, <6>4
        <5>3. CASE need = 0
          <6>1. N = 1
            BY <5>3, TwoTimes
          <6>2. ext * N = ext /\ v * N = v
            BY <1>7, <6>1
          <6>3. Places(ext, v, p)
            BY <1>4, <1>7, <1>8, <1>11, StickyPlaces
          <6> QED
            BY <6>2, <6>3
        <5>4. CASE need = 1
          <6>1. N = 2
            <7>1. 2^(0 + 1) = 2 * 2^0 /\ 2^0 = 1
              BY TwoTimes
            <7> QED
              BY <5>4, <7>1
          <6>2. ext * N = 2 * ext /\ v * N = 2 * v
            BY <1>7, <6>1
          <6>3. Places(2 * ext, 2 * v, p)
            BY <1>4, <1>7, <1>8, <1>11, StickyDoubled
          <6> QED
            BY <6>2, <6>3
        <5> QED
          BY <5>2, <5>3, <5>4
      <4> QED
        BY <4>1, <4>2
    <3>5. Stands(e1 - need, v * N, p, t, 1)
      <4>1. 2^(j + need) = J * N /\ j + need \in Nat
        BY <2>3, TwoSum DEF J
      <4>2. (v * N) * I * 1 = t * (8 * p) * (J * N)
        <5> HIDE DEF N
        <5>1. (v * N) * I * 1 = (v * I) * N
          BY <1>6, <1>11, <3>3
        <5>2. (t * (8 * p) * J) * N = t * (8 * p) * (J * N)
          BY <1>4, <1>6, <1>13, <3>3
        <5> QED
          BY <1>9, <5>1, <5>2
      <4>3. e1 - need + B - 1 = i - (j + need)
        BY <1>1, <1>3, <2>3
      <4> QED
        BY <4>1, <4>2, <4>3 DEF Stands, I
    <3>6. v * N \in Nat /\ e1 - need \in Int
      <4> HIDE DEF N
      <4> QED
        BY <1>11, <2>3, <3>3
    <3>7. d = gpga_double_round_pack(sign, e1 - need, ext * N)
      BY <2>1, <3>2
    <3>8. Hidden * 1 <= t
      BY <1>1, <2>7
    <3> HIDE DEF N, d
    <3> QED
      BY <1>4, <1>13, <3>3, <3>4, <3>5, <3>6, <3>7, <3>8, RoundPackIs
  <2> QED
    BY <1>14, <2>5, <2>6, <2>7 DEF t
<1> QED
  BY <1>15, <1>16

\* The number of a finite double: its sign, its units, and the double itself as its nearest.
LEMMA ValueIs ==
  ASSUME NEW d \in Double, Finite(d)
  PROVE  /\ Units(Magnitude(d)) \in Nat /\ Value(d) \in Int
         /\ Value(d) = 0 <=> gpga_double_is_zero(d)
         /\ Value(d) = 0 <=> Units(Magnitude(d)) = 0
         /\ d.sign = 0 => Value(d) = Units(Magnitude(d))
         /\ d.sign = 1 => Value(d) = -Units(Magnitude(d))
         /\ Value(d) # 0 => d.sign = (IF Value(d) < 0 THEN 1 ELSE 0)
         /\ IsNearest(d, Absolute(Value(d)), 1)
<1> DEFINE n == Units(Magnitude(d))
<1>1. n \in Nat /\ (n = 0 <=> gpga_double_is_zero(d))
  <2>1. n \in Nat /\ Magnitude(d) \in Nat /\ (Magnitude(d) = 0 <=> gpga_double_is_zero(d))
    BY UnitsOf, DoubleFacts
  <2>2. Units(0) = 0
    BY UnitsLow, FormatFacts
  <2>3. Magnitude(d) = 0 <=> n = 0
    <3>1. Magnitude(d) = 0 <=> Units(Magnitude(d)) = Units(0)
      BY <2>1, UnitsOrder
    <3> QED
      BY <2>2, <3>1
  <2> QED
    BY <2>1, <2>3
<1>2. d.sign \in {0, 1}
  BY DoubleFacts
<1> HIDE DEF n
<1>3. /\ Value(d) \in Int /\ (Value(d) = 0 <=> n = 0) /\ Absolute(Value(d)) = n
      /\ d.sign = 0 => Value(d) = n
      /\ d.sign = 1 => Value(d) = -n
      /\ Value(d) # 0 => d.sign = (IF Value(d) < 0 THEN 1 ELSE 0)
  <2>1. Value(d) = IF d.sign = 1 THEN -n ELSE n
    BY DEF Value, n
  <2> QED
    BY <1>1, <1>2, <2>1 DEF Absolute
<1>4. IsNearest(d, n, 1)
  <2>1. ~gpga_double_is_nan(d) /\ n = Units(Magnitude(d)) * 1
    BY <1>1, FiniteFacts DEF n
  <2> QED
    BY <1>1, <2>1, ExactIsNearest
<1> QED
  BY <1>1, <1>3, <1>4 DEF n

\* What gpga_double_add does once it knows which operand has the higher exponent.
OrderedSum(hi, lo) ==
    LET n == Normalized(hi)
        m == Normalized(lo)
        low == gpga_shift_right_sticky(m.sig * 8, n.exp - m.exp)
    IN  IF hi.sign = lo.sign THEN Added(hi.sign, n.exp, n.sig * 8 + low)
        ELSE IF n.sig * 8 >= low THEN Cancelled(hi.sign, n.exp, n.sig * 8 - low)
        ELSE Cancelled(lo.sign, m.exp, low - n.sig * 8)

\* A sum, as far as it is promised.
SumRight(d, s) ==
    /\ d \in Double /\ ~gpga_double_is_nan(d)
    /\ s # 0 => d.sign = (IF s < 0 THEN 1 ELSE 0)
    /\ s = 0 => gpga_double_is_zero(d)
    /\ Absolute(s) >= Hidden => IsNearest(d, Absolute(s), 1)

LEMMA OrderedSumIs ==
  ASSUME NEW hi \in Double, Finite(hi), ~gpga_double_is_zero(hi),
         NEW lo \in Double, Finite(lo), ~gpga_double_is_zero(lo),
         Normalized(hi).exp >= Normalized(lo).exp
  PROVE  SumRight(OrderedSum(hi, lo), Value(hi) + Value(lo))
<1> DEFINE s1 == Normalized(hi).sig  e1 == Normalized(hi).exp  t1 == Units(Magnitude(hi))
           s2 == Normalized(lo).sig  e2 == Normalized(lo).exp  t2 == Units(Magnitude(lo))
           z == e1 - e2  low == gpga_shift_right_sticky(s2 * 8, z)
           d == OrderedSum(hi, lo)  s == Value(hi) + Value(lo)
           H == Hidden
<1>1. H \in Nat /\ H >= 8 /\ hi.sign \in {0, 1} /\ lo.sign \in {0, 1}
  BY FormatFacts, DoubleFacts
<1>2. s1 \in H..(2 * H - 1) /\ e1 \in Int /\ s2 \in H..(2 * H - 1) /\ e2 \in Int
  BY NormalizedIs
<1>3. /\ t1 \in Nat /\ t1 # 0 /\ (hi.sign = 0 => Value(hi) = t1) /\ (hi.sign = 1 => Value(hi) = -t1)
      /\ t2 \in Nat /\ t2 # 0 /\ (lo.sign = 0 => Value(lo) = t2) /\ (lo.sign = 1 => Value(lo) = -t2)
  BY ValueIs
<1>4. Aligned(s1, e1, s2, z, low, t1, t2)
  BY AlignedIs
<1> HIDE DEF t1, t2, s1, s2, e1, e2, low
<1>5. s1 * 8 \in Nat /\ low \in Nat /\ z \in Nat
  BY <1>1, <1>2, <1>4 DEF Aligned
<1>6. CASE hi.sign = lo.sign
  <2> DEFINE r == Added(hi.sign, e1, s1 * 8 + low)
  <2>1. d = r
    BY <1>6 DEF OrderedSum, s1, e1, s2, e2, low
  <2>2. /\ r \in Double /\ r.sign = hi.sign /\ ~gpga_double_is_nan(r)
        /\ t1 + t2 >= Hidden => IsNearest(r, t1 + t2, 1)
    <3> HIDE DEF z
    <3> QED
      BY <1>1, <1>2, <1>3, <1>4, AddedIs
  <2>3. /\ Absolute(s) = t1 + t2 /\ s # 0
        /\ hi.sign = (IF s < 0 THEN 1 ELSE 0)
    BY <1>1, <1>3, <1>6 DEF Absolute
  <2> HIDE DEF r, s, d
  <2>4. SumRight(d, s)
    BY <2>1, <2>2, <2>3 DEF SumRight
  <2> QED
    BY <2>4 DEF d, s
<1>7. CASE hi.sign # lo.sign /\ s1 * 8 >= low
  <2> DEFINE r == Cancelled(hi.sign, e1, s1 * 8 - low)
  <2>1. d = r
    BY <1>7 DEF OrderedSum, s1, e1, s2, e2, low
  <2>2. /\ r \in Double /\ ~gpga_double_is_nan(r) /\ t1 >= t2
        /\ t1 # t2 => r.sign = hi.sign
        /\ t1 = t2 => gpga_double_is_zero(r)
        /\ t1 - t2 >= Hidden => IsNearest(r, t1 - t2, 1)
    <3>1. low <= s1 * 8
      BY <1>5, <1>7
    <3> HIDE DEF z
    <3> QED
      BY <1>1, <1>2, <1>3, <1>4, <3>1, CancelledIs
  <2>3. /\ Absolute(s) = t1 - t2 /\ (s = 0 <=> t1 = t2)
        /\ s # 0 => hi.sign = (IF s < 0 THEN 1 ELSE 0)
    BY <1>1, <1>3, <1>7, <2>2 DEF Absolute
  <2> HIDE DEF r, s, d
  <2>4. SumRight(d, s)
    BY <2>1, <2>2, <2>3 DEF SumRight
  <2> QED
    BY <2>4 DEF d, s
\* The lower operand is the greater one: the exponents are the same.
<1>8. CASE hi.sign # lo.sign /\ ~(s1 * 8 >= low)
  <2> DEFINE r == Cancelled(lo.sign, e2, low - s1 * 8)
             high == gpga_shift_right_sticky(s1 * 8, e2 - e1)
  <2>1. d = r
    BY <1>8 DEF OrderedSum, s1, e1, s2, e2, low
  <2>2. z = 0
    <3>1. SUFFICES ASSUME z > 0 PROVE FALSE
      BY <1>5
    <3>2. low < 8 * H
      BY <1>4, <3>1 DEF Aligned
    <3> HIDE DEF z
    <3> QED
      BY <1>1, <1>2, <1>5, <1>8, <3>2
  <2>3. e1 = e2 /\ low = 8 * s2
    BY <1>2, <1>4, <2>2 DEF Aligned
  <2>4. Aligned(s2, e2, s1, e2 - e1, high, t2, t1)
    <3>1. Normalized(lo).exp >= Normalized(hi).exp
      BY <1>2, <2>3 DEF e1, e2
    <3> QED
      BY <3>1, AlignedIs DEF s1, e1, s2, e2, t1, t2
  <2>5. high = 8 * s1
    BY <1>2, <2>3, <2>4 DEF Aligned
  <2>6. low - s1 * 8 = s2 * 8 - high /\ high <= s2 * 8
    BY <1>1, <1>2, <1>8, <2>3, <2>5
  <2> HIDE DEF high, z
  <2>7. /\ r \in Double /\ ~gpga_double_is_nan(r) /\ t2 >= t1
        /\ t2 # t1 => r.sign = lo.sign
        /\ t2 = t1 => gpga_double_is_zero(r)
        /\ t2 - t1 >= Hidden => IsNearest(r, t2 - t1, 1)
    BY <1>1, <1>2, <1>3, <2>4, <2>6, CancelledIs
  <2>8. /\ Absolute(s) = t2 - t1 /\ (s = 0 <=> t1 = t2)
        /\ s # 0 => lo.sign = (IF s < 0 THEN 1 ELSE 0)
    BY <1>1, <1>3, <1>8, <2>7 DEF Absolute
  <2> HIDE DEF r, s, d
  <2>9. SumRight(d, s)
    BY <2>1, <2>7, <2>8 DEF SumRight
  <2> QED
    BY <2>9 DEF d, s
<1> QED
  BY <1>6, <1>7, <1>8

\* The sum of two finite numbers.
LEMMA SumIs ==
  ASSUME NEW a \in Double, Finite(a), NEW b \in Double, Finite(b)
  PROVE  SumRight(gpga_double_add(a, b), Value(a) + Value(b))
<1> DEFINE d == gpga_double_add(a, b)
<1>1. ~gpga_double_is_nan(a) /\ ~gpga_double_is_inf(a) /\ ~gpga_double_is_nan(b) /\ ~gpga_double_is_inf(b)
  BY FiniteFacts
<1>2. Value(a) \in Int /\ Value(b) \in Int
  BY ValueIs
<1>3. CASE gpga_double_is_zero(a)
  <2>1. d = b /\ Value(a) = 0
    BY <1>1, <1>3, ValueIs DEF gpga_double_add
  <2>2. Value(a) + Value(b) = Value(b)
    BY <1>2, <2>1
  <2> QED
    BY <1>1, <2>1, <2>2, ValueIs DEF SumRight
<1>4. CASE ~gpga_double_is_zero(a) /\ gpga_double_is_zero(b)
  <2>1. d = a /\ Value(b) = 0
    BY <1>1, <1>4, ValueIs DEF gpga_double_add
  <2>2. Value(a) + Value(b) = Value(a)
    BY <1>2, <2>1
  <2> QED
    BY <1>1, <2>1, <2>2, ValueIs DEF SumRight
<1>5. CASE ~gpga_double_is_zero(a) /\ ~gpga_double_is_zero(b)
  <2> DEFINE swap == Normalized(a).exp < Normalized(b).exp
  <2>1. Normalized(a).exp \in Int /\ Normalized(b).exp \in Int
    BY <1>5, NormalizedIs
  <2>2. CASE swap
    <3>1. d = OrderedSum(b, a)
      BY <1>1, <1>5, <2>2 DEF gpga_double_add, OrderedSum, Added
    <3>2. Normalized(b).exp >= Normalized(a).exp
      BY <2>1, <2>2
    <3>3. SumRight(OrderedSum(b, a), Value(b) + Value(a))
      BY <1>5, <3>2, OrderedSumIs
    <3>4. Value(b) + Value(a) = Value(a) + Value(b)
      BY <1>2
    <3> QED
      BY <3>1, <3>3, <3>4
  <2>3. CASE ~swap
    <3>1. d = OrderedSum(a, b)
      BY <1>1, <1>5, <2>3 DEF gpga_double_add, OrderedSum, Added
    <3>2. Normalized(a).exp >= Normalized(b).exp
      BY <2>1, <2>3
    <3> QED
      BY <1>5, <3>1, <3>2, OrderedSumIs
  <2> QED
    BY <2>2, <2>3
<1> QED
  BY <1>3, <1>4, <1>5

-----------------------------------------------------------------------------
(* Arithmetic, as the calls see it.                                        *)

\* The special doubles and what they are not.
LEMMA SpecialFacts ==
  /\ gpga_double_is_nan(gpga_double_nan)
  /\ \A s \in {0, 1} : /\ ~gpga_double_is_nan(gpga_double_inf(s))
                       /\ ~gpga_double_is_nan(gpga_double_zero(s))
  /\ \A d \in Double : /\ gpga_double_is_zero(d) => ~gpga_double_is_inf(d) /\ ~gpga_double_is_nan(d)
                       /\ gpga_double_is_inf(d) => ~gpga_double_is_nan(d)
                       /\ Finite(d) <=> ~gpga_double_is_inf(d) /\ ~gpga_double_is_nan(d)
<1>1. Hidden \in Nat /\ Hidden >= 8 /\ MaxExp # 0 /\ Hidden \div 2 < Hidden /\ Hidden \div 2 > 0
  BY FormatFacts
<1>2. (Hidden \div 2) % Hidden # 0
  BY <1>1
<1>3. gpga_double_is_nan(gpga_double_nan)
  BY <1>2 DEF gpga_double_is_nan, gpga_double_nan, gpga_double_pack
<1>4. ASSUME NEW s \in {0, 1}
      PROVE  ~gpga_double_is_nan(gpga_double_inf(s)) /\ ~gpga_double_is_nan(gpga_double_zero(s))
  <2>1. 0 % Hidden = 0
    BY <1>1
  <2> QED
    BY <2>1 DEF gpga_double_is_nan, gpga_double_inf, gpga_double_zero, gpga_double_pack
<1>5. ASSUME NEW d \in Double
      PROVE  /\ gpga_double_is_zero(d) => ~gpga_double_is_inf(d) /\ ~gpga_double_is_nan(d)
             /\ gpga_double_is_inf(d) => ~gpga_double_is_nan(d)
             /\ Finite(d) <=> ~gpga_double_is_inf(d) /\ ~gpga_double_is_nan(d)
  BY <1>1 DEF gpga_double_is_zero, gpga_double_is_inf, gpga_double_is_nan, Finite
<1> QED
  BY <1>3, <1>4, <1>5

\* Which sums, products and quotients are not numbers.
LEMMA NaNsAre ==
  ASSUME NEW a \in Double, NEW b \in Double
  PROVE  /\ gpga_double_is_nan(gpga_double_add(a, b)) <=>
                \/ gpga_double_is_nan(a) \/ gpga_double_is_nan(b)
                \/ gpga_double_is_inf(a) /\ gpga_double_is_inf(b) /\ a.sign # b.sign
         /\ gpga_double_is_nan(gpga_double_mul(a, b)) <=>
                \/ gpga_double_is_nan(a) \/ gpga_double_is_nan(b)
                \/ gpga_double_is_inf(a) /\ gpga_double_is_zero(b)
                \/ gpga_double_is_zero(a) /\ gpga_double_is_inf(b)
         /\ gpga_double_is_nan(gpga_double_div(a, b)) <=>
                \/ gpga_double_is_nan(a) \/ gpga_double_is_nan(b)
                \/ gpga_double_is_inf(a) /\ gpga_double_is_inf(b)
                \/ gpga_double_is_zero(a) /\ gpga_double_is_zero(b)
<1>1. Xor(a, b) \in {0, 1}
  BY DoubleFacts DEF Xor
<1>2. \A d \in {a, b} : /\ gpga_double_is_zero(d) => ~gpga_double_is_inf(d) /\ ~gpga_double_is_nan(d)
                        /\ gpga_double_is_inf(d) => ~gpga_double_is_nan(d)
                        /\ Finite(d) <=> ~gpga_double_is_inf(d) /\ ~gpga_double_is_nan(d)
  BY SpecialFacts
<1>3. gpga_double_is_nan(gpga_double_add(a, b)) <=>
          \/ gpga_double_is_nan(a) \/ gpga_double_is_nan(b)
          \/ gpga_double_is_inf(a) /\ gpga_double_is_inf(b) /\ a.sign # b.sign
  <2>1. CASE Finite(a) /\ Finite(b)
    <3>1. ~gpga_double_is_nan(gpga_double_add(a, b))
      BY <2>1, SumIs DEF SumRight
    <3> QED
      BY <1>2, <2>1, <3>1
  <2>2. CASE ~(Finite(a) /\ Finite(b))
    <3>1. gpga_double_add(a, b) =
             IF gpga_double_is_nan(a) \/ gpga_double_is_nan(b) THEN gpga_double_nan
             ELSE IF gpga_double_is_inf(a)
             THEN IF gpga_double_is_inf(b) /\ a.sign # b.sign THEN gpga_double_nan ELSE a
             ELSE b
      BY <1>2, <2>2 DEF gpga_double_add
    <3> QED
      BY <1>2, <2>2, <3>1, SpecialFacts
  <2> QED
    BY <2>1, <2>2
<1>4. gpga_double_is_nan(gpga_double_mul(a, b)) <=>
          \/ gpga_double_is_nan(a) \/ gpga_double_is_nan(b)
          \/ gpga_double_is_inf(a) /\ gpga_double_is_zero(b)
          \/ gpga_double_is_zero(a) /\ gpga_double_is_inf(b)
  <2>1. CASE Finite(a) /\ Finite(b)
    <3>1. ~gpga_double_is_nan(gpga_double_mul(a, b))
      BY <2>1, ProductIs
    <3> QED
      BY <1>2, <2>1, <3>1
  <2>2. CASE ~(Finite(a) /\ Finite(b))
    <3>1. gpga_double_mul(a, b) =
             IF gpga_double_is_nan(a) \/ gpga_double_is_nan(b) THEN gpga_double_nan
             ELSE IF gpga_double_is_zero(a) \/ gpga_double_is_zero(b) THEN gpga_double_nan
             ELSE gpga_double_inf(Xor(a, b))
      BY <1>2, <2>2 DEF gpga_double_mul
    <3> QED
      BY <1>1, <1>2, <2>2, <3>1, SpecialFacts
  <2> QED
    BY <2>1, <2>2
<1>5. gpga_double_is_nan(gpga_double_div(a, b)) <=>
          \/ gpga_double_is_nan(a) \/ gpga_double_is_nan(b)
          \/ gpga_double_is_inf(a) /\ gpga_double_is_inf(b)
          \/ gpga_double_is_zero(a) /\ gpga_double_is_zero(b)
  <2>1. CASE Finite(a) /\ Finite(b) /\ ~gpga_double_is_zero(b)
    <3>1. Sig(b) # 0
      BY <2>1, UnitsOf
    <3>2. ~gpga_double_is_nan(gpga_double_div(a, b))
      BY <2>1, <3>1, QuotientIs
    <3> QED
      BY <1>2, <2>1, <3>2
  <2>2. CASE ~(Finite(a) /\ Finite(b) /\ ~gpga_double_is_zero(b))
    <3>1. gpga_double_div(a, b) =
             IF gpga_double_is_nan(a) \/ gpga_double_is_nan(b) THEN gpga_double_nan
             ELSE IF gpga_double_is_zero(b)
             THEN IF gpga_double_is_zero(a) THEN gpga_double_nan ELSE gpga_double_inf(Xor(a, b))
             ELSE IF gpga_double_is_zero(a) THEN gpga_double_zero(Xor(a, b))
             ELSE IF gpga_double_is_inf(a)
             THEN IF gpga_double_is_inf(b) THEN gpga_double_nan ELSE gpga_double_inf(Xor(a, b))
             ELSE gpga_double_zero(Xor(a, b))
      BY <1>2, <2>2 DEF gpga_double_div
    <3> QED
      BY <1>1, <1>2, <2>2, <3>1, SpecialFacts
  <2> QED
    BY <2>1, <2>2
<1> QED
  BY <1>3, <1>4, <1>5

\* A call of the real library: its arguments, and its answer when there is one.
RealCall ==
    \/ call.op \in RealUnary /\ call.a \in Double
    \/ call.op \in RealBinary /\ call.a \in Double /\ call.b \in Double
    \/ call.op = "from_s64" /\ call.a \in Integer
    \/ call.op = "ldexp" /\ call.a \in Double /\ call.b \in Int

RealCallInv ==
    call.lib = "real" =>
        /\ RealCall
        /\ answer = <<>> \/ answer = <<RealAnswer(call.op, call.a, call.b)>>

LEMMA RealCallInvHolds == Spec => []RealCallInv
<1>1. Init => RealCallInv
  <2> SUFFICES ASSUME Init, call.lib = "real" PROVE RealCallInv
    BY DEF RealCallInv
  <2>1. ~\E w \in FsWidths : call \in Calls(w)
    BY DEF Calls
  <2>2. ~\E w \in WideWidths : \/ Call("wide", WideUnary, Wide(w), WideWidths, w)
                               \/ Call("wide", WideBinary, Wide(w), Wide(w), w)
    BY DEF Call
  <2>3. \/ Call("real", RealUnary, Double, {0}, 0)
        \/ Call("real", RealBinary, Operand, Operand, 0)
        \/ Call("real", {"from_s64"}, Integer, {0}, 0)
        \/ Call("real", {"ldexp"}, Double, Scales, 0)
    BY <2>1, <2>2 DEF Init
  <2>4. RealCall
    <3>1. CASE Call("real", RealUnary, Double, {0}, 0)
      BY <3>1 DEF RealCall, Call
    <3>2. CASE Call("real", RealBinary, Operand, Operand, 0)
      BY <3>2 DEF RealCall, Call, Operand
    <3>3. CASE Call("real", {"from_s64"}, Integer, {0}, 0)
      BY <3>3 DEF RealCall, Call
    <3>4. CASE Call("real", {"ldexp"}, Double, Scales, 0)
      BY <3>4, ScalesAssumption DEF RealCall, Call
    <3> QED
      BY <2>3, <3>1, <3>2, <3>3, <3>4
  <2> QED
    BY <2>4 DEF RealCallInv, Init
<1>2. RealCallInv /\ [Next]_vars => RealCallInv'
  <2> SUFFICES ASSUME RealCallInv, [Next]_vars PROVE RealCallInv'
    OBVIOUS
  <2>1. call' = call /\ (call.lib = "real" =>
           answer' = answer \/ answer' = <<RealAnswer(call.op, call.a, call.b)>>)
    <3>1. CASE FsReturns
      BY <3>1 DEF FsReturns, Return
    <3>2. CASE WideReturns
      BY <3>2 DEF WideReturns, Return
    <3>3. CASE RealReturns
      BY <3>3 DEF RealReturns, Return
    <3>4. CASE UNCHANGED vars
      BY <3>4 DEF vars
    <3> QED
      BY <3>1, <3>2, <3>3, <3>4 DEF Next, Answered
  <2> QED
    BY <2>1 DEF RealCallInv, RealCall
<1> QED
  BY <1>1, <1>2, PTL DEF Spec

\* For every number of fraction and exponent bits, a sum, difference, product or quotient
\* in the range of normal numbers is the correctly rounded one: alignment, the sticky
\* bits, cancellation, carries and the step to the next exponent lose nothing that
\* rounding needs; signs, zeros and NaN are those of IEEE 754 (gpga_double_add, _sub,
\* _mul, _div and gpga_double_round_pack in gpga_real.h).
THEOREM RealOperatorsAreRounded == Spec => []RealRounded
<1>1. RealCallInv => RealRounded
  <2> SUFFICES ASSUME RealCallInv, answer # <<>>, call.lib = "real",
                      call.op \in {"add", "sub", "mul", "div"}
        PROVE RealRounded
    BY DEF RealRounded, AnswerOf
  <2> DEFINE op == call.op  a == call.a
             b == IF op = "sub" THEN gpga_double_neg(call.b) ELSE call.b
             sum == Value(a) + Value(b)
             unit == FractionBits - MinExponent
             down == Place(a) + Place(b) - unit
             over == Place(a) - Place(b) + unit
             sign == Xor(a, b)
  <2>1. a \in Double /\ call.b \in Double
    BY DEF RealCallInv, RealCall, RealUnary, RealBinary
  <2>2. b \in Double
    BY <2>1 DEF gpga_double_neg, Double
  <2>3. Result = IF op = "mul" THEN gpga_double_mul(a, b)
                 ELSE IF op = "div" THEN gpga_double_div(a, b) ELSE gpga_double_add(a, b)
    <3>1. Result = RealAnswer(op, a, call.b)
      BY DEF RealCallInv, Result
    <3> QED
      BY <3>1 DEF RealAnswer, gpga_double_sub
  <2>4. op \in {"add", "sub", "mul", "div"}
    OBVIOUS
  <2> HIDE DEF op, a, b, sign, sum, down, over, unit
  <2>5. op \in {"add", "sub"} /\ Finite(a) /\ Finite(b) =>
          /\ Absolute(sum) >= Hidden => Nearest(Result, Absolute(sum), 1, 0)
          /\ sum # 0 => Result.sign = (IF sum < 0 THEN 1 ELSE 0)
          /\ sum = 0 => gpga_double_is_zero(Result)
    <3> SUFFICES ASSUME op \in {"add", "sub"}, Finite(a), Finite(b)
          PROVE  /\ Absolute(sum) >= Hidden => Nearest(Result, Absolute(sum), 1, 0)
                 /\ sum # 0 => Result.sign = (IF sum < 0 THEN 1 ELSE 0)
                 /\ sum = 0 => gpga_double_is_zero(Result)
      OBVIOUS
    <3>1. Result = gpga_double_add(a, b)
      BY <2>3
    <3>2. SumRight(Result, sum)
      BY <2>1, <2>2, <3>1, SumIs DEF sum
    <3>3. sum \in Int
      <4>1. Value(a) \in Int /\ Value(b) \in Int
        BY <2>1, <2>2, ValueIs
      <4> QED
        BY <4>1 DEF sum
    <3>4. ASSUME Absolute(sum) >= Hidden PROVE Nearest(Result, Absolute(sum), 1, 0)
      <4> DEFINE n == Absolute(sum)
      <4>1. n \in Nat
        BY <3>3 DEF Absolute
      <4>2. Result \in Double /\ IsNearest(Result, n, 1)
        BY <3>2, <3>4 DEF SumRight
      <4>3. Scaled(n, 0) = n /\ Scaled(1, -0) = 1
        <5> HIDE DEF n
        <5>1. 2^0 = 1
          BY TwoTimes
        <5> QED
          BY <4>1, <5>1 DEF Scaled
      <4> HIDE DEF n
      <4>4. Nearest(Result, n, 1, 0)
        BY <4>1, <4>2, <4>3, NearestMeans
      <4> QED
        BY <4>4 DEF n
    <3> QED
      BY <3>2, <3>4 DEF SumRight
  <2>6. op = "mul" /\ Finite(a) /\ Finite(b) =>
          /\ IsNormal(Sig(a) * Sig(b), 1, down) => Nearest(Result, Sig(a) * Sig(b), 1, down)
          /\ Result.sign = sign
    <3> SUFFICES ASSUME op = "mul", Finite(a), Finite(b)
          PROVE  /\ IsNormal(Sig(a) * Sig(b), 1, down) => Nearest(Result, Sig(a) * Sig(b), 1, down)
                 /\ Result.sign = sign
      OBVIOUS
    <3>1. Result = gpga_double_mul(a, b)
      BY <2>3
    <3> DEFINE n == Sig(a) * Sig(b)
    <3>2. /\ Result \in Double /\ Result.sign = sign
          /\ IsNormal(n, 1, down) => IsNearest(Result, Scaled(n, down), Scaled(1, -down))
      BY <2>1, <2>2, <3>1, ProductIs DEF down, unit, sign
    <3>3. n \in Nat /\ down \in Int
      <4>1. Sig(a) \in Nat /\ Sig(b) \in Nat /\ Place(a) \in Nat /\ Place(b) \in Nat
        BY <2>1, <2>2, UnitsOf
      <4> QED
        BY <4>1, FormatFacts DEF down, unit
    <3> HIDE DEF n
    <3>4. IsNormal(n, 1, down) => Nearest(Result, n, 1, down)
      BY <3>2, <3>3, NearestMeans
    <3> QED
      BY <3>2, <3>4 DEF n
  <2>7. op = "div" /\ Finite(a) /\ Finite(b) /\ Sig(b) # 0 =>
          /\ IsNormal(Sig(a), Sig(b), over) => Nearest(Result, Sig(a), Sig(b), over)
          /\ Result.sign = sign
    <3> SUFFICES ASSUME op = "div", Finite(a), Finite(b), Sig(b) # 0
          PROVE  /\ IsNormal(Sig(a), Sig(b), over) => Nearest(Result, Sig(a), Sig(b), over)
                 /\ Result.sign = sign
      OBVIOUS
    <3>1. Result = gpga_double_div(a, b)
      BY <2>3
    <3>2. /\ Result \in Double /\ Result.sign = sign
          /\ IsNormal(Sig(a), Sig(b), over)
                => IsNearest(Result, Scaled(Sig(a), over), Scaled(Sig(b), -over))
      BY <2>1, <2>2, <3>1, QuotientIs DEF over, unit, sign
    <3> DEFINE n == Sig(a)  m == Sig(b)
    <3>3. n \in Nat /\ m \in Nat /\ over \in Int
      <4>1. n \in Nat /\ m \in Nat /\ Place(a) \in Nat /\ Place(b) \in Nat
        BY <2>1, <2>2, UnitsOf
      <4> QED
        BY <4>1, FormatFacts DEF over, unit
    <3>4. IsNormal(n, m, over) => IsNearest(Result, Scaled(n, over), Scaled(m, -over))
      BY <3>2
    <3> HIDE DEF n, m
    <3>5. IsNormal(n, m, over) => Nearest(Result, n, m, over)
      BY <3>2, <3>3, <3>4, NearestMeans
    <3> QED
      BY <3>2, <3>5 DEF n, m
  <2>8. gpga_double_is_nan(Result) <=>
          \/ gpga_double_is_nan(a) \/ gpga_double_is_nan(b)
          \/ /\ op \in {"add", "sub"}
             /\ gpga_double_is_inf(a) /\ gpga_double_is_inf(b) /\ a.sign # b.sign
          \/ /\ op = "mul"
             /\ \/ gpga_double_is_inf(a) /\ gpga_double_is_zero(b)
                \/ gpga_double_is_zero(a) /\ gpga_double_is_inf(b)
          \/ /\ op = "div"
             /\ \/ gpga_double_is_inf(a) /\ gpga_double_is_inf(b)
                \/ gpga_double_is_zero(a) /\ gpga_double_is_zero(b)
    <3>1. CASE op \in {"add", "sub"}
      BY <2>1, <2>2, <2>3, <3>1, NaNsAre
    <3>2. CASE op = "mul"
      BY <2>1, <2>2, <2>3, <3>2, NaNsAre
    <3>3. CASE op = "div"
      BY <2>1, <2>2, <2>3, <3>3, NaNsAre
    <3> QED
      BY <2>4, <3>1, <3>2, <3>3
  <2> QED
    BY <2>5, <2>6, <2>7, <2>8 DEF RealRounded, AnswerOf, op, a, b, sum, unit, down, over, sign
<1> QED
  BY <1>1, RealCallInvHolds, PTL

-----------------------------------------------------------------------------
(* Integers.                                                               *)

\* A remainder compared with half the divisor rounds to the nearest, ties to even.
LEMMA HalfEvenIs ==
  ASSUME NEW n \in Nat, NEW h \in Nat, h > 0
  PROVE  LET c == n \div (2 * h)
             r == n % (2 * h)
             s == IF r > h \/ (r = h /\ Odd(c)) THEN c + 1 ELSE c
         IN  c \in Nat /\ r \in Nat /\ n = (2 * h) * c + r /\ s \in {c, c + 1} /\ RoundsTo(s, n, 2 * h)
<1> DEFINE p == 2 * h  c == n \div p  r == n % p
           s == IF r > h \/ (r = h /\ Odd(c)) THEN c + 1 ELSE c
<1>1. p \in Nat /\ p > 0
  OBVIOUS
<1>2. c \in Int /\ r \in Nat /\ r < p /\ n = p * c + r
  <2> HIDE DEF p
  <2> QED
    BY <1>1, DivisionBy
<1>3. c \in Nat
  <2> SUFFICES ASSUME c < 0 PROVE FALSE
    BY <1>2
  <2> HIDE DEF p, c, r
  <2>1. p * c <= p * (-1)
    BY <1>1, <1>2
  <2> QED
    BY <1>1, <1>2, <2>1
<1>4. s \in {c, c + 1} /\ (Odd(c) => (c + 1) % 2 = 0) /\ (~Odd(c) => c % 2 = 0)
  <2> HIDE DEF c, r
  <2> QED
    BY <1>3 DEF Odd
<1> HIDE DEF c, r
<1> DEFINE x == c * h
<1>5. /\ x \in Nat /\ 2 * n = 4 * x + 2 * r
      /\ (2 * c - 1) * p = 4 * x - 2 * h /\ (2 * c + 1) * p = 4 * x + 2 * h
      /\ (2 * (c + 1) - 1) * p = 4 * x + 2 * h /\ (2 * (c + 1) + 1) * p = 4 * x + 6 * h
  BY <1>2, <1>3
<1> HIDE DEF x, p
<1>6. CASE r > h \/ (r = h /\ Odd(c))
  <2>1. s = c + 1
    BY <1>6
  <2>2. 4 * x + 2 * h <= 2 * n /\ 2 * n < 4 * x + 6 * h /\ (2 * n = 4 * x + 2 * h => r = h)
    BY <1>2, <1>5, <1>6 DEF p
  <2>3. 2 * n = 4 * x + 2 * h => s % 2 = 0
    BY <1>4, <1>6, <2>1, <2>2
  <2>4. RoundsTo(s, n, p)
    BY <1>5, <2>1, <2>2, <2>3 DEF RoundsTo
  <2> QED
    BY <1>2, <1>3, <1>4, <2>4 DEF p, c, r
<1>7. CASE ~(r > h \/ (r = h /\ Odd(c)))
  <2>1. s = c
    BY <1>7
  <2>2. 4 * x - 2 * h < 2 * n /\ 2 * n <= 4 * x + 2 * h /\ (2 * n = 4 * x + 2 * h => r = h)
    BY <1>2, <1>5, <1>7 DEF p
  <2>3. 2 * n = 4 * x + 2 * h => s % 2 = 0
    BY <1>4, <1>7, <2>1, <2>2
  <2>4. RoundsTo(s, n, p)
    BY <1>5, <2>1, <2>2, <2>3 DEF RoundsTo
  <2> QED
    BY <1>2, <1>3, <1>4, <2>4 DEF p, c, r
<1> QED
  BY <1>6, <1>7

\* Every number has a leading bit.
LEMMA LeadingPlace ==
  ASSUME NEW K \in Nat, NEW m \in Nat, m > 0, m < 2 * 2^K
  PROVE  \E n \in 0..K : 2^n <= m /\ m < 2^(n + 1)
<1>1. PICK u \in 0..K : m * 2^u \in 2^K..(2 * 2^K - 1)
  BY LeadingBit
<1> DEFINE n == K - u  N == 2^n  U == 2^u
<1>2. n \in 0..K /\ n \in Nat /\ u \in Nat /\ n + u = K
  OBVIOUS
<1>3. 2^(n + u) = N * U /\ N \in Nat /\ U \in Nat /\ U > 0
  <2> HIDE DEF n
  <2> QED
    BY <1>2, TwoSum, TwoPositive
<1>4. 2^K = N * U
  BY <1>2, <1>3
<1>5. N * U <= m * U /\ m * U < 2 * (N * U)
  <2>1. 2^K \in Nat
    BY TwoTimes
  <2> HIDE DEF N, U
  <2> QED
    BY <1>1, <1>3, <1>4, <2>1 DEF U
<1> HIDE DEF N, U
<1>6. N <= m
  BY <1>3, <1>5, Cancel
<1>7. m < 2 * N
  <2>1. (2 * N) * U = 2 * (N * U) /\ 2 * N \in Int
    BY <1>3
  <2> QED
    BY <1>3, <1>5, <2>1, Cancel
<1>8. 2^(n + 1) = 2 * N
  BY <1>2, TwoTimes DEF N
<1> QED
  BY <1>2, <1>6, <1>7, <1>8 DEF N

\* One, in units.
LEMMA OneFacts ==
  /\ OneUnit = Hidden * 2^(Bias - 1) /\ OneUnit \in Nat /\ OneUnit >= 4 * Hidden
  /\ 2^(Bias - 1) \in Nat /\ 2^(Bias - 1) >= 4 /\ Bias - 1 \in Nat
  /\ OneUnit = 2 * (Hidden * 2^(Bias - 2)) /\ 2^(Bias - 2) \in Nat /\ Bias - 2 \in Nat
  /\ FractionBits - MinExponent \in Nat /\ FractionBits - MinExponent > 0
  /\ OneUnit = 2^(FractionBits - MinExponent)
<1> DEFINE H == Hidden  F == FractionBits  B == Bias
<1>1. /\ H \in Nat /\ H >= 8 /\ H = 2^F /\ F \in Nat /\ F >= 3 /\ B \in Nat /\ B >= 3
      /\ MinExponent = 1 - B
  BY FormatFacts
<1>2. B - 1 \in Nat /\ B - 2 \in Nat /\ (B - 2) + 1 = B - 1 /\ F - MinExponent = F + (B - 1)
      /\ F - MinExponent > 0 /\ 2 <= B - 1 /\ 2 \in Nat /\ F - MinExponent \in Nat
  BY <1>1
<1>3. 2^(F + (B - 1)) = H * 2^(B - 1)
  BY <1>1, <1>2, TwoSum
<1>4. 2^(B - 1) = 2 * 2^(B - 2) /\ 2^(B - 1) \in Nat /\ 2^(B - 2) \in Nat
  BY <1>2, TwoTimes
<1>5. 2^(B - 1) >= 4
  <2>1. 2^2 <= 2^(B - 1)
    BY <1>2, TwoGrows
  <2>2. 2^(0 + 1) = 2 * 2^0 /\ 2^(1 + 1) = 2 * 2^1 /\ 2^0 = 1
    BY TwoTimes
  <2> QED
    BY <1>4, <2>1, <2>2
<1>6. OneUnit = H * 2^(B - 1) /\ OneUnit = 2^(F - MinExponent)
  BY <1>2, <1>3 DEF OneUnit
<1> DEFINE x == 2^(B - 1)  y == 2^(B - 2)
<1>7. x \in Nat /\ x >= 4 /\ y \in Nat /\ x = 2 * y /\ OneUnit = H * x
  BY <1>4, <1>5, <1>6
<1> HIDE DEF x, y, H
<1>8. OneUnit \in Nat /\ OneUnit >= 4 * H /\ OneUnit = 2 * (H * y)
  <2>1. H * x \in Nat /\ H * x >= H * 4 /\ H * x = 2 * (H * y)
    BY <1>1, <1>7
  <2> QED
    BY <1>1, <1>7, <2>1
<1> QED
  BY <1>1, <1>2, <1>6, <1>7, <1>8 DEF x, y, H

\* The double nearest to a number that some double stands for is that double.
LEMMA NearestExact ==
  ASSUME NEW d \in Double, NEW x \in Double, Finite(x), IsNearest(d, Units(Magnitude(x)), 1)
  PROVE  Magnitude(d) = Magnitude(x)
<1> DEFINE n == Magnitude(d)  m == Magnitude(x)  t == Units(m)
<1>1. n \in Nat /\ n <= Infinite /\ m \in Nat /\ m < Infinite /\ Infinite \in Nat
  BY DoubleFacts, FormatFacts DEF IsNearest
<1> HIDE DEF n, m
<1>2. \A k \in Nat : Units(k) \in Nat /\ Away(k, t, 1) = Absolute(Units(k) - t)
  <2> SUFFICES ASSUME NEW k \in Nat PROVE Units(k) \in Nat /\ Away(k, t, 1) = Absolute(Units(k) - t)
    OBVIOUS
  <2>1. Units(k) \in Nat
    BY UnitsOrder
  <2> QED
    BY <2>1 DEF Away
<1>3. t \in Nat
  BY <1>1, UnitsOrder
<1>4. \A k \in {n - 1, n + 1} \cap 0..Infinite : Away(n, t, 1) <= Away(k, t, 1)
  <2> SUFFICES ASSUME NEW k \in {n - 1, n + 1} \cap 0..Infinite PROVE Away(n, t, 1) <= Away(k, t, 1)
    OBVIOUS
  <2>1. Away(n, t, 1) < Away(k, t, 1) \/ Away(n, t, 1) = Away(k, t, 1)
    BY DEF IsNearest, n, m
  <2>2. k \in Nat /\ Units(k) \in Nat /\ Units(n) \in Nat
    BY <1>1, UnitsOrder
  <2>3. Away(n, t, 1) \in Int /\ Away(k, t, 1) \in Int
    BY <1>1, <1>2, <1>3, <2>2 DEF Absolute
  <2> QED
    BY <2>1, <2>3
<1>5. CASE n < m
  <2>1. n + 1 \in {n - 1, n + 1} \cap 0..Infinite /\ n + 1 <= m /\ n + 1 \in Nat
    BY <1>1, <1>5
  <2>2. Units(n) < Units(n + 1) /\ Units(n + 1) <= t /\ Units(n) \in Nat /\ Units(n + 1) \in Nat
    <3>1. Units(n) < Units(n + 1) /\ Units(n) \in Nat /\ Units(n + 1) \in Nat
      BY <1>1, <2>1, UnitsNext
    <3>2. ~(m < n + 1) /\ (m < n + 1 <=> t < Units(n + 1))
      BY <1>1, <2>1, UnitsOrder
    <3> QED
      BY <1>3, <3>1, <3>2
  <2>3. Away(n, t, 1) = Absolute(Units(n) - t) /\ Away(n + 1, t, 1) = Absolute(Units(n + 1) - t)
        /\ Away(n, t, 1) <= Away(n + 1, t, 1)
    BY <1>1, <1>2, <1>4, <2>1
  <2> HIDE DEF t
  <2> QED
    BY <1>3, <2>2, <2>3 DEF Absolute
<1>6. CASE n > m
  <2>1. n - 1 \in {n - 1, n + 1} \cap 0..Infinite /\ m <= n - 1 /\ n - 1 \in Nat
    BY <1>1, <1>6
  <2>2. Units(n - 1) < Units(n) /\ t <= Units(n - 1) /\ Units(n) \in Nat /\ Units(n - 1) \in Nat
    <3> DEFINE k == n - 1
    <3>1. k \in Nat /\ k + 1 = n
      BY <1>1, <2>1
    <3> HIDE DEF k
    <3>2. Units(k) < Units(k + 1) /\ Units(k) \in Nat /\ Units(k + 1) \in Nat
      <4>1. k + 1 \in Nat
        BY <3>1
      <4> QED
        BY <3>1, <4>1, UnitsNext
    <3>3. ~(k < m) /\ (k < m <=> Units(k) < t)
      BY <1>1, <2>1, <3>1, UnitsOrder DEF k
    <3> QED
      BY <1>3, <3>1, <3>2, <3>3 DEF k
  <2>3. Away(n, t, 1) = Absolute(Units(n) - t) /\ Away(n - 1, t, 1) = Absolute(Units(n - 1) - t)
        /\ Away(n, t, 1) <= Away(n - 1, t, 1)
    BY <1>1, <1>2, <1>4, <2>1
  <2> HIDE DEF t
  <2> QED
    BY <1>3, <2>2, <2>3 DEF Absolute
<1> QED
  BY <1>1, <1>5, <1>6 DEF n, m

\* An unsigned integer becomes the nearest double; one that fits a significand, its own.
LEMMA FromU64Is ==
  ASSUME NEW value \in Nat, value < 2 * 2^IntegerBits
  PROVE  LET d == gpga_double_from_u64(value)
         IN  /\ d \in Double /\ d.sign = 0 /\ IsNearest(d, value * OneUnit, 1)
             /\ value < 2 * Hidden => Finite(d) /\ Units(Magnitude(d)) = value * OneUnit
<1> DEFINE H == Hidden  F == FractionBits  B == Bias  d == gpga_double_from_u64(value)
           t == value * OneUnit
<1>1. /\ H \in Nat /\ H >= 8 /\ H = 2^F /\ H % 2 = 0 /\ F \in Nat /\ F >= 3
      /\ B \in Nat /\ B >= 3 /\ B >= F /\ MaxExp = 2 * B + 1
  BY FormatFacts
<1>2. OneUnit = H * 2^(B - 1) /\ OneUnit \in Nat /\ OneUnit > 0 /\ 2^(B - 1) \in Nat /\ B - 1 \in Nat
  BY <1>1, OneFacts
<1>3. t \in Nat
  BY <1>2
<1>4. SUFFICES /\ d \in Double /\ d.sign = 0
               /\ value < 2 * H => Finite(d) /\ Units(Magnitude(d)) = t
               /\ IsNearest(d, t, 1) \/ (~gpga_double_is_nan(d) /\ Units(Magnitude(d)) = t)
  <2> HIDE DEF d, t
  <2> SUFFICES ASSUME d \in Double, ~gpga_double_is_nan(d), Units(Magnitude(d)) = t
               PROVE  IsNearest(d, t, 1)
    BY DEF d, t
  <2>1. t = Units(Magnitude(d)) * 1
    BY <1>3
  <2> QED
    BY <1>3, <2>1, ExactIsNearest
<1>5. CASE value = 0
  <2>1. d = gpga_double_zero(0)
    BY <1>5 DEF gpga_double_from_u64
  <2>2. gpga_double_zero(0) \in Double /\ gpga_double_zero(0).sign = 0
        /\ Magnitude(gpga_double_zero(0)) = 0
    BY ZeroAndInf
  <2>3. Units(0) = 0 /\ t = 0
    BY <1>1, <1>2, <1>5, UnitsLow
  <2>4. Finite(d) /\ ~gpga_double_is_nan(d)
    BY <2>1, <2>2, DoubleFacts, FormatFacts
  <2> QED
    BY <2>1, <2>2, <2>3, <2>4
<1>6. CASE value > 0
  <2> DEFINE msb == CHOOSE n \in 0..IntegerBits : 2^n <= value /\ value < 2^(n + 1)
  <2>1. msb \in 0..IntegerBits /\ 2^msb <= value /\ value < 2^(msb + 1)
    <3>1. \E n \in 0..IntegerBits : 2^n <= value /\ value < 2^(n + 1)
      BY <1>6, LeadingPlace, RealAssumption
    <3> QED
      BY <3>1
  <2>2. msb \in Nat /\ 2^msb \in Nat /\ 2^(msb + 1) = 2 * 2^msb
    <3>1. msb \in Nat
      BY <2>1, RealAssumption
    <3> HIDE DEF msb
    <3> QED
      BY <3>1, TwoTimes
  <2> DEFINE g == msb + B - 1  M == 2^msb
  <2>3. g \in Nat /\ 2^g = M * 2^(B - 1)
    <3> HIDE DEF msb
    <3>1. g \in Nat /\ g = msb + (B - 1)
      BY <1>1, <2>2
    <3> QED
      BY <1>2, <2>2, <3>1, TwoSum
  <2>4. CASE msb <= F
    <3> DEFINE c == 2^(F - msb)  w == value * c
    <3>1. d = gpga_double_pack(0, msb + B, w)
      BY <1>6, <2>4 DEF gpga_double_from_u64
    <3> HIDE DEF msb, d
    <3>2. F - msb \in Nat /\ c \in Nat /\ c > 0 /\ M * c = H
      <4>1. F - msb \in Nat /\ msb + (F - msb) = F
        BY <1>1, <2>2, <2>4
      <4>2. 2^(msb + (F - msb)) = 2^msb * 2^(F - msb)
        BY <2>2, <4>1, TwoSum
      <4> QED
        BY <1>1, <4>1, <4>2, TwoPositive
    <3> HIDE DEF c, M
    <3>3. w \in H..(2 * H - 1)
      <4>1. M \in Nat /\ M <= value /\ value < 2 * M
        BY <2>1, <2>2 DEF M
      <4>2. M * c <= value * c /\ value * c < (2 * M) * c
        BY <3>2, <4>1
      <4>3. (2 * M) * c = 2 * (M * c) /\ value * c \in Nat
        BY <3>2, <4>1
      <4> QED
        BY <1>1, <3>2, <4>2, <4>3
    <3> HIDE DEF w
    <3>4. msb + B \in 0..MaxExp /\ msb + B # MaxExp
      BY <1>1, <2>2, <2>4
    <3>5. d \in Double /\ d.sign = 0 /\ d.exp = msb + B /\ Magnitude(d) = (msb + B) * H + (w % H)
      <4>1. w \in Nat
        BY <1>1, <3>3
      <4> QED
        BY <3>1, <3>4, <4>1, PackIs
    <3>6. Magnitude(d) = g * H + w
      <4>1. w % H = w - H
        BY <1>1, <3>3
      <4>2. (msb + B) * H = g * H + H
        BY <1>1, <2>2
      <4>3. g * H \in Nat
        BY <1>1, <2>3
      <4> QED
        BY <1>1, <3>3, <3>5, <4>1, <4>2, <4>3
    <3>7. Units(Magnitude(d)) = w * 2^g
      <4>1. w \in H..(2 * H)
        BY <1>1, <3>3
      <4> HIDE DEF g
      <4> QED
        BY <2>3, <3>6, <4>1, UnitsAt
    <3>8. w * 2^g = t
      <4> DEFINE x == 2^(B - 1)
      <4>1. w * 2^g = (value * c) * (M * x)
        BY <2>3 DEF w
      <4>2. t = value * (H * x) /\ x \in Nat /\ M \in Nat
        BY <1>2, <2>2 DEF M
      <4> HIDE DEF x
      <4>3. (value * c) * (M * x) = value * ((M * c) * x)
        BY <3>2, <4>2
      <4> QED
        BY <3>2, <4>1, <4>2, <4>3
    <3>9. Finite(d) /\ ~gpga_double_is_nan(d)
      BY <3>4, <3>5 DEF Finite, gpga_double_is_nan
    <3> QED
      BY <3>5, <3>7, <3>8, <3>9
  <2>5. CASE msb > F
    <3> DEFINE shift == msb - F  P == 2^shift  h == 2^(shift - 1)
               c == value \div P  r == value % P  cut == c % H
               s == IF r > h \/ (r = h /\ Odd(c)) THEN c + 1 ELSE c
               mant == IF shift # 0 /\ (r > h \/ (r = h /\ Odd(cut))) THEN cut + 1 ELSE cut
               exp == IF mant = H THEN msb + 1 ELSE msb
    <3>1. d = IF exp > B THEN gpga_double_inf(0) ELSE gpga_double_pack(0, exp + B, mant)
      <4>1. ~(msb <= F) /\ value # 0
        BY <1>1, <1>6, <2>2, <2>5
      <4> QED
        BY <4>1 DEF gpga_double_from_u64
    <3> HIDE DEF msb, d
    <3>2. shift \in Nat /\ shift - 1 \in Nat /\ shift # 0 /\ (shift - 1) + 1 = shift /\ msb = F + shift
      BY <1>1, <2>2, <2>5
    <3>3. P = 2 * h /\ P \in Nat /\ P > 0 /\ h \in Nat /\ h > 0 /\ M = H * P
      <4>1. 2^(F + shift) = 2^F * 2^shift
        BY <1>1, <3>2, TwoSum
      <4>2. P = 2 * h
        <5>1. 2^((shift - 1) + 1) = 2 * 2^(shift - 1)
          BY <3>2, TwoTimes
        <5> QED
          BY <3>2, <5>1
      <4> QED
        BY <1>1, <3>2, <4>1, <4>2, TwoPositive
    <3> HIDE DEF P, h, shift, M
    <3>4. c \in Nat /\ r \in Nat /\ r < P /\ value = P * c + r /\ s \in {c, c + 1} /\ RoundsTo(s, value, P)
      <4>1. c \in Nat /\ r \in Nat /\ value = P * c + r /\ s \in {c, c + 1} /\ RoundsTo(s, value, P)
        <5>1. LET cc == value \div (2 * h)
                  rr == value % (2 * h)
                  ss == IF rr > h \/ (rr = h /\ Odd(cc)) THEN cc + 1 ELSE cc
              IN  cc \in Nat /\ rr \in Nat /\ value = (2 * h) * cc + rr /\ ss \in {cc, cc + 1}
                  /\ RoundsTo(ss, value, 2 * h)
          BY <3>3, HalfEvenIs
        <5> QED
          BY <3>3, <5>1
      <4>2. r < P
        BY <3>3, DivisionBy
      <4> QED
        BY <4>1, <4>2
    <3> HIDE DEF c, r
    <3>5. c \in H..(2 * H - 1)
      <4>1. H * P <= value /\ value < (2 * H) * P
        <5>1. M <= value /\ value < 2 * M /\ M \in Nat
          BY <2>1, <2>2 DEF M
        <5>2. 2 * (H * P) = (2 * H) * P
          BY <1>1, <3>3
        <5> QED
          BY <3>3, <5>1, <5>2
      <4>2. c * P <= value /\ value < (c + 1) * P
        <5>1. P * c = c * P /\ (c + 1) * P = c * P + P /\ c * P \in Nat
          BY <3>3, <3>4
        <5> QED
          BY <3>3, <3>4, <5>1
      <4>3. H * P < (c + 1) * P /\ c * P < (2 * H) * P
        <5>1. H * P \in Nat /\ (2 * H) * P \in Nat /\ c * P \in Nat /\ (c + 1) * P \in Nat
          BY <1>1, <3>3, <3>4
        <5> QED
          BY <4>1, <4>2, <5>1
      <4>4. H < c + 1
        BY <1>1, <3>3, <3>4, <4>3, Cancel
      <4>5. c < 2 * H
        <5>1. 2 * H \in Int /\ c \in Int
          BY <1>1, <3>4
        <5> QED
          BY <3>3, <4>3, <5>1, Cancel
      <4> QED
        BY <1>1, <3>4, <4>4, <4>5
    <3>6. cut = c - H /\ (Odd(cut) <=> Odd(c))
      BY <1>1, <3>5 DEF Odd
    <3>7. s \in H..(2 * H) /\ mant = s - H /\ (mant = H <=> s = 2 * H)
      BY <1>1, <3>2, <3>5, <3>6
    <3>8. d = Packed(0, msb, s)
      <4> HIDE DEF mant, s, cut
      <4>1. CASE mant = H
        <5>1. gpga_double_pack(0, msb + 1 + B, mant) = gpga_double_pack(0, msb + 1 + B, H)
          BY <4>1
        <5> QED
          BY <3>1, <3>7, <4>1, <5>1 DEF Packed
      <4>2. CASE mant # H
        <5>1. mant % H = mant /\ s % H = mant
          BY <1>1, <3>7, <4>2
        <5>2. gpga_double_pack(0, msb + B, mant) = gpga_double_pack(0, msb + B, s)
          BY <5>1 DEF gpga_double_pack
        <5> QED
          BY <3>1, <3>7, <4>2, <5>2 DEF Packed
      <4> QED
        BY <4>1, <4>2
    <3>9. d \in Double /\ d.sign = 0 /\ Magnitude(d) = Clamped(g * H + s)
      <4>1. msb >= 1 - B /\ msb \in Int
        BY <1>1, <2>2
      <4> HIDE DEF s
      <4> QED
        BY <3>7, <3>8, <4>1, PackedIs
    <3> DEFINE D == P * OneUnit
    <3>10. 2^g * 1 = D /\ D \in Nat /\ D > 0
      <4> DEFINE x == 2^(B - 1)
      <4>1. 2^g = (H * P) * x /\ OneUnit = H * x /\ x \in Nat
        BY <1>2, <2>3, <3>3
      <4> HIDE DEF x
      <4>2. (H * P) * x = P * (H * x) /\ (H * P) * x \in Nat
        BY <1>1, <3>3, <4>1
      <4>3. D > 0
        <5> HIDE DEF x, H
        <5> QED
          BY <1>2, <3>3
      <4> QED
        BY <4>1, <4>2, <4>3
    <3>11. RoundsTo(s, t, D)
      <4>1. value * D = t * P
        BY <1>2, <3>3
      <4>2. s \in Nat
        BY <1>1, <3>7
      <4> HIDE DEF s, t, D
      <4> QED
        BY <1>3, <3>3, <3>4, <3>10, <4>1, <4>2, RoundsAlike
    <3>12. H * D <= t
      <4>1. H * P <= value
        <5>1. M <= value
          BY <2>1 DEF M
        <5> QED
          BY <3>3, <5>1
      <4>2. H * P \in Nat
        BY <1>1, <3>3
      <4>3. (H * P) * OneUnit <= value * OneUnit
        BY <1>2, <4>1, <4>2
      <4>4. H * (P * OneUnit) = (H * P) * OneUnit
        BY <1>1, <1>2, <3>3
      <4> QED
        BY <4>3, <4>4
    <3>13. IsNearest(d, t, 1)
      <4> HIDE DEF s, t, D, g
      <4> QED
        BY <1>3, <2>3, <3>7, <3>9, <3>10, <3>11, <3>12, NearestIs
    <3>14. ~(value < 2 * H)
      <4>1. value >= H * P /\ P >= 2
        <5>1. M <= value
          BY <2>1 DEF M
        <5> QED
          BY <3>3, <5>1
      <4>2. H * P >= H * 2 /\ H * P \in Nat
        BY <1>1, <3>3, <4>1
      <4> QED
        BY <1>1, <4>1, <4>2
    <3> QED
      BY <3>9, <3>13, <3>14
  <2> QED
    BY <1>1, <2>2, <2>4, <2>5
<1> QED
  BY <1>5, <1>6

\* A signed integer becomes the nearest double, one that fits a significand its own.
LEMMA FromS64Is ==
  ASSUME NEW n \in Int, Absolute(n) < 2 * 2^IntegerBits
  PROVE  LET d == gpga_double_from_s64(n)
         IN  /\ d \in Double /\ IsNearest(d, Absolute(n) * OneUnit, 1)
             /\ n # 0 => d.sign = (IF n < 0 THEN 1 ELSE 0)
             /\ Absolute(n) < 2 * Hidden => Finite(d) /\ Value(d) = n * OneUnit
<1> DEFINE d == gpga_double_from_s64(n)  m == Absolute(n)  u == gpga_double_from_u64(m)
<1>1. m \in Nat /\ (n < 0 => m = -n) /\ (n >= 0 => m = n)
  BY DEF Absolute
<1>2. OneUnit \in Nat
  BY OneFacts
<1> HIDE DEF m
<1>3. /\ u \in Double /\ u.sign = 0 /\ IsNearest(u, m * OneUnit, 1)
      /\ m < 2 * Hidden => Finite(u) /\ Units(Magnitude(u)) = m * OneUnit
  BY <1>1, FromU64Is DEF m
<1>4. CASE n >= 0
  <2>1. d = u /\ m = n
    BY <1>1, <1>4 DEF gpga_double_from_s64
  <2>2. m < 2 * Hidden => Value(d) = n * OneUnit
    BY <1>3, <2>1 DEF Value
  <2> QED
    BY <1>1, <1>3, <1>4, <2>1, <2>2 DEF m
<1>5. CASE n < 0
  <2>1. d = [u EXCEPT !.sign = 1] /\ m = -n
    BY <1>1, <1>3, <1>5 DEF gpga_double_from_s64, gpga_double_neg
  <2>2. d \in Double /\ d.sign = 1 /\ d.mant = u.mant /\ d.exp = u.exp /\ Magnitude(d) = Magnitude(u)
    BY <1>3, <2>1 DEF Double, Magnitude
  <2>3. IsNearest(d, m * OneUnit, 1)
    BY <1>3, <2>2 DEF IsNearest, gpga_double_is_nan
  <2>4. m < 2 * Hidden => Finite(d) /\ Value(d) = -(m * OneUnit)
    BY <1>3, <2>2 DEF Value, Finite
  <2>5. -(m * OneUnit) = n * OneUnit
    BY <1>1, <1>2, <1>5, <2>1
  <2> QED
    BY <1>5, <2>2, <2>3, <2>4, <2>5 DEF m
<1> QED
  BY <1>4, <1>5

\* What the exponent says of a finite number: below a half, around it, or at least one
\* and then, in places of Y units, a significand s where one has P places.
LEMMA ExponentMeans ==
  ASSUME NEW d \in Double, Finite(d)
  PROVE  LET U == Units(Magnitude(d))
             s == Hidden + d.mant
             e == d.exp - Bias
         IN  /\ U \in Nat /\ s \in Hidden..(2 * Hidden - 1) /\ e \in Int
             /\ e < -1 => 2 * U < OneUnit
             /\ e = -1 => d.exp # 0 /\ U = s * 2^(Bias - 2)
             /\ e >= 0 => d.exp # 0 /\ OneUnit * 2^e <= U
             /\ e >= FractionBits => U = (s * 2^(e - FractionBits)) * OneUnit
             /\ e >= 0 /\ e < FractionBits =>
                   \E Y \in Nat : Y > 0 /\ OneUnit = 2^(FractionBits - e) * Y /\ U = s * Y
             /\ e >= 0 /\ Convertible(d) => e <= IntegerBits - 2
<1> DEFINE H == Hidden  F == FractionBits  B == Bias  U == Units(Magnitude(d))
           s == H + d.mant  e == d.exp - B  X == 2^(B - 1)  y == 2^(B - 2)
<1>1. /\ H \in Nat /\ H >= 8 /\ H = 2^F /\ F \in Nat /\ F >= 3 /\ B \in Nat /\ B >= 3
  BY FormatFacts
<1>2. /\ OneUnit = H * X /\ OneUnit \in Nat /\ OneUnit >= 4 * H /\ X \in Nat /\ X >= 4
      /\ OneUnit = 2 * (H * y) /\ y \in Nat /\ B - 2 \in Nat /\ B - 1 \in Nat
  BY OneFacts
<1>3. d.exp \in Nat /\ d.mant \in Nat /\ d.mant < H
  BY DoubleFacts
<1>4. s \in H..(2 * H - 1) /\ e \in Int
  BY <1>1, <1>3
<1>5. U \in Nat /\ U = Sig(d) * 2^Place(d)
  BY UnitsOf
<1>6. /\ d.exp # 0 => Sig(d) = s /\ Place(d) = d.exp - 1
      /\ d.exp = 0 => Sig(d) < H /\ Place(d) = 0 /\ Sig(d) \in Nat
  BY <1>3 DEF Sig, Place
<1> HIDE DEF U
<1>7. ASSUME e < -1 PROVE 2 * U < OneUnit
  <2>1. CASE d.exp = 0
    <3>1. 2^0 = 1
      BY TwoTimes
    <3>2. U < H
      BY <1>1, <1>5, <1>6, <2>1, <3>1
    <3> QED
      BY <1>1, <1>2, <1>5, <3>2
  <2>2. CASE d.exp # 0
    <3> DEFINE g == d.exp - 1  z == 2^g
    <3>1. g \in Nat /\ g + 1 \in Nat /\ g + 1 <= B - 2
      BY <1>1, <1>3, <1>7, <2>2
    <3> HIDE DEF g
    <3>2. 2^(g + 1) = 2 * z /\ z \in Nat /\ 2^(g + 1) <= y /\ z > 0
      BY <1>2, <3>1, TwoTimes, TwoGrows, TwoPositive
    <3>3. U = s * z
      BY <1>5, <1>6, <2>2 DEF g
    <3> HIDE DEF z, y
    <3>4. s * z < (2 * H) * z
      <4> HIDE DEF s
      <4> QED
        BY <1>1, <1>4, <3>2
    <3>5. (2 * H) * z = H * (2 * z) /\ H * (2 * z) <= H * y /\ H * y \in Nat
      BY <1>1, <1>2, <3>2
    <3>6. (2 * H) * z \in Nat
      BY <1>1, <3>2
    <3> QED
      BY <1>2, <1>5, <3>3, <3>4, <3>5, <3>6
  <2> QED
    BY <2>1, <2>2
<1>8. ASSUME e = -1 PROVE d.exp # 0 /\ U = s * y
  <2>1. d.exp # 0 /\ d.exp - 1 = B - 2
    BY <1>1, <1>3, <1>8
  <2> QED
    BY <1>5, <1>6, <2>1
<1>9. ASSUME e >= 0
      PROVE  d.exp # 0 /\ e \in Nat /\ 2^e \in Nat /\ 2^e > 0 /\ U = s * (2^e * X)
  <2>1. d.exp # 0 /\ e \in Nat /\ d.exp - 1 = e + (B - 1)
    BY <1>1, <1>3, <1>9
  <2> HIDE DEF e
  <2>2. 2^(e + (B - 1)) = 2^e * X
    BY <1>2, <2>1, TwoSum
  <2>3. 2^e \in Nat /\ 2^e > 0
    BY <2>1, TwoPositive
  <2> QED
    BY <1>5, <1>6, <2>1, <2>2, <2>3
<1>10. ASSUME e >= 0 PROVE OneUnit * 2^e <= U
  <2> DEFINE E == 2^e
  <2>1. E \in Nat /\ U = s * (E * X)
    BY <1>9, <1>10
  <2> HIDE DEF E, X, s
  <2>2. E * X \in Nat
    BY <1>2, <2>1
  <2>3. H * (E * X) <= s * (E * X)
    BY <1>1, <1>4, <2>2
  <2>4. (H * X) * E = H * (E * X)
    BY <1>1, <1>2, <2>1
  <2> QED
    BY <1>2, <2>1, <2>3, <2>4 DEF E
<1>11. ASSUME e >= F PROVE U = (s * 2^(e - F)) * OneUnit
  <2>1. e - F \in Nat /\ (e - F) + F = e /\ e >= 0
    BY <1>1, <1>4, <1>11
  <2>2. 2^((e - F) + F) = 2^(e - F) * 2^F /\ 2^(e - F) \in Nat
    BY <1>1, <2>1, TwoSum, TwoPositive
  <2> DEFINE Z == 2^(e - F)
  <2>3. 2^e = Z * H /\ Z \in Nat
    BY <1>1, <2>1, <2>2
  <2>4. U = s * (2^e * X)
    BY <1>9, <2>1
  <2> HIDE DEF Z, X, s, e
  <2>5. s * ((Z * H) * X) = (s * Z) * (H * X)
    BY <1>1, <1>2, <1>4, <2>3
  <2> QED
    BY <1>2, <2>3, <2>4, <2>5 DEF Z
<1>12. ASSUME e >= 0, e < F
       PROVE  \E Y \in Nat : Y > 0 /\ OneUnit = 2^(F - e) * Y /\ U = s * Y
  <2> DEFINE E == 2^e  Y == E * X  P == 2^(F - e)
  <2>1. E \in Nat /\ E > 0 /\ U = s * Y /\ e \in Nat
    BY <1>9, <1>12
  <2>2. F - e \in Nat /\ (F - e) + e = F
    BY <1>1, <1>12, <2>1
  <2>3. H = P * E /\ P \in Nat
    <3>1. 2^((F - e) + e) = 2^(F - e) * 2^e
      BY <2>1, <2>2, TwoSum
    <3> QED
      BY <1>1, <2>2, <3>1, TwoPositive
  <2> HIDE DEF P, E, X, e
  <2>4. OneUnit = P * Y
    <3>1. (P * E) * X = P * (E * X)
      BY <1>2, <2>1, <2>3
    <3> QED
      BY <1>2, <2>3, <3>1
  <2>5. Y \in Nat /\ Y > 0
    BY <1>2, <2>1
  <2> HIDE DEF Y
  <2> QED
    BY <2>1, <2>4, <2>5 DEF P
<1>13. ASSUME e >= 0, Convertible(d) PROVE e <= IntegerBits - 2
  <2>1. U < OneUnit * 2^(IntegerBits - 1)
    <3>1. Absolute(Value(d)) = U
      BY <1>5, DoubleFacts DEF Value, Absolute, U
    <3> QED
      BY <1>13, <3>1 DEF Convertible
  <2>2. SUFFICES ASSUME e >= IntegerBits - 1 PROVE FALSE
    BY <1>4, RealAssumption
  <2>3. IntegerBits - 1 \in Nat
    BY <1>1, RealAssumption
  <2>4. 2^(IntegerBits - 1) <= 2^e
    <3> HIDE DEF e
    <3> QED
      BY <1>9, <1>13, <2>2, <2>3, TwoGrows
  <2> DEFINE a == 2^(IntegerBits - 1)  b == 2^e
  <2>5. a \in Nat /\ b \in Nat /\ a <= b /\ U < OneUnit * a /\ OneUnit * b <= U
    BY <1>9, <1>10, <1>13, <2>1, <2>3, <2>4, TwoPositive
  <2> HIDE DEF a, b
  <2>6. OneUnit * a <= OneUnit * b /\ OneUnit * a \in Nat /\ OneUnit * b \in Nat
    BY <1>2, <2>5
  <2> QED
    BY <1>5, <2>5, <2>6
<1> QED
  BY <1>4, <1>5, <1>7, <1>8, <1>9, <1>10, <1>11, <1>12, <1>13 DEF U

LEMMA MinusZero == -0 = 0
<1>1. \A n \in Int : n + n = 0 => -n = n
  OBVIOUS
<1>2. 0 \in Int /\ 0 + 0 = 0
  OBVIOUS
<1> QED
  BY <1>1, <1>2, Zenon

LEMMA SignedZero ==
  ASSUME NEW d
  PROVE  Signed(d, 0) = 0
BY MinusZero, Zenon DEF Signed

\* The conversion that truncates drops the fraction of the magnitude.
LEMMA ToS64Is ==
  ASSUME NEW d \in Double, Convertible(d)
  PROVE  \E n \in Nat :
             /\ gpga_double_to_s64(d) = Signed(d, n)
             /\ n * OneUnit <= Units(Magnitude(d)) /\ Units(Magnitude(d)) < n * OneUnit + OneUnit
             /\ d.exp - Bias >= FractionBits => Units(Magnitude(d)) = n * OneUnit
             /\ d.exp - Bias < FractionBits => n < Hidden
             /\ n < 2^(IntegerBits - 1)
<1> DEFINE H == Hidden  F == FractionBits  B == Bias  U == Units(Magnitude(d))
           s == H + d.mant  e == d.exp - B
<1>1. /\ H \in Nat /\ H >= 8 /\ F \in Nat /\ F >= 3 /\ IntegerBits \in Nat /\ IntegerBits > F
  BY FormatFacts, RealAssumption
<1>2. OneUnit \in Nat /\ OneUnit >= 4 * H
  BY OneFacts
<1>3. Finite(d) /\ d.exp # MaxExp
  BY DEF Convertible, Finite
<1>4. /\ U \in Nat /\ s \in H..(2 * H - 1) /\ e \in Int
      /\ e < -1 => 2 * U < OneUnit
      /\ e = -1 => d.exp # 0 /\ U = s * 2^(Bias - 2)
      /\ e >= 0 => d.exp # 0 /\ OneUnit * 2^e <= U
      /\ e >= F => U = (s * 2^(e - F)) * OneUnit
      /\ e >= 0 /\ e < F => \E Y \in Nat : Y > 0 /\ OneUnit = 2^(F - e) * Y /\ U = s * Y
      /\ e >= 0 => e <= IntegerBits - 2
  BY <1>3, ExponentMeans
<1>5. U < OneUnit * 2^(IntegerBits - 1)
  <2>1. Absolute(Value(d)) = U
    BY <1>4, DoubleFacts DEF Value, Absolute
  <2> QED
    BY <2>1 DEF Convertible
<1>6. gpga_double_to_s64(d) =
         IF d.exp = 0 \/ e < 0 \/ e > IntegerBits - 2 THEN 0
         ELSE IF e >= F THEN Signed(d, s * 2^(e - F))
         ELSE Signed(d, s \div 2^(F - e))
  BY <1>3 DEF gpga_double_to_s64
<1> DEFINE v == gpga_double_to_s64(d)
<1> HIDE DEF U, s, e, v
<1>7. SUFFICES \E n \in Nat : /\ v = Signed(d, n)
                              /\ n * OneUnit <= U /\ U < n * OneUnit + OneUnit
                              /\ e >= F => U = n * OneUnit
                              /\ e < F => n < H
  <2> SUFFICES ASSUME NEW n \in Nat, n * OneUnit <= U PROVE n < 2^(IntegerBits - 1)
    BY DEF U, e, v
  <2> DEFINE a == 2^(IntegerBits - 1)
  <2>1. a \in Nat
    <3>1. IntegerBits - 1 \in Nat
      BY <1>1
    <3> QED
      BY <3>1, TwoPositive
  <2>2. U < OneUnit * a
    BY <1>5
  <2> HIDE DEF a
  <2>3. n * OneUnit \in Nat /\ OneUnit * a \in Nat /\ OneUnit * a = a * OneUnit
    BY <1>2, <2>1
  <2>4. n * OneUnit < a * OneUnit
    BY <1>4, <2>2, <2>3
  <2>5. n < a
    <3>1. OneUnit > 0
      BY <1>1, <1>2
    <3> QED
      BY <1>2, <2>1, <2>4, <3>1, Cancel
  <2> QED
    BY <2>5 DEF a
<1>8. CASE e < 0
  <2>1. v = Signed(d, 0)
    BY <1>6, <1>8, SignedZero DEF v
  <2>2. U < OneUnit
    <3>1. CASE e < -1
      BY <1>2, <1>4, <3>1
    <3>2. CASE e = -1
      <4> DEFINE y == 2^(B - 2)
      <4>1. OneUnit = 2 * (H * y) /\ y \in Nat /\ y > 0 /\ U = s * y
        BY <1>4, <3>2, OneFacts, TwoPositive
      <4> HIDE DEF y
      <4>2. s * y < (2 * H) * y
        BY <1>1, <1>4, <4>1
      <4>3. (2 * H) * y = 2 * (H * y)
        BY <1>1, <4>1
      <4> QED
        BY <4>1, <4>2, <4>3
    <3> QED
      BY <1>4, <1>8, <3>1, <3>2
  <2>3. 0 * OneUnit = 0
    BY <1>2
  <2> QED
    BY <1>1, <1>2, <1>4, <1>8, <2>1, <2>2, <2>3
<1>9. CASE e >= F
  <2> DEFINE n == s * 2^(e - F)
  <2>1. n \in Nat
    <3>1. e - F \in Nat
      BY <1>1, <1>4, <1>9
    <3>2. 2^(e - F) \in Nat
      BY <3>1, TwoPositive
    <3> QED
      BY <1>1, <1>4, <3>2
  <2>2. v = Signed(d, n)
    BY <1>1, <1>4, <1>6, <1>9 DEF v
  <2>3. U = n * OneUnit
    BY <1>4, <1>9
  <2> HIDE DEF n
  <2>4. n * OneUnit <= U /\ U < n * OneUnit + OneUnit
    BY <1>1, <1>2, <1>4, <2>3
  <2>5. ~(e < F)
    BY <1>1, <1>4, <1>9
  <2> QED
    BY <2>1, <2>2, <2>3, <2>4, <2>5
<1>10. CASE e >= 0 /\ e < F
  <2> DEFINE P == 2^(F - e)  n == s \div P  r == s % P
  <2>1. PICK Y \in Nat : Y > 0 /\ OneUnit = P * Y /\ U = s * Y
    BY <1>4, <1>10
  <2>2. F - e \in Nat /\ F - e - 1 \in Nat /\ (F - e - 1) + 1 = F - e
    BY <1>1, <1>4, <1>10
  <2>3. P \in Nat /\ P >= 2
    <3>1. 2^((F - e - 1) + 1) = 2 * 2^(F - e - 1) /\ 2^(F - e - 1) \in Nat /\ 2^(F - e - 1) > 0
      BY <2>2, TwoTimes, TwoPositive
    <3> QED
      BY <2>2, <3>1
  <2>4. v = Signed(d, n)
    BY <1>1, <1>4, <1>6, <1>10 DEF v
  <2> HIDE DEF P
  <2>5. n \in Int /\ r \in Nat /\ r < P /\ s = P * n + r
    BY <1>1, <1>4, <2>3, DivisionBy
  <2> HIDE DEF n, r
  <2>6. n \in Nat /\ n < H
    <3>1. n >= 0
      <4> SUFFICES ASSUME n < 0 PROVE FALSE
        BY <2>5
      <4>1. P * n <= P * (-1)
        BY <2>3, <2>5
      <4> QED
        BY <1>1, <1>4, <2>3, <2>5, <4>1
    <3>2. 2 * n <= P * n
      BY <2>3, <2>5, <3>1
    <3> QED
      BY <1>1, <1>4, <2>3, <2>5, <3>1, <3>2
  <2>7. n * OneUnit = (P * n) * Y /\ U = (P * n) * Y + r * Y /\ r * Y < P * Y /\ r * Y \in Nat
        /\ (P * n) * Y \in Nat
    BY <2>1, <2>3, <2>5, <2>6
  <2>8. n * OneUnit <= U /\ U < n * OneUnit + OneUnit
    BY <1>2, <1>4, <2>1, <2>7
  <2>9. ~(e >= F)
    BY <1>1, <1>4, <1>10
  <2> QED
    BY <2>4, <2>6, <2>8, <2>9
<1> QED
  BY <1>1, <1>4, <1>8, <1>9, <1>10

\* The conversion that rounds takes the nearest integer, the even one of two.
LEMMA RoundS64Is ==
  ASSUME NEW d \in Double, Convertible(d)
  PROVE  \E n \in Nat :
             /\ gpga_double_round_to_s64(d) = Signed(d, n)
             /\ LET off == 2 * Absolute(Units(Magnitude(d)) - n * OneUnit)
                IN  off < OneUnit \/ (off = OneUnit /\ n % 2 = 0)
<1> DEFINE H == Hidden  F == FractionBits  B == Bias  U == Units(Magnitude(d))
           s == H + d.mant  e == d.exp - B
<1>1. /\ H \in Nat /\ H >= 8 /\ F \in Nat /\ F >= 3 /\ IntegerBits \in Nat /\ IntegerBits > F
  BY FormatFacts, RealAssumption
<1>2. OneUnit \in Nat /\ OneUnit >= 4 * H
  BY OneFacts
<1>3. Finite(d) /\ d.exp # MaxExp
  BY DEF Convertible, Finite
<1>4. /\ U \in Nat /\ s \in H..(2 * H - 1) /\ e \in Int
      /\ e < -1 => 2 * U < OneUnit
      /\ e = -1 => d.exp # 0 /\ U = s * 2^(Bias - 2)
      /\ e >= 0 => d.exp # 0 /\ e <= IntegerBits - 2
      /\ e >= F => U = (s * 2^(e - F)) * OneUnit
      /\ e >= 0 /\ e < F => \E Y \in Nat : Y > 0 /\ OneUnit = 2^(F - e) * Y /\ U = s * Y
  BY <1>3, ExponentMeans
<1>5. U < OneUnit * 2^(IntegerBits - 1)
  <2>1. Absolute(Value(d)) = U
    BY <1>4, DoubleFacts DEF Value, Absolute
  <2> QED
    BY <2>1 DEF Convertible
<1> DEFINE v == gpga_double_round_to_s64(d)  P == 2^(F - e)  h == 2^(F - e - 1)
           c == s \div P  r == s % P
<1>6. v = IF d.exp = 0 \/ e < -1 THEN 0
          ELSE IF e = -1 THEN Signed(d, IF s > H THEN 1 ELSE 0)
          ELSE IF e >= F THEN Wrapped(Signed(d, s * 2^(e - F)))
          ELSE Signed(d, IF r > h \/ (r = h /\ Odd(c)) THEN c + 1 ELSE c)
  <2>1. ~(e - F >= IntegerBits)
    BY <1>1, <1>4
  <2> QED
    BY <1>3, <2>1 DEF gpga_double_round_to_s64
<1> HIDE DEF U, s, e, v
<1>7. SUFFICES \E n \in Nat : /\ v = Signed(d, n)
                              /\ LET off == 2 * Absolute(U - n * OneUnit)
                                 IN  off < OneUnit \/ (off = OneUnit /\ n % 2 = 0)
  BY DEF U, v
<1>8. CASE e < -1
  <2>1. v = Signed(d, 0)
    BY <1>6, <1>8, SignedZero
  <2>2. 2 * Absolute(U - 0 * OneUnit) < OneUnit
    BY <1>2, <1>4, <1>8 DEF Absolute
  <2> QED
    BY <2>1, <2>2
<1>9. CASE e = -1
  <2> DEFINE y == 2^(B - 2)
  <2>1. OneUnit = 2 * (H * y) /\ y \in Nat /\ y > 0 /\ U = s * y
    BY <1>4, <1>9, OneFacts, TwoPositive
  <2>2. v = Signed(d, IF s > H THEN 1 ELSE 0)
    BY <1>4, <1>6, <1>9
  <2> HIDE DEF y
  <2>3. CASE s > H
    <3>1. H * y < s * y /\ s * y < (2 * H) * y /\ (2 * H) * y = 2 * (H * y)
      BY <1>1, <1>4, <2>1, <2>3
    <3> DEFINE x == H * y  w == s * y
    <3>2. x \in Nat /\ w \in Nat /\ x < w /\ w < 2 * x /\ OneUnit = 2 * x /\ U = w
      BY <1>1, <1>4, <2>1, <3>1
    <3> HIDE DEF x, w
    <3>3. 2 * Absolute(U - 1 * OneUnit) < OneUnit
      BY <3>2 DEF Absolute
    <3> QED
      BY <2>2, <2>3, <3>3
  <2>4. CASE ~(s > H)
    <3>1. s = H
      BY <1>1, <1>4, <2>4
    <3> DEFINE x == H * y
    <3>2. x \in Nat /\ OneUnit = 2 * x /\ U = x
      BY <1>1, <2>1, <3>1
    <3> HIDE DEF x
    <3>3. 2 * Absolute(U - 0 * OneUnit) = OneUnit /\ 0 % 2 = 0
      BY <3>2 DEF Absolute
    <3> QED
      BY <2>2, <2>4, <3>3
  <2> QED
    BY <2>3, <2>4
<1>10. CASE e >= F
  <2> DEFINE n == s * 2^(e - F)  a == 2^(IntegerBits - 1)  W == 2^IntegerBits
  <2>1. n \in Nat
    <3>1. e - F \in Nat
      BY <1>1, <1>4, <1>10
    <3>2. 2^(e - F) \in Nat
      BY <3>1, TwoPositive
    <3> QED
      BY <1>1, <1>4, <3>2
  <2>2. v = Wrapped(Signed(d, n))
    BY <1>1, <1>4, <1>6, <1>10
  <2>3. U = n * OneUnit
    BY <1>4, <1>10
  <2>4. a \in Nat /\ a > 0 /\ W = 2 * a /\ W \in Nat
    <3>1. IntegerBits - 1 \in Nat /\ (IntegerBits - 1) + 1 = IntegerBits
      BY <1>1
    <3>2. 2^((IntegerBits - 1) + 1) = 2 * 2^(IntegerBits - 1) /\ 2^(IntegerBits - 1) \in Nat
          /\ 2^(IntegerBits - 1) > 0
      BY <3>1, TwoTimes, TwoPositive
    <3> QED
      BY <3>1, <3>2
  <2>5. n < a
    <3> HIDE DEF n, a
    <3>1. n * OneUnit < a * OneUnit
      <4>1. OneUnit * a = a * OneUnit
        BY <1>2, <2>4
      <4> QED
        BY <1>5, <2>3, <4>1 DEF a
    <3>2. OneUnit > 0
      BY <1>1, <1>2
    <3> QED
      BY <1>2, <2>1, <2>4, <3>1, <3>2, Cancel
  <2> DEFINE x == Signed(d, n)
  <2> HIDE DEF n
  <2>6. x \in Int /\ -a < x /\ x < a
    <3> HIDE DEF a
    <3> QED
      BY <2>1, <2>4, <2>5 DEF Signed
  <2>7. Wrapped(x) = x
    <3>1. Wrapped(x) = IF x % W >= a THEN (x % W) - W ELSE x % W
      BY DEF Wrapped
    <3> HIDE DEF a, W, x
    <3>2. CASE x >= 0
      <4>1. x = W * 0 + x /\ x \in Nat /\ x < W
        BY <2>4, <2>6, <3>2
      <4>2. x % W = x
        BY <2>4, <4>1, DivisionIs
      <4> QED
        BY <2>4, <2>6, <3>1, <3>2, <4>2
    <3>3. CASE x < 0
      <4> DEFINE y == x + W
      <4>1. x = W * (-1) + y /\ y \in Nat /\ y < W /\ y >= a
        BY <2>4, <2>6, <3>3
      <4> HIDE DEF y
      <4>2. x % W = y
        <5>1. -1 \in Int /\ W > 0
          BY <2>4
        <5> QED
          BY <2>4, <2>6, <4>1, <5>1, DivisionIs
      <4> QED
        BY <2>4, <2>6, <3>1, <3>3, <4>1, <4>2 DEF y
    <3> QED
      BY <2>6, <3>2, <3>3
  <2>8. 2 * Absolute(U - n * OneUnit) < OneUnit
    BY <1>1, <1>2, <1>4, <2>3 DEF Absolute
  <2> QED
    BY <2>1, <2>2, <2>7, <2>8
<1>11. CASE e >= 0 /\ e < F
  <2>1. PICK Y \in Nat : Y > 0 /\ OneUnit = P * Y /\ U = s * Y
    BY <1>4, <1>11
  <2>2. P = 2 * h /\ h \in Nat /\ h > 0
    <3>1. F - e - 1 \in Nat /\ (F - e - 1) + 1 = F - e
      BY <1>1, <1>4, <1>11
    <3>2. 2^((F - e - 1) + 1) = 2 * 2^(F - e - 1) /\ 2^(F - e - 1) \in Nat /\ 2^(F - e - 1) > 0
      BY <3>1, TwoTimes, TwoPositive
    <3> QED
      BY <3>1, <3>2
  <2> DEFINE n == IF r > h \/ (r = h /\ Odd(c)) THEN c + 1 ELSE c
  <2>3. v = Signed(d, n)
    BY <1>1, <1>4, <1>6, <1>11
  <2> HIDE DEF P, h
  <2>4. n \in Nat /\ RoundsTo(n, s, P)
    <3>1. s \in Nat
      BY <1>1, <1>4
    <3>2. LET cc == s \div (2 * h)
              rr == s % (2 * h)
              ss == IF rr > h \/ (rr = h /\ Odd(cc)) THEN cc + 1 ELSE cc
          IN  cc \in Nat /\ rr \in Nat /\ s = (2 * h) * cc + rr /\ ss \in {cc, cc + 1}
              /\ RoundsTo(ss, s, 2 * h)
      BY <2>2, <3>1, HalfEvenIs
    <3> QED
      BY <2>2, <3>2
  <2> HIDE DEF n
  <2> DEFINE x == (2 * n - 1) * P  z == (2 * n + 1) * P
  <2>5. /\ x \in Int /\ z \in Int /\ x <= 2 * s /\ 2 * s <= z
        /\ (2 * s = x \/ 2 * s = z) => n % 2 = 0
    BY <2>2, <2>4 DEF RoundsTo
  <2>6. x * Y = 2 * (n * OneUnit) - OneUnit /\ z * Y = 2 * (n * OneUnit) + OneUnit
    BY <2>1, <2>2, <2>4
  <2> HIDE DEF x, z
  <2>7. /\ x * Y <= (2 * s) * Y /\ (2 * s) * Y <= z * Y /\ (2 * s) * Y = 2 * U
        /\ (2 * s) * Y = x * Y => 2 * s = x
        /\ (2 * s) * Y = z * Y => 2 * s = z
    <3>1. s \in Int /\ 2 * s \in Int
      BY <1>1, <1>4
    <3>2. x * Y <= (2 * s) * Y /\ (2 * s) * Y <= z * Y /\ (2 * s) * Y = 2 * U
      BY <2>1, <2>5, <3>1
    <3>3. ((2 * s) * Y = x * Y => 2 * s = x) /\ ((2 * s) * Y = z * Y => 2 * s = z)
      BY <2>1, <2>5, <3>1, Cancel
    <3> QED
      BY <3>2, <3>3
  <2> DEFINE w == n * OneUnit
  <2>8. w \in Nat
    BY <1>2, <2>4
  <2> HIDE DEF w
  <2>9. /\ 2 * w - OneUnit <= 2 * U /\ 2 * U <= 2 * w + OneUnit
        /\ (2 * U = 2 * w - OneUnit \/ 2 * U = 2 * w + OneUnit) => n % 2 = 0
    BY <2>5, <2>6, <2>7 DEF w
  <2>10. LET off == 2 * Absolute(U - w) IN off < OneUnit \/ (off = OneUnit /\ n % 2 = 0)
    BY <1>2, <1>4, <2>8, <2>9 DEF Absolute
  <2> QED
    BY <2>3, <2>4, <2>10 DEF w
<1> QED
  BY <1>1, <1>4, <1>8, <1>9, <1>10, <1>11

-----------------------------------------------------------------------------
(* Comparisons, floor and ceil.                                            *)

\* A double's number, infinities counted as the first number out of range.
LEMMA SignedUnits ==
  ASSUME NEW d \in Double
  PROVE  /\ Units(Magnitude(d)) \in Nat /\ d.sign \in {0, 1}
         /\ Units(Magnitude(d)) = 0 <=> gpga_double_is_zero(d)
         /\ d.sign = 0 => Value(d) = Units(Magnitude(d))
         /\ d.sign = 1 => Value(d) = -Units(Magnitude(d))
         /\ Value(d) \in Int
<1> DEFINE n == Units(Magnitude(d))
<1>1. n \in Nat /\ Magnitude(d) \in Nat /\ (Magnitude(d) = 0 <=> gpga_double_is_zero(d)) /\ d.sign \in {0, 1}
  BY UnitsOf, DoubleFacts
<1>2. Units(0) = 0
  BY UnitsLow, FormatFacts
<1>3. Magnitude(d) = 0 <=> Units(Magnitude(d)) = Units(0)
  BY <1>1, UnitsOrder
<1>4. n = 0 <=> gpga_double_is_zero(d)
  BY <1>1, <1>2, <1>3
<1> HIDE DEF n
<1>5. /\ d.sign = 0 => Value(d) = n
      /\ d.sign = 1 => Value(d) = -n
      /\ Value(d) \in Int
  <2>1. Value(d) = IF d.sign = 1 THEN -n ELSE n
    BY DEF Value, n
  <2> QED
    BY <1>1, <2>1
<1> QED
  BY <1>1, <1>4, <1>5 DEF n

\* Numbers are compared as numbers: the sign, then the fields.
LEMMA ComparesAre ==
  ASSUME NEW a \in Double, NEW b \in Double, ~gpga_double_is_nan(a), ~gpga_double_is_nan(b)
  PROVE  /\ gpga_double_lt(a, b) <=> Value(a) < Value(b)
         /\ gpga_double_eq(a, b) <=> Value(a) = Value(b)
         /\ gpga_double_le(a, b) <=> Value(a) <= Value(b)
<1> DEFINE m == Magnitude(a)  n == Magnitude(b)  x == Units(m)  y == Units(n)
<1>1. /\ x \in Nat /\ a.sign \in {0, 1} /\ (x = 0 <=> gpga_double_is_zero(a))
      /\ (a.sign = 0 => Value(a) = x) /\ (a.sign = 1 => Value(a) = -x) /\ Value(a) \in Int
  BY SignedUnits
<1>2. /\ y \in Nat /\ b.sign \in {0, 1} /\ (y = 0 <=> gpga_double_is_zero(b))
      /\ (b.sign = 0 => Value(b) = y) /\ (b.sign = 1 => Value(b) = -y) /\ Value(b) \in Int
  BY SignedUnits
<1>3. m \in Nat /\ n \in Nat
  BY DoubleFacts
<1>4. (m < n <=> x < y) /\ (m = n <=> x = y) /\ (n < m <=> y < x)
  <2> HIDE DEF m, n
  <2> QED
    BY <1>3, UnitsOrder
<1>5. m = n /\ a.sign = b.sign => a = b
  <2> SUFFICES ASSUME m = n, a.sign = b.sign PROVE a = b
    OBVIOUS
  <2>1. m \div Hidden = a.exp /\ m % Hidden = a.mant /\ n \div Hidden = b.exp /\ n % Hidden = b.mant
    BY DoubleFacts
  <2>2. a.exp = b.exp /\ a.mant = b.mant
    <3> HIDE DEF m, n
    <3> QED
      BY <2>1
  <2> QED
    BY <2>2 DEF Double
<1>6. a = b => x = y /\ a.sign = b.sign
  OBVIOUS
<1>7. /\ gpga_double_lt(a, b) <=>
             /\ ~(gpga_double_is_zero(a) /\ gpga_double_is_zero(b))
             /\ IF a.sign # b.sign THEN a.sign > b.sign
                ELSE IF a.sign = 1 THEN n < m ELSE m < n
      /\ gpga_double_eq(a, b) <=> (gpga_double_is_zero(a) /\ gpga_double_is_zero(b)) \/ a = b
  BY <1>3 DEF gpga_double_lt, gpga_double_eq
<1> HIDE DEF m, n, x, y
<1>8. gpga_double_lt(a, b) <=> Value(a) < Value(b)
  BY <1>1, <1>2, <1>3, <1>4, <1>7
<1>9. gpga_double_eq(a, b) <=> Value(a) = Value(b)
  BY <1>1, <1>2, <1>3, <1>4, <1>5, <1>6, <1>7
<1>10. gpga_double_le(a, b) <=> Value(a) <= Value(b)
  BY <1>1, <1>2, <1>8, <1>9 DEF gpga_double_le
<1> QED
  BY <1>8, <1>9, <1>10

\* floor and ceil see by the way there and back whether a number is whole; if it is
\* not, it is small enough for its neighbours to be doubles.
LEMMA WholeIs ==
  ASSUME NEW d \in Double, Convertible(d)
  PROVE  \E n \in Nat :
             /\ gpga_double_to_s64(d) = Signed(d, n)
             /\ n * OneUnit <= Units(Magnitude(d)) /\ Units(Magnitude(d)) < n * OneUnit + OneUnit
             /\ gpga_double_eq(d, gpga_double_from_s64(gpga_double_to_s64(d)))
                    <=> Units(Magnitude(d)) = n * OneUnit
             /\ Units(Magnitude(d)) # n * OneUnit => n < Hidden
<1> DEFINE U == Units(Magnitude(d))  e == d.exp - Bias  F == FractionBits
           t == gpga_double_to_s64(d)  x == gpga_double_from_s64(t)
<1>1. PICK n \in Nat :
             /\ t = Signed(d, n)
             /\ n * OneUnit <= U /\ U < n * OneUnit + OneUnit
             /\ e >= F => U = n * OneUnit
             /\ e < F => n < Hidden
             /\ n < 2^(IntegerBits - 1)
  BY ToS64Is
<1>2. Finite(d) /\ OneUnit \in Nat /\ OneUnit > 0 /\ Hidden \in Nat
  BY OneFacts, FormatFacts DEF Convertible
<1>3. /\ U \in Nat /\ d.sign \in {0, 1} /\ (U = 0 <=> gpga_double_is_zero(d))
      /\ (d.sign = 0 => Value(d) = U) /\ (d.sign = 1 => Value(d) = -U) /\ Value(d) \in Int
  BY SignedUnits
<1>4. t \in Int /\ Absolute(t) = n /\ (d.sign = 0 => t = n) /\ (d.sign = 1 => t = -n)
  <2> HIDE DEF t
  <2> QED
    BY <1>1, <1>3 DEF Signed, Absolute
<1>5. n < 2 * 2^IntegerBits
  <2> DEFINE a == 2^(IntegerBits - 1)  b == 2^IntegerBits
  <2>1. IntegerBits - 1 \in Nat /\ (IntegerBits - 1) + 1 = IntegerBits
    BY RealAssumption
  <2>2. 2^((IntegerBits - 1) + 1) = 2 * 2^(IntegerBits - 1) /\ 2^(IntegerBits - 1) \in Nat
    BY <2>1, TwoTimes
  <2>3. a \in Nat /\ b = 2 * a /\ n < a
    BY <1>1, <2>1, <2>2
  <2> HIDE DEF a, b
  <2>4. n < 2 * b
    BY <2>3
  <2> QED
    BY <2>4 DEF b
<1> HIDE DEF t
<1>6. /\ x \in Double /\ IsNearest(x, n * OneUnit, 1)
      /\ t # 0 => x.sign = (IF t < 0 THEN 1 ELSE 0)
      /\ n < 2 * Hidden => Finite(x) /\ Value(x) = t * OneUnit
  BY <1>4, <1>5, FromS64Is
<1> HIDE DEF x, U, e
<1>7. ~gpga_double_is_nan(d) /\ ~gpga_double_is_nan(x)
  BY <1>2, <1>6, FiniteFacts DEF IsNearest
<1>8. gpga_double_eq(d, x) <=> Value(d) = Value(x)
  BY <1>6, <1>7, ComparesAre
<1>9. e \in Int /\ F \in Nat
  BY DoubleFacts, FormatFacts DEF e
<1>10. CASE e < F
  <2>1. n < Hidden /\ Value(x) = t * OneUnit
    BY <1>1, <1>2, <1>6, <1>10
  <2> DEFINE w == n * OneUnit
  <2>2. w \in Nat /\ (d.sign = 0 => Value(x) = w) /\ (d.sign = 1 => Value(x) = -w)
    <3>1. (-n) * OneUnit = -(n * OneUnit)
      BY <1>2
    <3> QED
      BY <1>2, <1>4, <2>1, <3>1
  <2> HIDE DEF w
  <2>3. Value(d) = Value(x) <=> U = w
    BY <1>3, <2>2
  <2> QED
    BY <1>1, <1>8, <2>1, <2>3 DEF w, U, t, x
<1>11. CASE e >= F
  <2>1. U = n * OneUnit
    BY <1>1, <1>11
  <2>2. Magnitude(x) = Magnitude(d)
    BY <1>2, <1>6, <2>1, NearestExact DEF U
  <2>3. n # 0
    <3>1. d.exp # 0
      BY <1>9, <1>11, FormatFacts, DoubleFacts DEF e
    <3>2. U # 0
      BY <1>3, <3>1 DEF gpga_double_is_zero
    <3>3. 0 * OneUnit = 0
      BY <1>2
    <3> QED
      BY <2>1, <3>2, <3>3
  <2>4. x.sign = d.sign
    BY <1>3, <1>4, <1>6, <2>3
  <2>5. Value(x) = Value(d)
    BY <2>2, <2>4 DEF Value
  <2> QED
    BY <1>1, <1>8, <2>1, <2>5 DEF U, t, x
<1> QED
  BY <1>9, <1>10, <1>11

\* A small whole number is a double, a multiple of one.
LEMMA SmallWhole ==
  ASSUME NEW n \in Int, Absolute(n) <= Hidden
  PROVE  LET d == gpga_double_from_s64(n)
         IN  Value(d) = n * OneUnit /\ (n * OneUnit) % OneUnit = 0 /\ n * OneUnit \in Int
<1>1. Hidden \in Nat /\ Hidden >= 8 /\ OneUnit \in Nat /\ OneUnit >= 4 * Hidden
  BY FormatFacts, OneFacts
<1>2. Absolute(n) \in Nat
  BY DEF Absolute
<1>3. Hidden < 2 * 2^IntegerBits
  <2>1. FractionBits \in Nat /\ IntegerBits \in Nat /\ FractionBits <= IntegerBits
    BY RealAssumption
  <2>2. 2^FractionBits <= 2^IntegerBits /\ 2^IntegerBits \in Nat
    BY <2>1, TwoGrows, TwoPositive
  <2> QED
    BY <1>1, <2>2 DEF Hidden
<1>4. Absolute(n) < 2 * 2^IntegerBits
  <2>1. IntegerBits \in Nat
    BY RealAssumption
  <2>2. 2^IntegerBits \in Nat
    BY <2>1, TwoPositive
  <2> QED
    BY <1>1, <1>2, <1>3, <2>2
<1>5. Value(gpga_double_from_s64(n)) = n * OneUnit
  BY <1>1, <1>2, <1>4, FromS64Is
<1>6. n * OneUnit = OneUnit * n + 0 /\ n * OneUnit \in Int /\ OneUnit > 0
  BY <1>1
<1>7. (n * OneUnit) % OneUnit = 0
  BY <1>1, <1>6, DivisionIs
<1> QED
  BY <1>5, <1>6, <1>7

\* floor is the greatest whole number that is not above, ceil the least not below.
LEMMA FloorIs ==
  ASSUME NEW d \in Double, Convertible(d)
  PROVE  /\ LET r == Value(gpga_double_floor(d))
            IN  r <= Value(d) /\ Value(d) < r + OneUnit /\ r % OneUnit = 0
         /\ LET r == Value(gpga_double_ceil(d))
            IN  Value(d) <= r /\ r < Value(d) + OneUnit /\ r % OneUnit = 0
<1> DEFINE U == Units(Magnitude(d))  t == gpga_double_to_s64(d)  v == Value(d)
           whole == gpga_double_eq(d, gpga_double_from_s64(t))
           f == gpga_double_floor(d)  c == gpga_double_ceil(d)
<1>1. PICK n \in Nat : /\ t = Signed(d, n)
                       /\ n * OneUnit <= U /\ U < n * OneUnit + OneUnit
                       /\ whole <=> U = n * OneUnit
                       /\ U # n * OneUnit => n < Hidden
  BY WholeIs
<1>2. OneUnit \in Nat /\ OneUnit > 0 /\ Hidden \in Nat /\ Hidden >= 8
  BY OneFacts, FormatFacts
<1>3. /\ U \in Nat /\ d.sign \in {0, 1} /\ (U = 0 <=> gpga_double_is_zero(d))
      /\ (d.sign = 0 => v = U) /\ (d.sign = 1 => v = -U) /\ v \in Int
  BY SignedUnits
<1>4. t \in Int /\ (d.sign = 0 => t = n) /\ (d.sign = 1 => t = -n)
  BY <1>1, <1>3 DEF Signed
<1>5. ~gpga_double_is_nan(d) /\ ~gpga_double_is_inf(d)
  BY FiniteFacts DEF Convertible
<1>6. /\ f = IF gpga_double_is_zero(d) \/ whole THEN d
             ELSE gpga_double_from_s64(IF d.sign = 1 THEN t - 1 ELSE t)
      /\ c = IF gpga_double_is_zero(d) \/ whole THEN d
             ELSE gpga_double_from_s64(IF d.sign = 0 THEN t + 1 ELSE t)
  BY <1>5 DEF gpga_double_floor, gpga_double_ceil
<1> DEFINE w == n * OneUnit
<1>7. w \in Nat
  BY <1>2
<1> HIDE DEF U, t, v, f, c, whole
\* A whole number: nothing to do.
<1>8. CASE gpga_double_is_zero(d) \/ whole
  <2>1. f = d /\ c = d
    BY <1>6, <1>8
  <2>2. v % OneUnit = 0
    <3>1. U = n * OneUnit
      <4>1. CASE gpga_double_is_zero(d)
        BY <1>1, <1>3, <1>7, <4>1
      <4> QED
        BY <1>1, <1>8, <4>1
    <3>2. v = OneUnit * n + 0 \/ v = OneUnit * (-n) + 0
      BY <1>2, <1>3, <3>1
    <3>3. n \in Int /\ -n \in Int /\ 0 \in Nat
      OBVIOUS
    <3> HIDE DEF w
    <3>4. CASE v = OneUnit * n + 0
      BY <1>2, <1>3, <3>3, <3>4, DivisionIs
    <3>5. CASE v = OneUnit * (-n) + 0
      BY <1>2, <1>3, <3>3, <3>5, DivisionIs
    <3> QED
      BY <3>2, <3>4, <3>5
  <2> QED
    BY <1>2, <1>3, <2>1, <2>2 DEF v, f, c
\* Between two whole numbers.
<1>9. CASE ~(gpga_double_is_zero(d) \/ whole)
  <2>1. w < U /\ U < w + OneUnit /\ n < Hidden
    BY <1>1, <1>3, <1>7, <1>9
  <2>2. \A k \in {n, n + 1} : Absolute(k) <= Hidden /\ Absolute(-k) <= Hidden /\ k \in Int /\ -k \in Int
    BY <1>2, <2>1 DEF Absolute
  <2>3. (n + 1) * OneUnit = w + OneUnit /\ (-n) * OneUnit = -w /\ (-(n + 1)) * OneUnit = -w - OneUnit
    BY <1>2
  <2> HIDE DEF w
  <2>4. /\ Value(gpga_double_from_s64(n)) = w /\ w % OneUnit = 0
        /\ Value(gpga_double_from_s64(n + 1)) = w + OneUnit /\ (w + OneUnit) % OneUnit = 0
        /\ Value(gpga_double_from_s64(-n)) = -w /\ (-w) % OneUnit = 0
        /\ Value(gpga_double_from_s64(-(n + 1))) = -w - OneUnit /\ (-w - OneUnit) % OneUnit = 0
    <3>1. \A k \in Int : Absolute(k) <= Hidden =>
             Value(gpga_double_from_s64(k)) = k * OneUnit /\ (k * OneUnit) % OneUnit = 0
      BY SmallWhole
    <3>2. Value(gpga_double_from_s64(n)) = w /\ w % OneUnit = 0
      BY <2>2, <3>1, Zenon DEF w
    <3>3. Value(gpga_double_from_s64(n + 1)) = w + OneUnit /\ (w + OneUnit) % OneUnit = 0
      BY <2>2, <2>3, <3>1, Zenon
    <3>4. Value(gpga_double_from_s64(-n)) = -w /\ (-w) % OneUnit = 0
      BY <2>2, <2>3, <3>1, Zenon
    <3>5. Value(gpga_double_from_s64(-(n + 1))) = -w - OneUnit /\ (-w - OneUnit) % OneUnit = 0
      BY <2>2, <2>3, <3>1, Zenon
    <3> QED
      BY <3>2, <3>3, <3>4, <3>5
  <2>5. CASE d.sign = 0
    <3>1. f = gpga_double_from_s64(n) /\ c = gpga_double_from_s64(n + 1)
      BY <1>4, <1>6, <1>9, <2>5
    <3> QED
      BY <1>2, <1>3, <1>7, <2>1, <2>4, <2>5, <3>1 DEF v, f, c
  <2>6. CASE d.sign = 1
    <3>1. f = gpga_double_from_s64(-(n + 1)) /\ c = gpga_double_from_s64(-n)
      <4>1. t - 1 = -(n + 1)
        BY <1>4, <2>6
      <4> QED
        BY <1>4, <1>6, <1>9, <2>6, <4>1
    <3> QED
      BY <1>2, <1>3, <1>7, <2>1, <2>4, <2>6, <3>1 DEF v, f, c
  <2> QED
    BY <1>3, <2>5, <2>6
<1> QED
  BY <1>8, <1>9

-----------------------------------------------------------------------------
(* Neighbours, fractions and scaling.                                      *)

LEMMA WithMagnitudeIs ==
  ASSUME NEW sign \in {0, 1}, NEW n \in 0..Infinite
  PROVE  LET d == WithMagnitude(sign, n)
         IN  /\ d \in Double /\ Magnitude(d) = n
             /\ sign = 0 => Value(d) = Units(n)
             /\ sign = 1 => Value(d) = -Units(n)
<1> DEFINE H == Hidden  q == n \div H  r == n % H  d == WithMagnitude(sign, n)
<1>1. H \in Nat /\ H >= 8 /\ MaxExp \in Nat /\ Infinite = MaxExp * H
  BY FormatFacts DEF Infinite
<1>2. n \in Nat /\ n <= MaxExp * H
  BY <1>1
<1> HIDE DEF H
<1>3. q \in Int /\ r \in Nat /\ r < H /\ n = H * q + r
  BY <1>1, <1>2, DivisionBy
<1> HIDE DEF q, r
<1>4. q >= 0
  <2> SUFFICES ASSUME q < 0 PROVE FALSE
    BY <1>3
  <2>1. H * q <= H * (-1)
    BY <1>1, <1>3
  <2> QED
    BY <1>1, <1>2, <1>3, <2>1
<1>5. q <= MaxExp
  <2> SUFFICES ASSUME q >= MaxExp + 1 PROVE FALSE
    BY <1>1, <1>3
  <2>1. H * q >= H * (MaxExp + 1) /\ H * (MaxExp + 1) = MaxExp * H + H /\ H * q \in Int /\ MaxExp * H \in Int
    BY <1>1, <1>3
  <2> QED
    BY <1>1, <1>2, <1>3, <2>1
<1>6. d = [sign |-> sign, exp |-> q, mant |-> r]
  BY DEF WithMagnitude, q, r, H
<1>7. d \in Double /\ d.sign = sign /\ d.exp = q /\ d.mant = r
  BY <1>1, <1>3, <1>4, <1>5, <1>6 DEF Double, H
<1>8. Magnitude(d) = n
  <2>1. q * H = H * q
    BY <1>1, <1>3
  <2> QED
    BY <1>3, <1>7, <2>1 DEF Magnitude, H
<1> QED
  BY <1>7, <1>8 DEF Value

\* Nothing lies between a finite number and its neighbours.
LEMMA NeighboursAre ==
  ASSUME NEW d \in Double, Finite(d)
  PROVE  /\ LET r == Value(gpga_double_next_up(d))
            IN  Value(d) < r /\ ~\E e \in Double : Finite(e) /\ Value(d) < Value(e) /\ Value(e) < r
         /\ LET r == Value(gpga_double_next_down(d))
            IN  Value(d) > r /\ ~\E e \in Double : Finite(e) /\ Value(d) > Value(e) /\ Value(e) > r
<1> DEFINE m == Magnitude(d)  v == Value(d)  up == gpga_double_next_up(d)  down == gpga_double_next_down(d)
<1>1. ~gpga_double_is_nan(d) /\ ~gpga_double_is_inf(d)
  BY FiniteFacts
<1>2. m \in Nat /\ m < Infinite /\ Infinite \in Nat /\ (m = 0 <=> gpga_double_is_zero(d))
  BY DoubleFacts, FormatFacts
<1>3. d.sign \in {0, 1} /\ (d.sign = 0 => v = Units(m)) /\ (d.sign = 1 => v = -Units(m))
  BY SignedUnits
<1>4. /\ up = WithMagnitude(IF m = 0 THEN 0 ELSE d.sign,
                            IF m # 0 /\ d.sign = 1 THEN m - 1 ELSE m + 1)
      /\ down = WithMagnitude(IF m = 0 THEN 1 ELSE d.sign,
                              IF m # 0 /\ d.sign = 0 THEN m - 1 ELSE m + 1)
  <2>1. m = 0 => m + 1 = 1
    OBVIOUS
  <2> QED
    BY <1>1, <1>2, <1>3, <2>1 DEF gpga_double_next_up, gpga_double_next_down
<1> HIDE DEF m, v, up, down
<1>5. Units(0) = 0
  BY FormatFacts, UnitsLow
\* One step up and down the magnitudes.
<1>6. ASSUME NEW k \in Nat, k < Infinite
      PROVE  /\ Units(k) \in Nat /\ Units(k + 1) \in Nat /\ Units(k) < Units(k + 1)
             /\ k \in 0..Infinite /\ k + 1 \in 0..Infinite
             /\ \A e \in Double : /\ Value(e) \in Int
                                  /\ ~(Units(k) < Value(e) /\ Value(e) < Units(k + 1))
                                  /\ ~(-Units(k + 1) < Value(e) /\ Value(e) < -Units(k))
  <2>1. k + 1 \in Nat
    OBVIOUS
  <2>2. Units(k) \in Nat /\ Units(k + 1) \in Nat /\ Units(k) < Units(k + 1)
    BY <2>1, UnitsNext
  <2>3. k \in 0..Infinite /\ k + 1 \in 0..Infinite
    BY <1>2, <1>6
  <2>4. ASSUME NEW e \in Double
        PROVE  /\ Value(e) \in Int
               /\ ~(Units(k) < Value(e) /\ Value(e) < Units(k + 1))
               /\ ~(-Units(k + 1) < Value(e) /\ Value(e) < -Units(k))
    <3> DEFINE n == Magnitude(e)  x == Units(n)  lo == Units(k)  hi == Units(k + 1)
    <3>1. /\ x \in Nat /\ e.sign \in {0, 1} /\ Value(e) \in Int
          /\ (e.sign = 0 => Value(e) = x) /\ (e.sign = 1 => Value(e) = -x)
      BY SignedUnits
    <3>2. n \in Nat
      BY DoubleFacts
    <3>3. ~(lo < x /\ x < hi)
      <4> HIDE DEF n
      <4>1. (k < n <=> Units(k) < Units(n)) /\ (n < k + 1 <=> Units(n) < Units(k + 1))
        BY <2>1, <3>2, UnitsOrder
      <4> QED
        BY <3>2, <4>1
    <3>4. lo \in Nat /\ hi \in Nat
      BY <2>2
    <3> HIDE DEF x, lo, hi
    <3>5. /\ ~(lo < Value(e) /\ Value(e) < hi)
          /\ ~(-hi < Value(e) /\ Value(e) < -lo)
      BY <3>1, <3>3, <3>4
    <3> QED
      BY <3>1, <3>5 DEF lo, hi
  <2> QED
    BY <2>2, <2>3, <2>4
\* Away from zero.
<1>7. ASSUME NEW s \in {0, 1}, NEW r, r = WithMagnitude(s, m + 1),
             s = 0 => v = Units(m), s = 1 => v = -Units(m)
      PROVE  /\ s = 0 => v < Value(r) /\ ~\E e \in Double : v < Value(e) /\ Value(e) < Value(r)
             /\ s = 1 => v > Value(r) /\ ~\E e \in Double : v > Value(e) /\ Value(e) > Value(r)
  <2>1. (s = 0 => Value(r) = Units(m + 1)) /\ (s = 1 => Value(r) = -Units(m + 1))
    <3>1. m + 1 \in 0..Infinite
      BY <1>2
    <3> QED
      BY <1>7, <3>1, WithMagnitudeIs
  <2>2. s = 0 => v < Value(r) /\ ~\E e \in Double : v < Value(e) /\ Value(e) < Value(r)
    BY <1>2, <1>6, <1>7, <2>1
  <2>3. ASSUME s = 1
        PROVE  v > Value(r) /\ ~\E e \in Double : v > Value(e) /\ Value(e) > Value(r)
    <3>1. v = -Units(m) /\ Value(r) = -Units(m + 1)
      BY <1>7, <2>1, <2>3
    <3>2. Units(m) \in Nat /\ Units(m + 1) \in Nat /\ Units(m) < Units(m + 1)
      BY <1>2, <1>6
    <3>3. v > Value(r)
      BY <3>1, <3>2
    <3>4. ASSUME NEW e \in Double PROVE ~(v > Value(e) /\ Value(e) > Value(r))
      <4>1. /\ Value(e) \in Int
            /\ ~(-Units(m + 1) < Value(e) /\ Value(e) < -Units(m))
        BY <1>2, <1>6
      <4> QED
        BY <3>1, <3>2, <4>1
    <3> QED
      BY <3>3, <3>4
  <2> QED
    BY <2>2, <2>3
\* Towards zero.
<1>8. ASSUME m # 0, NEW r, r = WithMagnitude(d.sign, m - 1)
      PROVE  /\ d.sign = 1 => v < Value(r) /\ ~\E e \in Double : v < Value(e) /\ Value(e) < Value(r)
             /\ d.sign = 0 => v > Value(r) /\ ~\E e \in Double : v > Value(e) /\ Value(e) > Value(r)
  <2> DEFINE k == m - 1
  <2>1. k \in Nat /\ k < Infinite /\ k + 1 = m
    BY <1>2, <1>8
  <2> HIDE DEF k
  <2>2. (d.sign = 0 => Value(r) = Units(k)) /\ (d.sign = 1 => Value(r) = -Units(k))
    <3>1. k \in 0..Infinite /\ r = WithMagnitude(d.sign, k)
      BY <1>2, <1>8, <2>1 DEF k
    <3> QED
      BY <1>3, <3>1, WithMagnitudeIs
  <2>3. (d.sign = 0 => v = Units(k + 1)) /\ (d.sign = 1 => v = -Units(k + 1))
    BY <1>3, <2>1
  <2>4. Units(k) \in Nat /\ Units(k + 1) \in Nat /\ Units(k) < Units(k + 1)
    BY <1>6, <2>1
  <2>5. ASSUME NEW e \in Double
        PROVE  /\ d.sign = 1 => ~(v < Value(e) /\ Value(e) < Value(r))
               /\ d.sign = 0 => ~(v > Value(e) /\ Value(e) > Value(r))
    <3>1. /\ Value(e) \in Int
          /\ ~(Units(k) < Value(e) /\ Value(e) < Units(k + 1))
          /\ ~(-Units(k + 1) < Value(e) /\ Value(e) < -Units(k))
      BY <1>6, <2>1
    <3> QED
      BY <2>2, <2>3, <2>4, <3>1
  <2>6. (d.sign = 1 => v < Value(r)) /\ (d.sign = 0 => v > Value(r))
    BY <2>2, <2>3, <2>4
  <2> QED
    BY <2>5, <2>6
<1>9. m = 0 => v = 0 /\ v = Units(m) /\ v = -Units(m)
  BY <1>3, <1>5, MinusZero, Zenon
<1>10. v < Value(up) /\ ~\E e \in Double : v < Value(e) /\ Value(e) < Value(up)
  <2>1. CASE m = 0
    <3>1. up = WithMagnitude(0, m + 1)
      BY <1>4, <2>1
    <3> QED
      BY <1>7, <1>9, <2>1, <3>1
  <2>2. CASE m # 0 /\ d.sign = 1
    BY <1>4, <1>8, <2>2
  <2>3. CASE m # 0 /\ d.sign = 0
    BY <1>3, <1>4, <1>7, <2>3
  <2> QED
    BY <1>3, <2>1, <2>2, <2>3
<1>11. v > Value(down) /\ ~\E e \in Double : v > Value(e) /\ Value(e) > Value(down)
  <2>1. CASE m = 0
    <3>1. down = WithMagnitude(1, m + 1)
      BY <1>4, <2>1
    <3> QED
      BY <1>7, <1>9, <2>1, <3>1
  <2>2. CASE m # 0 /\ d.sign = 0
    BY <1>4, <1>8, <2>2
  <2>3. CASE m # 0 /\ d.sign = 1
    BY <1>3, <1>4, <1>7, <2>3
  <2> QED
    BY <1>3, <2>1, <2>2, <2>3
<1> QED
  BY <1>10, <1>11 DEF v, up, down

\* Scaling a normal number changes its exponent, up to infinity.
LEMMA ScalingIs ==
  ASSUME NEW d \in Double, Finite(d), d.exp # 0, NEW n \in Int, d.exp + n > 0
  PROVE  gpga_double_ldexp(d, n) = IF d.exp + n < MaxExp THEN [d EXCEPT !.exp = @ + n]
                                   ELSE gpga_double_inf(d.sign)
<1>1. Hidden \in Nat /\ Hidden >= 8 /\ Bias \in Nat /\ MaxExp = 2 * Bias + 1 /\ MinExponent = 1 - Bias
  BY FormatFacts
<1>2. d.exp \in Nat /\ d.mant \in Nat /\ d.mant < Hidden
  BY DoubleFacts
<1>3. ~gpga_double_is_zero(d) /\ ~gpga_double_is_inf(d) /\ ~gpga_double_is_nan(d)
  BY FiniteFacts DEF gpga_double_is_zero
<1>4. Normalized(d) = [exp |-> d.exp - Bias, sig |-> Hidden + d.mant]
  BY DEF Normalized
<1> DEFINE e == d.exp - Bias + n
<1>5. /\ e > Bias <=> ~(d.exp + n < MaxExp)
      /\ ~(e < MinExponent) /\ e + Bias = d.exp + n
  BY <1>1, <1>2
<1>6. gpga_double_ldexp(d, n) =
         IF e > Bias THEN gpga_double_inf(d.sign) ELSE gpga_double_pack(d.sign, e + Bias, Hidden + d.mant)
  BY <1>3, <1>4, <1>5 DEF gpga_double_ldexp
<1>7. gpga_double_pack(d.sign, d.exp + n, Hidden + d.mant) = [d EXCEPT !.exp = @ + n]
  <2>1. (Hidden + d.mant) % Hidden = d.mant
    BY <1>1, <1>2
  <2> QED
    BY <2>1 DEF gpga_double_pack, Double
<1> QED
  BY <1>5, <1>6, <1>7

\* A fraction scaled by its exponent is the number again.
LEMMA FractionIs ==
  ASSUME NEW d \in Double, Finite(d)
  PROVE  LET r == gpga_double_frexp(d)
         IN  gpga_double_ldexp(r.fraction, r.exp) \in IF d.exp # 0 \/ d.mant = 0 THEN {d} ELSE Double
<1> DEFINE n == Normalized(d)  f == gpga_double_pack(d.sign, Bias - 1, n.sig)  r == gpga_double_frexp(d)
<1>1. /\ Hidden \in Nat /\ Hidden >= 8 /\ Bias \in Nat /\ Bias >= 3 /\ MaxExp = 2 * Bias + 1
      /\ MinExponent = 1 - Bias
  BY FormatFacts
<1>2. d.exp \in Nat /\ d.exp <= MaxExp /\ d.mant \in Nat /\ d.mant < Hidden /\ d.sign \in {0, 1}
  BY DoubleFacts
<1>3. CASE gpga_double_is_zero(d)
  <2>1. r.fraction = d /\ d.mant = 0
    BY <1>3 DEF gpga_double_frexp, gpga_double_is_zero
  <2>2. gpga_double_ldexp(d, r.exp) = d
    BY <1>3 DEF gpga_double_ldexp
  <2> QED
    BY <2>1, <2>2
<1>4. CASE ~gpga_double_is_zero(d)
  <2>1. ~gpga_double_is_inf(d) /\ ~gpga_double_is_nan(d)
    BY FiniteFacts
  <2>2. r.fraction = f /\ r.exp = n.exp + 1
    BY <1>4, <2>1 DEF gpga_double_frexp
  <2>3. n.sig \in Hidden..(2 * Hidden - 1) /\ n.exp \in Int
    BY <1>4, NormalizedIs
  <2> HIDE DEF r
  <2>4. f \in Double /\ f.sign = d.sign /\ f.exp = Bias - 1 /\ f.mant = n.sig % Hidden /\ f.exp # 0
        /\ Finite(f)
    <3>1. n.sig \in Nat /\ Bias - 1 \in 0..MaxExp /\ Bias - 1 # 0 /\ Bias - 1 # MaxExp
      BY <1>1, <2>3
    <3> HIDE DEF n
    <3>2. f \in Double /\ f.sign = d.sign /\ f.exp = Bias - 1 /\ f.mant = n.sig % Hidden
      BY <1>2, <3>1, PackIs
    <3> QED
      BY <3>1, <3>2 DEF Finite
  <2> HIDE DEF f, n
  <2>5. CASE d.exp # 0
    <3>1. n.exp = d.exp - Bias /\ f.mant = d.mant
      <4>1. n = [exp |-> d.exp - Bias, sig |-> Hidden + d.mant]
        BY <2>5 DEF n, Normalized
      <4>2. (Hidden + d.mant) % Hidden = d.mant
        BY <1>1, <1>2
      <4> QED
        BY <2>4, <4>1, <4>2
    <3>2. f.exp + r.exp = d.exp /\ r.exp \in Int /\ d.exp > 0 /\ d.exp < MaxExp
      BY <1>1, <1>2, <2>2, <2>3, <2>4, <2>5, <3>1 DEF Finite
    <3>3. gpga_double_ldexp(f, r.exp) = [f EXCEPT !.exp = @ + r.exp]
      BY <2>4, <3>2, ScalingIs
    <3>4. [f EXCEPT !.exp = @ + r.exp] = d
      BY <2>4, <3>1, <3>2 DEF Double
    <3> QED
      BY <2>2, <2>5, <3>3, <3>4 DEF r
  <2>6. CASE d.exp = 0
    <3> DEFINE m == Normalized(f)  e == m.exp + r.exp
               ext == gpga_shift_right_sticky(m.sig * 8, MinExponent - e)
    <3>1. ~gpga_double_is_zero(f) /\ ~gpga_double_is_inf(f) /\ ~gpga_double_is_nan(f)
      BY <2>4, FiniteFacts DEF gpga_double_is_zero
    <3>2. m.sig \in Hidden..(2 * Hidden - 1) /\ m.exp \in Int
      BY <2>4, <3>1, NormalizedIs
    <3>3. gpga_double_ldexp(f, r.exp) =
             IF e > Bias THEN gpga_double_inf(f.sign)
             ELSE IF e < MinExponent THEN gpga_double_round_pack(f.sign, MinExponent, ext)
             ELSE gpga_double_pack(f.sign, e + Bias, m.sig)
      BY <3>1 DEF gpga_double_ldexp
    <3> HIDE DEF m
    <3>4. e \in Int /\ m.sig * 8 \in Nat /\ MinExponent \in Int
      BY <1>1, <2>2, <2>3, <3>2
    <3> HIDE DEF e
    <3>5. gpga_double_ldexp(f, r.exp) \in Double
      <4>1. CASE e > Bias
        BY <1>2, <2>4, <3>3, <4>1, ZeroAndInf
      <4>2. CASE ~(e > Bias) /\ e < MinExponent
        <5>1. MinExponent - e \in Nat
          BY <3>4, <4>2
        <5>2. ext \in Nat
          BY <3>4, <5>1, ShiftSticks
        <5> HIDE DEF ext
        <5>3. gpga_double_round_pack(f.sign, MinExponent, ext) \in Double
          BY <1>2, <2>4, <3>4, <5>2, RoundPackFits
        <5> QED
          BY <3>3, <4>2, <5>3
      <4>3. CASE ~(e > Bias) /\ ~(e < MinExponent)
        <5>1. e + Bias \in 0..MaxExp /\ m.sig \in Nat
          BY <1>1, <3>2, <3>4, <4>3
        <5>2. gpga_double_pack(f.sign, e + Bias, m.sig) \in Double
          BY <1>2, <2>4, <5>1, PackIs
        <5> QED
          BY <3>3, <4>3, <5>2
      <4> QED
        BY <4>1, <4>2, <4>3
    <3>6. d.mant # 0
      BY <1>4, <2>6 DEF gpga_double_is_zero
    <3> QED
      BY <2>2, <2>6, <3>5, <3>6 DEF r
  <2> QED
    BY <2>5, <2>6
<1> QED
  BY <1>3, <1>4

-----------------------------------------------------------------------------
(* Conversions, as the calls see them.                                     *)

\* The conversions to an integer, with the sign.
LEMMA IntegersAre ==
  ASSUME NEW d \in Double, Convertible(d)
  PROVE  /\ LET t == gpga_double_to_s64(d)
            IN  /\ Absolute(t * OneUnit) <= Absolute(Value(d))
                /\ Absolute(Value(d) - t * OneUnit) < OneUnit
         /\ LET t == gpga_double_round_to_s64(d)
                off == 2 * Absolute(Value(d) - t * OneUnit)
            IN  off < OneUnit \/ (off = OneUnit /\ t % 2 = 0)
<1> DEFINE U == Units(Magnitude(d))
<1>1. OneUnit \in Nat /\ U \in Nat /\ d.sign \in {0, 1}
      /\ (d.sign = 0 => Value(d) = U) /\ (d.sign = 1 => Value(d) = -U)
  BY OneFacts, SignedUnits
<1>2. ASSUME NEW n \in Nat
      PROVE  LET t == Signed(d, n)
             IN  /\ Absolute(t * OneUnit) = n * OneUnit /\ Absolute(Value(d)) = U
                 /\ Absolute(Value(d) - t * OneUnit) = Absolute(U - n * OneUnit)
                 /\ t % 2 = n % 2
  <2> DEFINE w == n * OneUnit
  <2>1. w \in Nat /\ (-n) * OneUnit = -w /\ n * OneUnit = w
    BY <1>1
  <2> HIDE DEF w, U
  <2>2. CASE d.sign = 0
    <3>1. Signed(d, n) = n /\ Value(d) = U
      BY <1>1, <2>2 DEF Signed
    <3> QED
      BY <1>1, <2>1, <3>1 DEF Absolute
  <2>3. CASE d.sign = 1
    <3>1. Signed(d, n) = -n /\ Value(d) = -U
      BY <1>1, <2>3 DEF Signed
    <3>2. (-n) % 2 = n % 2
      OBVIOUS
    <3>3. Absolute(-w) = w /\ Absolute(-U) = U /\ Absolute(-U - (-w)) = Absolute(U - w)
      BY <1>1, <2>1 DEF Absolute
    <3> QED
      BY <2>1, <3>1, <3>2, <3>3
  <2> QED
    BY <1>1, <2>2, <2>3
<1>3. PICK n \in Nat : /\ gpga_double_to_s64(d) = Signed(d, n)
                       /\ n * OneUnit <= U /\ U < n * OneUnit + OneUnit
  BY ToS64Is
<1>4. PICK m \in Nat : /\ gpga_double_round_to_s64(d) = Signed(d, m)
                       /\ LET off == 2 * Absolute(U - m * OneUnit)
                          IN  off < OneUnit \/ (off = OneUnit /\ m % 2 = 0)
  BY RoundS64Is
<1>5. /\ Absolute(Signed(d, n) * OneUnit) <= Absolute(Value(d))
      /\ Absolute(Value(d) - Signed(d, n) * OneUnit) < OneUnit
  <2> DEFINE w == n * OneUnit
  <2>1. w \in Nat /\ w <= U /\ U < w + OneUnit
    BY <1>1, <1>3
  <2> HIDE DEF w, U
  <2>2. Absolute(U - w) < OneUnit
    BY <1>1, <2>1 DEF Absolute
  <2>3. Absolute(Signed(d, n) * OneUnit) = w /\ Absolute(Value(d)) = U
        /\ Absolute(Value(d) - Signed(d, n) * OneUnit) = Absolute(U - w)
    BY <1>2 DEF w, U
  <2> QED
    BY <2>1, <2>2, <2>3
<1>6. LET off == 2 * Absolute(Value(d) - Signed(d, m) * OneUnit)
      IN  off < OneUnit \/ (off = OneUnit /\ Signed(d, m) % 2 = 0)
  <2>1. Absolute(Value(d) - Signed(d, m) * OneUnit) = Absolute(U - m * OneUnit)
        /\ Signed(d, m) % 2 = m % 2
    BY <1>2
  <2> QED
    BY <1>4, <2>1, Zenon
<1> QED
  BY <1>3, <1>4, <1>5, <1>6

\* For every number of fraction, exponent and integer bits, conversions to integers
\* truncate or round to the nearest, ties to even; those from integers give the nearest
\* double; floor and ceil, which go through an integer, give the whole numbers around;
\* comparisons are those of the numbers; nothing lies between neighbours; frexp and
\* ldexp invert each other (gpga_real.h: the conversions, _floor, _ceil, _lt, _le, _eq,
\* _next_up, _next_down, _frexp, _ldexp).
THEOREM RealConversionsAreExact == Spec => []RealConverted
<1>1. RealCallInv => RealConverted
  <2> SUFFICES ASSUME RealCallInv, answer # <<>>, call.lib = "real" PROVE RealConverted
    BY DEF RealConverted, AnswerOf
  <2> DEFINE op == call.op  d == call.a  b == call.b  v == Value(d)  w == Value(b)
  <2>1. Result = RealAnswer(op, d, b)
    BY DEF RealCallInv, Result
  <2>2. /\ op \in {"floor", "ceil", "to_s64", "round_to_s64", "frexp", "next_up", "next_down"}
              => d \in Double
        /\ op \in {"lt", "le", "eq"} => d \in Double /\ b \in Double
        /\ op = "from_s64" => d \in Integer
        /\ op = "ldexp" => d \in Double /\ b \in Int
    BY DEF RealCallInv, RealCall, RealUnary, RealBinary
  <2> HIDE DEF op, d, b
  <2>3. op = "to_s64" /\ Convertible(d) =>
          /\ Absolute(Result * OneUnit) <= Absolute(v)
          /\ Absolute(v - Result * OneUnit) < OneUnit
    <3> SUFFICES ASSUME op = "to_s64", Convertible(d)
          PROVE  /\ Absolute(Result * OneUnit) <= Absolute(v)
                 /\ Absolute(v - Result * OneUnit) < OneUnit
      OBVIOUS
    <3>1. Result = gpga_double_to_s64(d) /\ d \in Double
      BY <2>1, <2>2 DEF RealAnswer
    <3> QED
      BY <3>1, IntegersAre
  <2>4. op = "round_to_s64" /\ Convertible(d) =>
          LET off == 2 * Absolute(v - Result * OneUnit)
          IN  off < OneUnit \/ (off = OneUnit /\ Result % 2 = 0)
    <3> SUFFICES ASSUME op = "round_to_s64", Convertible(d)
          PROVE  LET off == 2 * Absolute(v - Result * OneUnit)
                 IN  off < OneUnit \/ (off = OneUnit /\ Result % 2 = 0)
      OBVIOUS
    <3>1. Result = gpga_double_round_to_s64(d) /\ d \in Double
      BY <2>1, <2>2 DEF RealAnswer
    <3> QED
      BY <3>1, IntegersAre
  <2>5. op = "from_s64" =>
          /\ Nearest(Result, Absolute(d), 1, FractionBits - MinExponent)
          /\ d # 0 => Result.sign = (IF d < 0 THEN 1 ELSE 0)
    <3> SUFFICES ASSUME op = "from_s64"
          PROVE  /\ Nearest(Result, Absolute(d), 1, FractionBits - MinExponent)
                 /\ d # 0 => Result.sign = (IF d < 0 THEN 1 ELSE 0)
      OBVIOUS
    <3> DEFINE n == Absolute(d)  k == FractionBits - MinExponent  a == 2^(IntegerBits - 1)
    <3>1. Result = gpga_double_from_s64(d) /\ d \in -a..(a - 1)
      BY <2>1, <2>2 DEF RealAnswer, Integer
    <3>2. a \in Nat /\ a > 0 /\ 2^IntegerBits = 2 * a
      <4>1. IntegerBits - 1 \in Nat /\ (IntegerBits - 1) + 1 = IntegerBits
        BY RealAssumption
      <4>2. 2^((IntegerBits - 1) + 1) = 2 * 2^(IntegerBits - 1) /\ 2^(IntegerBits - 1) \in Nat
            /\ 2^(IntegerBits - 1) > 0
        BY <4>1, TwoTimes, TwoPositive
      <4> QED
        BY <4>1, <4>2
    <3> HIDE DEF a
    <3>3. d \in Int /\ n \in Nat /\ n < 2 * 2^IntegerBits
      <4>1. d \in Int /\ n \in Nat /\ n <= a
        BY <3>1, <3>2 DEF Absolute
      <4> QED
        BY <3>2, <4>1
    <3>4. /\ Result \in Double /\ IsNearest(Result, n * OneUnit, 1)
          /\ d # 0 => Result.sign = (IF d < 0 THEN 1 ELSE 0)
      BY <3>1, <3>3, FromS64Is
    <3>5. k \in Nat /\ k > 0 /\ OneUnit = 2^k
      BY OneFacts
    <3> HIDE DEF n, k
    <3>6. Scaled(n, k) = n * OneUnit /\ Scaled(1, -k) = 1 /\ k \in Int
      BY <3>5 DEF Scaled
    <3>7. Nearest(Result, n, 1, k)
      BY <3>3, <3>4, <3>6, NearestMeans
    <3> QED
      BY <3>4, <3>7 DEF n, k
  <2>6. op = "floor" /\ Convertible(d) =>
          Value(Result) <= v /\ v < Value(Result) + OneUnit /\ Value(Result) % OneUnit = 0
    <3> SUFFICES ASSUME op = "floor", Convertible(d)
          PROVE  Value(Result) <= v /\ v < Value(Result) + OneUnit /\ Value(Result) % OneUnit = 0
      OBVIOUS
    <3>1. Result = gpga_double_floor(d) /\ d \in Double
      BY <2>1, <2>2 DEF RealAnswer
    <3> QED
      BY <3>1, FloorIs
  <2>7. op = "ceil" /\ Convertible(d) =>
          v <= Value(Result) /\ Value(Result) < v + OneUnit /\ Value(Result) % OneUnit = 0
    <3> SUFFICES ASSUME op = "ceil", Convertible(d)
          PROVE  v <= Value(Result) /\ Value(Result) < v + OneUnit /\ Value(Result) % OneUnit = 0
      OBVIOUS
    <3>1. Result = gpga_double_ceil(d) /\ d \in Double
      BY <2>1, <2>2 DEF RealAnswer
    <3> QED
      BY <3>1, FloorIs
  <2>8. op \in {"lt", "le", "eq"} =>
          (Result <=> /\ ~(gpga_double_is_nan(d) \/ gpga_double_is_nan(b))
                      /\ CASE op = "lt" -> v < w
                           [] op = "le" -> v <= w
                           [] op = "eq" -> v = w)
    <3>1. ASSUME op = "lt"
          PROVE  Result <=> ~(gpga_double_is_nan(d) \/ gpga_double_is_nan(b)) /\ v < w
      <4>1. Result = gpga_double_lt(d, b) /\ d \in Double /\ b \in Double
        BY <2>1, <2>2, <3>1 DEF RealAnswer
      <4>2. gpga_double_is_nan(d) \/ gpga_double_is_nan(b) => ~gpga_double_lt(d, b)
        BY DEF gpga_double_lt
      <4> QED
        BY <4>1, <4>2, ComparesAre
    <3>2. ASSUME op = "le"
          PROVE  Result <=> ~(gpga_double_is_nan(d) \/ gpga_double_is_nan(b)) /\ v <= w
      <4>1. Result = gpga_double_le(d, b) /\ d \in Double /\ b \in Double
        BY <2>1, <2>2, <3>2 DEF RealAnswer
      <4>2. gpga_double_is_nan(d) \/ gpga_double_is_nan(b) => ~gpga_double_le(d, b)
        BY DEF gpga_double_le, gpga_double_lt, gpga_double_eq
      <4> QED
        BY <4>1, <4>2, ComparesAre
    <3>3. ASSUME op = "eq"
          PROVE  Result <=> ~(gpga_double_is_nan(d) \/ gpga_double_is_nan(b)) /\ v = w
      <4>1. Result = gpga_double_eq(d, b) /\ d \in Double /\ b \in Double
        BY <2>1, <2>2, <3>3 DEF RealAnswer
      <4>2. gpga_double_is_nan(d) \/ gpga_double_is_nan(b) => ~gpga_double_eq(d, b)
        BY DEF gpga_double_eq
      <4> QED
        BY <4>1, <4>2, ComparesAre
    <3> QED
      BY <3>1, <3>2, <3>3
  <2>9. op = "next_up" /\ Finite(d) =>
          v < Value(Result) /\ ~\E e \in Double: Finite(e) /\ v < Value(e) /\ Value(e) < Value(Result)
    <3> SUFFICES ASSUME op = "next_up", Finite(d)
          PROVE  /\ v < Value(Result)
                 /\ ~\E e \in Double: Finite(e) /\ v < Value(e) /\ Value(e) < Value(Result)
      OBVIOUS
    <3>1. Result = gpga_double_next_up(d) /\ d \in Double
      BY <2>1, <2>2 DEF RealAnswer
    <3> QED
      BY <3>1, NeighboursAre
  <2>10. op = "next_down" /\ Finite(d) =>
          v > Value(Result) /\ ~\E e \in Double: Finite(e) /\ v > Value(e) /\ Value(e) > Value(Result)
    <3> SUFFICES ASSUME op = "next_down", Finite(d)
          PROVE  /\ v > Value(Result)
                 /\ ~\E e \in Double: Finite(e) /\ v > Value(e) /\ Value(e) > Value(Result)
      OBVIOUS
    <3>1. Result = gpga_double_next_down(d) /\ d \in Double
      BY <2>1, <2>2 DEF RealAnswer
    <3> QED
      BY <3>1, NeighboursAre
  <2>11. op = "frexp" /\ Finite(d) =>
          gpga_double_ldexp(Result.fraction, Result.exp) \in
              IF d.exp # 0 \/ d.mant = 0 THEN {d} ELSE Double
    <3> SUFFICES ASSUME op = "frexp", Finite(d)
          PROVE  gpga_double_ldexp(Result.fraction, Result.exp) \in
                     IF d.exp # 0 \/ d.mant = 0 THEN {d} ELSE Double
      OBVIOUS
    <3>1. Result = gpga_double_frexp(d) /\ d \in Double
      BY <2>1, <2>2 DEF RealAnswer
    <3> QED
      BY <3>1, FractionIs
  <2>12. op = "ldexp" /\ Finite(d) /\ d.exp # 0 /\ d.exp + b > 0 =>
          Result = IF d.exp + b < MaxExp THEN [d EXCEPT !.exp = @ + b] ELSE gpga_double_inf(d.sign)
    <3> SUFFICES ASSUME op = "ldexp", Finite(d), d.exp # 0, d.exp + b > 0
          PROVE  Result = IF d.exp + b < MaxExp THEN [d EXCEPT !.exp = @ + b]
                          ELSE gpga_double_inf(d.sign)
      OBVIOUS
    <3>1. Result = gpga_double_ldexp(d, b) /\ d \in Double /\ b \in Int
      BY <2>1, <2>2 DEF RealAnswer
    <3> QED
      BY <3>1, ScalingIs
  <2>13. RealBinary \ {"add", "sub", "mul", "div"} = {"lt", "le", "eq"}
    BY DEF RealBinary
  <2> QED
    BY <2>3, <2>4, <2>5, <2>6, <2>7, <2>8, <2>9, <2>10, <2>11, <2>12, <2>13, ZenonT(60)
       DEF RealConverted, AnswerOf, op, d, b
<1> QED
  BY <1>1, RealCallInvHolds, PTL
=============================================================================
