------------------------------ MODULE RealCore ------------------------------
(***************************************************************************)
(* The software floating point of include/gpga_real.h (GPUs have no        *)
(* double): fields, rounding, conversions and the arithmetic every other   *)
(* function of the header is built from.  A gpga_double is the record of   *)
(* its three fields; FractionBits is 52, ExponentBits 11 and IntegerBits   *)
(* 64 in the code.                                                         *)
(***************************************************************************)
EXTENDS Integers, FiniteSets

CONSTANTS FractionBits, ExponentBits, IntegerBits

\* gpga_double_mul shifts its product right by FractionBits - 3 or one more;
\* gpga_double_from_u64 takes the exponent of what fits a significand unchecked.
ASSUME RealAssumption ==
    /\ FractionBits \in Nat /\ FractionBits >= 3
    /\ ExponentBits \in Nat /\ ExponentBits >= 2 /\ FractionBits < 2^(ExponentBits - 1)
    /\ IntegerBits \in Nat /\ IntegerBits > FractionBits

Bias == 2^(ExponentBits - 1) - 1
MaxExp == 2^ExponentBits - 1
Hidden == 2^FractionBits
MinExponent == 1 - Bias

Double == [sign: {0, 1}, exp: 0..MaxExp, mant: 0..(Hidden - 1)]

gpga_double_pack(sign, exp, mantissa) ==
    [sign |-> sign, exp |-> exp, mant |-> mantissa % Hidden]
gpga_double_zero(sign) == gpga_double_pack(sign, 0, 0)
gpga_double_inf(sign) == gpga_double_pack(sign, MaxExp, 0)
gpga_double_nan == gpga_double_pack(0, MaxExp, Hidden \div 2)
gpga_double_is_zero(d) == d.exp = 0 /\ d.mant = 0
gpga_double_is_inf(d) == d.exp = MaxExp /\ d.mant = 0
gpga_double_is_nan(d) == d.exp = MaxExp /\ d.mant # 0
gpga_double_neg(d) == [d EXCEPT !.sign = 1 - @]
gpga_double_abs(d) == [d EXCEPT !.sign = 0]

\* The magnitude as the integer its bits are, and back.
Magnitude(d) == d.exp * Hidden + d.mant
WithMagnitude(sign, n) == [sign |-> sign, exp |-> n \div Hidden, mant |-> n % Hidden]

gpga_double_next_up(x) ==
    IF gpga_double_is_nan(x) \/ (gpga_double_is_inf(x) /\ x.sign = 0) THEN x
    ELSE IF gpga_double_is_zero(x) THEN WithMagnitude(0, 1)
    ELSE WithMagnitude(x.sign, IF x.sign = 1 THEN Magnitude(x) - 1 ELSE Magnitude(x) + 1)

gpga_double_next_down(x) ==
    IF gpga_double_is_nan(x) \/ (gpga_double_is_inf(x) /\ x.sign = 1) THEN x
    ELSE IF gpga_double_is_zero(x) THEN WithMagnitude(1, 1)
    ELSE WithMagnitude(x.sign, IF x.sign = 1 THEN Magnitude(x) + 1 ELSE Magnitude(x) - 1)

(***************************************************************************)
(* Rounding.  Three extra bits follow the fraction: guard, round, sticky.  *)
(***************************************************************************)
Odd(n) == n % 2 = 1

\* gpga_shift_right_sticky that drops the bits shifted out.
ShiftRightLossy(value, shift) == value \div 2^shift

\* The bits shifted out stay behind as a one in the last place.
gpga_shift_right_sticky(value, shift) ==
    LET shifted == value \div 2^shift
    IN  IF value % 2^shift # 0 /\ ~Odd(shifted) THEN shifted + 1 ELSE shifted

\* To nearest, ties to even.
RoundedUp(ext) ==
    LET sig == ext \div 8
        guard == (ext \div 4) % 2 = 1
    IN  IF guard /\ (ext % 4 # 0 \/ Odd(sig)) THEN sig + 1 ELSE sig

gpga_double_round_pack(sign, exp, mant_ext) ==
    LET rounded == RoundedUp(mant_ext)
        carry == rounded >= 2 * Hidden
        sig == IF carry THEN rounded \div 2 ELSE rounded
        e == IF carry THEN exp + 1 ELSE exp
        den_sig == RoundedUp(gpga_shift_right_sticky(sig * 8, MinExponent - e))
    IN  IF e > Bias THEN gpga_double_inf(sign)
        ELSE IF e < MinExponent
        THEN IF den_sig >= Hidden THEN gpga_double_pack(sign, 1, 0)
             ELSE gpga_double_pack(sign, 0, den_sig)
        ELSE gpga_double_pack(sign, e + Bias, sig)

(***************************************************************************)
(* A non-zero finite number as a full significand and its exponent; a      *)
(* subnormal is shifted up until its leading bit is in place.              *)
(***************************************************************************)
Normalized(d) ==
    LET up == CHOOSE n \in 0..FractionBits: d.mant * 2^n \in Hidden..(2 * Hidden - 1)
    IN  IF d.exp # 0 THEN [exp |-> d.exp - Bias, sig |-> Hidden + d.mant]
        ELSE [exp |-> MinExponent - up, sig |-> d.mant * 2^up]

gpga_double_exponent(d) == IF gpga_double_is_zero(d) THEN -Bias ELSE Normalized(d).exp

gpga_double_ldexp(x, exp) ==
    LET n == Normalized(x)
        e == n.exp + exp
        ext == gpga_shift_right_sticky(n.sig * 8, MinExponent - e)
    IN  IF gpga_double_is_zero(x) \/ gpga_double_is_inf(x) \/ gpga_double_is_nan(x) THEN x
        ELSE IF e > Bias THEN gpga_double_inf(x.sign)
        ELSE IF e < MinExponent THEN gpga_double_round_pack(x.sign, MinExponent, ext)
        ELSE gpga_double_pack(x.sign, e + Bias, n.sig)

gpga_double_frexp(x) ==
    IF gpga_double_is_zero(x) \/ gpga_double_is_inf(x) \/ gpga_double_is_nan(x)
    THEN [fraction |-> x, exp |-> 0]
    ELSE [fraction |-> gpga_double_pack(x.sign, Bias - 1, Normalized(x).sig),
          exp |-> Normalized(x).exp + 1]

(***************************************************************************)
(* Integers.                                                               *)
(***************************************************************************)
gpga_double_from_u64(value) ==
    LET msb == CHOOSE n \in 0..IntegerBits: 2^n <= value /\ value < 2^(n + 1)
        shift == msb - FractionBits
        cut == (value \div 2^shift) % Hidden
        lost == value % 2^shift
        half == 2^(shift - 1)
        mant == IF shift # 0 /\ (lost > half \/ (lost = half /\ Odd(cut))) THEN cut + 1 ELSE cut
        exp == IF mant = Hidden THEN msb + 1 ELSE msb
    IN  IF value = 0 THEN gpga_double_zero(0)
        ELSE IF msb <= FractionBits
        THEN gpga_double_pack(0, msb + Bias, value * 2^(FractionBits - msb))
        ELSE IF exp > Bias THEN gpga_double_inf(0)
        ELSE gpga_double_pack(0, exp + Bias, mant)

gpga_double_from_s64(value) ==
    IF value < 0 THEN gpga_double_neg(gpga_double_from_u64(-value)) ELSE gpga_double_from_u64(value)

Signed(d, n) == IF d.sign = 1 THEN -n ELSE n

\* Towards zero; what does not fit is zero.
gpga_double_to_s64(d) ==
    LET exp == d.exp - Bias
        sig == Hidden + d.mant
    IN  IF d.exp \in {0, MaxExp} \/ exp < 0 \/ exp > IntegerBits - 2 THEN 0
        ELSE IF exp >= FractionBits THEN Signed(d, sig * 2^(exp - FractionBits))
        ELSE Signed(d, sig \div 2^(FractionBits - exp))

\* The value of the low IntegerBits bits of n in two's complement.
Wrapped(n) ==
    LET low == n % 2^IntegerBits
    IN  IF low >= 2^(IntegerBits - 1) THEN low - 2^IntegerBits ELSE low

\* gpga_double_round_to_s64 that rounds ties up.
RoundHalfUp(d) ==
    LET exp == d.exp - Bias
        mant == Hidden + d.mant
        shift == FractionBits - exp
    IN  IF d.exp \in {0, MaxExp} \/ exp < -1 THEN 0
        ELSE IF exp = -1 THEN Signed(d, 1)
        ELSE IF exp >= FractionBits THEN Wrapped(Signed(d, mant * 2^(exp - FractionBits)))
        ELSE Signed(d, (mant + 2^(shift - 1)) \div 2^shift)

\* A shift by the width of a word or more is undefined: any number may come out.
ShiftedTooFar == CHOOSE n \in -2^(IntegerBits - 1) .. 2^(IntegerBits - 1) - 1 : TRUE

gpga_double_round_to_s64(d) ==
    LET exp == d.exp - Bias
        mant == Hidden + d.mant
        shift == FractionBits - exp
        int_part == mant \div 2^shift
        rem == mant % 2^shift
        half == 2^(shift - 1)
    IN  IF d.exp \in {0, MaxExp} \/ exp < -1 THEN 0
        ELSE IF exp = -1 THEN Signed(d, IF mant > Hidden THEN 1 ELSE 0)
        ELSE IF exp - FractionBits >= IntegerBits THEN ShiftedTooFar
        ELSE IF exp >= FractionBits THEN Wrapped(Signed(d, mant * 2^(exp - FractionBits)))
        ELSE Signed(d, IF rem > half \/ (rem = half /\ Odd(int_part)) THEN int_part + 1 ELSE int_part)

(***************************************************************************)
(* Arithmetic.                                                             *)
(***************************************************************************)
\* Operands of different signs: the difference, shifted up while the
\* exponent stays above the least one.
Cancelled(sign, exp, ext) ==
    LET room == IF exp > MinExponent THEN exp - MinExponent ELSE 0
        need == CHOOSE n \in 0..(FractionBits + 3): ext * 2^n \in (8 * Hidden)..(16 * Hidden - 1)
        up == IF need < room THEN need ELSE room
    IN  IF ext = 0 THEN gpga_double_zero(0)
        ELSE gpga_double_round_pack(sign, exp - up, ext * 2^up)

gpga_double_add(a, b) ==
    LET swap == Normalized(a).exp < Normalized(b).exp
        hi == IF swap THEN b ELSE a
        lo == IF swap THEN a ELSE b
        n == Normalized(hi)
        a_ext == n.sig * 8
        b_ext == gpga_shift_right_sticky(Normalized(lo).sig * 8, n.exp - Normalized(lo).exp)
        sum == a_ext + b_ext
    IN  IF gpga_double_is_nan(a) \/ gpga_double_is_nan(b) THEN gpga_double_nan
        ELSE IF gpga_double_is_inf(a)
        THEN IF gpga_double_is_inf(b) /\ a.sign # b.sign THEN gpga_double_nan ELSE a
        ELSE IF gpga_double_is_inf(b) \/ gpga_double_is_zero(a) THEN b
        ELSE IF gpga_double_is_zero(b) THEN a
        ELSE IF hi.sign = lo.sign
        THEN IF sum >= 16 * Hidden
             THEN gpga_double_round_pack(hi.sign, n.exp + 1, gpga_shift_right_sticky(sum, 1))
             ELSE gpga_double_round_pack(hi.sign, n.exp, sum)
        ELSE IF a_ext >= b_ext THEN Cancelled(hi.sign, n.exp, a_ext - b_ext)
        ELSE Cancelled(lo.sign, Normalized(lo).exp, b_ext - a_ext)

gpga_double_sub(a, b) == gpga_double_add(a, gpga_double_neg(b))

Xor(a, b) == (a.sign + b.sign) % 2

gpga_double_mul(a, b) ==
    LET product == Normalized(a).sig * Normalized(b).sig
        exp == Normalized(a).exp + Normalized(b).exp
    IN  IF gpga_double_is_nan(a) \/ gpga_double_is_nan(b) THEN gpga_double_nan
        ELSE IF gpga_double_is_inf(a) \/ gpga_double_is_inf(b)
        THEN IF gpga_double_is_zero(a) \/ gpga_double_is_zero(b) THEN gpga_double_nan
             ELSE gpga_double_inf(Xor(a, b))
        ELSE IF gpga_double_is_zero(a) \/ gpga_double_is_zero(b) THEN gpga_double_zero(Xor(a, b))
        ELSE IF product >= 2 * Hidden * Hidden
        THEN gpga_double_round_pack(Xor(a, b), exp + 1, gpga_shift_right_sticky(product, FractionBits - 2))
        ELSE gpga_double_round_pack(Xor(a, b), exp, gpga_shift_right_sticky(product, FractionBits - 3))

\* Long division over all bits of num; the quotient keeps FractionBits + 4
\* bits and takes a remainder into the last.
gpga_div_mantissa(num, den) ==
    LET wide == num * 2^(FractionBits + 3)
        quot == (wide \div den) % (16 * Hidden)
    IN  IF wide % den # 0 /\ ~Odd(quot) THEN quot + 1 ELSE quot

gpga_double_div(a, b) ==
    LET quot == gpga_div_mantissa(Normalized(a).sig, Normalized(b).sig)
        exp == Normalized(a).exp - Normalized(b).exp
    IN  IF gpga_double_is_nan(a) \/ gpga_double_is_nan(b) THEN gpga_double_nan
        ELSE IF gpga_double_is_zero(b)
        THEN IF gpga_double_is_zero(a) THEN gpga_double_nan ELSE gpga_double_inf(Xor(a, b))
        ELSE IF gpga_double_is_zero(a) THEN gpga_double_zero(Xor(a, b))
        ELSE IF gpga_double_is_inf(a)
        THEN IF gpga_double_is_inf(b) THEN gpga_double_nan ELSE gpga_double_inf(Xor(a, b))
        ELSE IF gpga_double_is_inf(b) THEN gpga_double_zero(Xor(a, b))
        ELSE IF quot < 8 * Hidden THEN gpga_double_round_pack(Xor(a, b), exp - 1, quot * 2)
        ELSE gpga_double_round_pack(Xor(a, b), exp, quot)

(***************************************************************************)
(* Comparisons and rounding to an integer.                                 *)
(***************************************************************************)
gpga_double_eq(a, b) ==
    /\ ~gpga_double_is_nan(a) /\ ~gpga_double_is_nan(b)
    /\ (gpga_double_is_zero(a) /\ gpga_double_is_zero(b)) \/ a = b

gpga_double_lt(a, b) ==
    /\ ~gpga_double_is_nan(a) /\ ~gpga_double_is_nan(b)
    /\ ~(gpga_double_is_zero(a) /\ gpga_double_is_zero(b))
    /\ IF a.sign # b.sign THEN a.sign > b.sign
       ELSE IF a.sign = 1 THEN Magnitude(a) > Magnitude(b) ELSE Magnitude(a) < Magnitude(b)

gpga_double_le(a, b) == gpga_double_lt(a, b) \/ gpga_double_eq(a, b)

\* Both go through a 64-bit integer.
gpga_double_floor(x) ==
    LET t == gpga_double_to_s64(x)
    IN  IF gpga_double_is_nan(x) \/ gpga_double_is_inf(x) \/ gpga_double_is_zero(x)
           \/ gpga_double_eq(x, gpga_double_from_s64(t)) THEN x
        ELSE gpga_double_from_s64(IF x.sign = 1 THEN t - 1 ELSE t)

gpga_double_ceil(x) ==
    LET t == gpga_double_to_s64(x)
    IN  IF gpga_double_is_nan(x) \/ gpga_double_is_inf(x) \/ gpga_double_is_zero(x)
           \/ gpga_double_eq(x, gpga_double_from_s64(t)) THEN x
        ELSE gpga_double_from_s64(IF x.sign = 0 THEN t + 1 ELSE t)
=============================================================================
