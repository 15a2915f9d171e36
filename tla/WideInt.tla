------------------------------ MODULE WideInt ------------------------------
(***************************************************************************)
(* include/gpga_wide.h: integers of more than one word, as the macro       *)
(* GPGA_WIDE_DEFINE generates them for one width.  A value is a sequence   *)
(* of words, the lowest first; a word is a number below Base.  LimbBits is *)
(* 64 in the code.  Every operator takes the width the macro is expanded   *)
(* with.                                                                   *)
(***************************************************************************)
EXTENDS Integers, Sequences, FiniteSetsExt

CONSTANT LimbBits

\* A source width below that of a word has a sign bit to extend.
ASSUME LimbBitsAssumption == LimbBits \in Nat /\ LimbBits >= 2

Base == 2^LimbBits
Ones == Base - 1

\* The bitwise operators of C, from the bits of a word that are one.
BitsOf(w) == {i \in 0..(LimbBits - 1): (w \div 2^i) % 2 = 1}
FromBits(bits) == MapThenSumSet(LAMBDA i: 2^i, bits)
x & y == FromBits(BitsOf(x) \cap BitsOf(y))
x | y == FromBits(BitsOf(x) \cup BitsOf(y))
x ^^ y == FromBits((BitsOf(x) \ BitsOf(y)) \cup (BitsOf(y) \ BitsOf(x)))

NotWord(w) == Ones - w
ShiftLeft(w, n) == (w * 2^n) % Base
ShiftRight(w, n) == w \div 2^n

Words(width) == (width + LimbBits - 1) \div LimbBits
LastMask(width) == IF width % LimbBits = 0 THEN Ones ELSE 2^(width % LimbBits) - 1

\* The words of a value one by one: f(i) is word i, counted from zero.
Each(width, f(_)) == [i \in 1..Words(width) |-> f(i - 1)]

gpga_wide_mask(v, width) == [v EXCEPT ![Words(width)] = @ & LastMask(width)]
gpga_wide_zero(width) == Each(width, LAMBDA i: 0)
gpga_wide_mask_const(width) == gpga_wide_mask(Each(width, LAMBDA i: Ones), width)
gpga_wide_from_u64(value, width) == [gpga_wide_zero(width) EXCEPT ![1] = value]
gpga_wide_to_u64(v) == v[1]

gpga_wide_any(v, width) ==
    \E i \in 1..Words(width): (IF i = Words(width) THEN v[i] & LastMask(width) ELSE v[i]) # 0

gpga_wide_get_bit(v, idx, width) ==
    IF idx >= width THEN 0
    ELSE ShiftRight(v[idx \div LimbBits + 1], idx % LimbBits) % 2

gpga_wide_set_bit(v, idx, bit, width) ==
    LET mask == 2^(idx % LimbBits)
    IN  IF idx >= width THEN v
        ELSE [v EXCEPT ![idx \div LimbBits + 1] =
                 IF bit # 0 THEN @ | mask ELSE @ & NotWord(mask)]

gpga_wide_signbit(v, width) == gpga_wide_get_bit(v, width - 1, width)

gpga_wide_not(a, width) == gpga_wide_mask(Each(width, LAMBDA i: NotWord(a[i + 1])), width)
gpga_wide_and(a, b, width) == gpga_wide_mask(Each(width, LAMBDA i: a[i + 1] & b[i + 1]), width)
gpga_wide_or(a, b, width) == gpga_wide_mask(Each(width, LAMBDA i: a[i + 1] | b[i + 1]), width)
gpga_wide_xor(a, b, width) == gpga_wide_mask(Each(width, LAMBDA i: a[i + 1] ^^ b[i + 1]), width)

(***************************************************************************)
(* Addition and subtraction: the carry is found from the wrapped sums.     *)
(***************************************************************************)
Flag(p) == IF p THEN 1 ELSE 0

\* The carry of one addition only.
CarryOfTheWords(x, y, carry) ==
    LET sum == (x + y) % Base
    IN  [word |-> (sum + carry) % Base, out |-> Flag(sum < x)]

AddWord(x, y, carry) ==
    LET sum == (x + y) % Base
        total == (sum + carry) % Base
    IN  [word |-> total, out |-> Flag(sum < x \/ total < carry)]

SubWord(x, y, borrow) ==
    LET diff == (x - y) % Base
    IN  [word |-> (diff - borrow) % Base, out |-> Flag(x < y \/ diff < borrow)]

\* Carry or borrow into word i; out of word i - 1.
gpga_wide_add(a, b, width) ==
    LET step[i \in 0..Words(width)] ==
            IF i = 0 THEN [word |-> 0, out |-> 0] ELSE AddWord(a[i], b[i], step[i - 1].out)
    IN  gpga_wide_mask(Each(width, LAMBDA i: step[i + 1].word), width)

gpga_wide_sub(a, b, width) ==
    LET step[i \in 0..Words(width)] ==
            IF i = 0 THEN [word |-> 0, out |-> 0] ELSE SubWord(a[i], b[i], step[i - 1].out)
    IN  gpga_wide_mask(Each(width, LAMBDA i: step[i + 1].word), width)

(***************************************************************************)
(* Shifts by whole words and by bits.                                      *)
(***************************************************************************)
gpga_wide_shl(a, shift, width) ==
    LET words == shift \div LimbBits
        bits == shift % LimbBits
        Shifted(i) ==
            LET src == i - words
                low == IF bits # 0 /\ src > 0 THEN ShiftRight(a[src], LimbBits - bits) ELSE 0
            IN  IF src < 0 THEN 0 ELSE ShiftLeft(a[src + 1], bits) | low
    IN  IF shift >= width THEN gpga_wide_zero(width)
        ELSE gpga_wide_mask(Each(width, Shifted), width)

gpga_wide_shr(a, shift, width) ==
    LET words == shift \div LimbBits
        bits == shift % LimbBits
        Shifted(i) ==
            LET src == i + words
                high == IF bits # 0 /\ src + 1 < Words(width)
                        THEN ShiftLeft(a[src + 2], LimbBits - bits) ELSE 0
            IN  IF src >= Words(width) THEN 0 ELSE ShiftRight(a[src + 1], bits) | high
    IN  IF shift >= width THEN gpga_wide_zero(width)
        ELSE gpga_wide_mask(Each(width, Shifted), width)

gpga_wide_sar(a, shift, width) ==
    LET sign == gpga_wide_signbit(a, width)
        out == gpga_wide_shr(a, shift, width)
        word == (width - shift) \div LimbBits
        mask == ShiftLeft(Ones, (width - shift) % LimbBits)
        Filled(i) == IF i > word THEN Ones ELSE IF i = word THEN out[i + 1] | mask ELSE out[i + 1]
    IN  IF shift >= width
        THEN IF sign = 1 THEN gpga_wide_mask_const(width) ELSE gpga_wide_zero(width)
        ELSE IF sign = 0 \/ shift = 0 THEN out
        ELSE gpga_wide_mask(Each(width, Filled), width)

(***************************************************************************)
(* Comparisons, from the highest word down.                                *)
(***************************************************************************)
Seen(v, i, width) == IF i = Words(width) THEN v[i] & LastMask(width) ELSE v[i]

gpga_wide_eq(a, b, width) == \A i \in 1..Words(width): Seen(a, i, width) = Seen(b, i, width)

gpga_wide_lt_u(a, b, width) ==
    \E i \in 1..Words(width):
        /\ Seen(a, i, width) < Seen(b, i, width)
        /\ \A j \in (i + 1)..Words(width): Seen(a, j, width) = Seen(b, j, width)

gpga_wide_le_u(a, b, width) == gpga_wide_lt_u(a, b, width) \/ gpga_wide_eq(a, b, width)

gpga_wide_lt_s(a, b, width) ==
    IF gpga_wide_signbit(a, width) # gpga_wide_signbit(b, width)
    THEN gpga_wide_signbit(a, width) > gpga_wide_signbit(b, width)
    ELSE gpga_wide_lt_u(a, b, width)

gpga_wide_le_s(a, b, width) == gpga_wide_lt_s(a, b, width) \/ gpga_wide_eq(a, b, width)

gpga_wide_red_and(a, width) ==
    gpga_wide_eq(gpga_wide_mask(a, width), gpga_wide_mask_const(width), width)

Parity(w) == Cardinality({n \in 0..(LimbBits - 1): ShiftRight(w, n) % 2 = 1}) % 2

gpga_wide_red_xor(a, width) ==
    LET parity[i \in 0..Words(width)] ==
            IF i = 0 THEN 0 ELSE (parity[i - 1] + Parity(Seen(a, i, width))) % 2
    IN  parity[Words(width)]

(***************************************************************************)
(* Multiplication and division, one bit per turn.                          *)
(***************************************************************************)
gpga_wide_mul(a, b, width) ==
    LET turn[bit \in 0..width] ==
            IF bit = 0 THEN [result |-> gpga_wide_zero(width), temp |-> a]
            ELSE LET last == turn[bit - 1]
                 IN  [result |-> IF gpga_wide_get_bit(b, bit - 1, width) = 1
                                 THEN gpga_wide_add(last.result, last.temp, width)
                                 ELSE last.result,
                      temp |-> gpga_wide_shl(last.temp, 1, width)]
    IN  turn[width].result

\* Long division: bit counts down from width - 1, done counts the turns.
LongDivision(num, den, width) ==
    LET turn[done \in 0..width] ==
            IF done = 0 THEN [quotient |-> gpga_wide_zero(width), rem |-> gpga_wide_zero(width)]
            ELSE LET bit == width - done
                     last == turn[done - 1]
                     shifted == gpga_wide_shl(last.rem, 1, width)
                     rem == IF gpga_wide_get_bit(num, bit, width) # 0
                            THEN gpga_wide_set_bit(shifted, 0, 1, width) ELSE shifted
                 IN  IF gpga_wide_lt_u(rem, den, width) THEN [last EXCEPT !.rem = rem]
                     ELSE [quotient |-> gpga_wide_set_bit(last.quotient, bit, 1, width),
                           rem |-> gpga_wide_sub(rem, den, width)]
    IN  turn[width]

gpga_wide_div(num, den, width) ==
    IF ~gpga_wide_any(den, width) THEN gpga_wide_zero(width)
    ELSE LongDivision(num, den, width).quotient

gpga_wide_mod(num, den, width) ==
    IF ~gpga_wide_any(den, width) THEN gpga_wide_zero(width)
    ELSE LongDivision(num, den, width).rem

\* Square and multiply over the bits of one word.
PowerTurns(base, exp_u, width) ==
    LET turn[i \in 0..LimbBits] ==
            IF i = 0 THEN [result |-> gpga_wide_from_u64(1, width), cur |-> base]
            ELSE LET last == turn[i - 1]
                 IN  [result |-> IF ShiftRight(exp_u, i - 1) % 2 = 1
                                 THEN gpga_wide_mul(last.result, last.cur, width) ELSE last.result,
                      cur |-> gpga_wide_mul(last.cur, last.cur, width)]
    IN  turn[LimbBits].result

\* Only the lowest word of the exponent is looked at.
gpga_wide_pow_u(base, exp, width) ==
    PowerTurns(base, gpga_wide_to_u64(exp), width)

gpga_wide_pow_s(base, exp, width) ==
    IF gpga_wide_to_u64(exp) >= Base \div 2 THEN gpga_wide_zero(width)
    ELSE gpga_wide_pow_u(base, exp, width)

(***************************************************************************)
(* Extension from one word, and between widths (GPGA_WIDE_DEFINE_RESIZE).  *)
(***************************************************************************)
gpga_wide_sext_from_u64(value, src_width, width) ==
    LET negative == src_width < LimbBits /\ ShiftRight(value, src_width - 1) % 2 = 1
        upper == NotWord(2^src_width - 1)
        Extended(i) == IF i = 0 THEN value | upper ELSE Ones
    IN  IF src_width = 0 THEN gpga_wide_zero(width)
        ELSE IF negative THEN gpga_wide_mask(Each(width, Extended), width)
        ELSE gpga_wide_mask(gpga_wide_from_u64(value, width), width)

gpga_wide_resize(v, dst, src) ==
    gpga_wide_mask(Each(dst, LAMBDA i: IF i < Words(src) THEN v[i + 1] ELSE 0), dst)

gpga_wide_sext(v, dst, src) ==
    LET upper == IF src % LimbBits = 0 THEN 0 ELSE NotWord(2^(src % LimbBits) - 1)
        Extended(i) == IF i >= Words(src) THEN Ones
                       ELSE IF i = Words(src) - 1 THEN v[i + 1] | upper ELSE v[i + 1]
    IN  IF dst <= src \/ gpga_wide_get_bit(v, src - 1, src) = 0 THEN gpga_wide_resize(v, dst, src)
        ELSE gpga_wide_mask(Each(dst, Extended), dst)
=============================================================================
