----------------------------- MODULE FourState -----------------------------
(***************************************************************************)
(* The operators of include/gpga_4state.h, which every 4-state expression  *)
(* of the generated kernels calls.  A word is the set of its bits that are *)
(* one, so the bitwise operators of C are those of sets; WordBits stands   *)
(* for 32 and for 64, the two copies the header has of each function.      *)
(***************************************************************************)
EXTENDS FiniteSetsExt

CONSTANT WordBits

ASSUME WordBitsAssumption == WordBits \in Nat \ {0}

Bits == 0..(WordBits - 1)
Word == SUBSET Bits
FourStates == [val: Word, xz: Word]

Num(v) == MapThenSumSet(LAMBDA i: 2^i, v)
ToWord(n) == {i \in Bits: (n \div 2^i) % 2 = 1}
Complement(v) == Bits \ v

(***************************************************************************)
(* Construction and width.                                                 *)
(***************************************************************************)
fs_mask(width) == {i \in Bits: i < width}

fs_make(val, xz, width) ==
    [val |-> val \cap fs_mask(width), xz |-> xz \cap fs_mask(width)]

fs_allx(width) == [val |-> {}, xz |-> fs_mask(width)]

fs_resize(a, width) == fs_make(a.val, a.xz, width)

\* The sign bit is copied as it is: a sign that is x or z extends as x or z.
fs_sext(a, src_width, target_width) ==
    LET src == fs_make(a.val, a.xz, src_width)
        ext == fs_mask(target_width) \ fs_mask(src_width)
        Extended(v) == IF src_width - 1 \in v THEN v \cup ext ELSE v
    IN  IF src_width = 0 \/ target_width <= src_width
        THEN IF src_width = 0 THEN fs_make({}, {}, target_width)
             ELSE fs_make(a.val, a.xz, target_width)
        ELSE fs_make(Extended(src.val), Extended(src.xz), target_width)

Bool(p) == [val |-> IF p THEN {0} ELSE {}, xz |-> {}]

(***************************************************************************)
(* Bitwise operators, from the bits known to be zero and to be one.        *)
(***************************************************************************)
Known0(a, width) == (fs_mask(width) \ a.val) \ a.xz
Known1(a, width) == (fs_mask(width) \cap a.val) \ a.xz

Knowing(known0, known1, width) ==
    [val |-> known1, xz |-> fs_mask(width) \ (known0 \cup known1)]

fs_merge(a, b, width) ==
    LET mask == fs_mask(width)
        same == (Complement(SymDiff(a.val, b.val)) \cap mask) \ (a.xz \cup b.xz)
    IN  [val |-> a.val \cap same, xz |-> mask \ same]

fs_not(a, width) == [val |-> fs_mask(width) \ a.val, xz |-> a.xz \cap fs_mask(width)]

fs_and(a, b, width) ==
    Knowing(Known0(a, width) \cup Known0(b, width),
            Known1(a, width) \cap Known1(b, width), width)

\* fs_or that needs a zero on one side only.
OrZero(a, b, width) ==
    Knowing(Known0(a, width) \cup Known0(b, width),
            Known1(a, width) \cup Known1(b, width), width)

fs_or(a, b, width) ==
    Knowing(Known0(a, width) \cap Known0(b, width),
            Known1(a, width) \cup Known1(b, width), width)

fs_xor(a, b, width) ==
    LET unknown == (a.xz \cup b.xz) \cap fs_mask(width)
    IN  [val |-> (SymDiff(a.val, b.val) \cap fs_mask(width)) \ unknown, xz |-> unknown]

fs_mux(cond, t, f, width) ==
    IF cond.xz # {} THEN fs_merge(t, f, width)
    ELSE IF cond.val # {} THEN fs_resize(t, width)
    ELSE fs_resize(f, width)

(***************************************************************************)
(* Arithmetic and comparisons: all x as soon as a bit is unknown.          *)
(***************************************************************************)
\* Strict that loses the carry from the unknown bits.
StrictBits(a, b, width, n) == fs_make(ToWord(n), a.xz \cup b.xz, width)

Strict(a, b, width, n) ==
    IF a.xz \cup b.xz # {} THEN fs_allx(width) ELSE fs_make(ToWord(n), {}, width)

fs_add(a, b, width) == Strict(a, b, width, Num(a.val) + Num(b.val))
fs_sub(a, b, width) == Strict(a, b, width, Num(a.val) - Num(b.val))
fs_mul(a, b, width) == Strict(a, b, width, Num(a.val) * Num(b.val))

fs_div(a, b, width) ==
    IF b.val = {} THEN fs_allx(width) ELSE Strict(a, b, width, Num(a.val) \div Num(b.val))
fs_mod(a, b, width) ==
    IF b.val = {} THEN fs_allx(width) ELSE Strict(a, b, width, Num(a.val) % Num(b.val))

\* Square and multiply in words, one bit of the exponent per turn; a turn
\* whose bit is zero, those past the last one included, leaves the result.
Power(base, exp) ==
    LET turn[i \in 0..WordBits] ==
            IF i = 0 THEN [result |-> 1, square |-> base]
            ELSE LET last == turn[i - 1]
                 IN  [result |-> IF (exp \div 2^(i - 1)) % 2 = 1
                                 THEN (last.result * last.square) % 2^WordBits ELSE last.result,
                      square |-> (last.square * last.square) % 2^WordBits]
    IN  turn[WordBits].result

fs_pow(a, b, width) ==
    Strict(a, b, width, Power(Num(a.val \cap fs_mask(width)), Num(b.val \cap fs_mask(width))))

\* The value of the low width bits of v in two's complement.
fs_sign(v, width) ==
    LET n == Num(v \cap fs_mask(width))
    IN  IF width \in 1..WordBits /\ width - 1 \in v THEN n - 2^width ELSE n

fs_spow(a, b, width) ==
    LET exp == fs_sign(b.val, width)
    IN  IF a.xz \cup b.xz # {} THEN fs_allx(width)
        ELSE IF exp < 0 THEN fs_make({}, {}, width)
        ELSE fs_make(ToWord(Power(Num(a.val \cap fs_mask(width)), exp)), {}, width)

\* C rounds a quotient towards zero; the remainder has the sign of the dividend.
Quotient(m, n) ==
    LET q == (IF m < 0 THEN -m ELSE m) \div (IF n < 0 THEN -n ELSE n)
    IN  IF (m < 0) = (n < 0) THEN q ELSE -q

\* The least value divided by minus one overflows a full word, which C leaves
\* undefined; GPU integer division does not trap and the model lets it wrap.
fs_sdiv(a, b, width) ==
    LET sa == fs_sign(a.val, width)
        sb == fs_sign(b.val, width)
    IN  IF a.xz \cup b.xz # {} \/ sb = 0 THEN fs_allx(width)
        ELSE fs_make(ToWord(Quotient(sa, sb)), {}, width)

fs_smod(a, b, width) ==
    LET sa == fs_sign(a.val, width)
        sb == fs_sign(b.val, width)
    IN  IF a.xz \cup b.xz # {} \/ sb = 0 THEN fs_allx(width)
        ELSE fs_make(ToWord(sa - sb * Quotient(sa, sb)), {}, width)

Compared(a, b, p) == IF a.xz \cup b.xz # {} THEN fs_allx(1) ELSE Bool(p)

fs_eq(a, b, width) == Compared(a, b, a.val = b.val)
fs_ne(a, b, width) == Compared(a, b, a.val # b.val)
fs_lt(a, b, width) == Compared(a, b, Num(a.val) < Num(b.val))
fs_gt(a, b, width) == Compared(a, b, Num(a.val) > Num(b.val))
fs_le(a, b, width) == Compared(a, b, Num(a.val) <= Num(b.val))
fs_ge(a, b, width) == Compared(a, b, Num(a.val) >= Num(b.val))

fs_slt(a, b, width) == Compared(a, b, fs_sign(a.val, width) < fs_sign(b.val, width))
fs_sle(a, b, width) == Compared(a, b, fs_sign(a.val, width) <= fs_sign(b.val, width))
fs_sgt(a, b, width) == Compared(a, b, fs_sign(a.val, width) > fs_sign(b.val, width))
fs_sge(a, b, width) == Compared(a, b, fs_sign(a.val, width) >= fs_sign(b.val, width))

(***************************************************************************)
(* Shifts move the unknown bits too.                                       *)
(***************************************************************************)
Left(v, n) == {i \in Bits: i - n \in v}
Right(v, n) == {i \in Bits: i + n \in v}

fs_shl(a, b, width) ==
    IF b.xz # {} THEN fs_allx(width)
    ELSE IF Num(b.val) >= width THEN fs_make({}, {}, width)
    ELSE fs_make(Left(a.val, Num(b.val)), Left(a.xz, Num(b.val)), width)

fs_shr(a, b, width) ==
    IF b.xz # {} THEN fs_allx(width)
    ELSE IF Num(b.val) >= width THEN fs_make({}, {}, width)
    ELSE fs_make(Right(a.val, Num(b.val)), Right(a.xz, Num(b.val)), width)

fs_sar(a, b, width) ==
    LET shift == Num(b.val)
        sign == IF width - 1 \in a.val THEN fs_mask(width) ELSE {}
        fill == {i \in Bits: i >= width - shift}
    IN  IF b.xz # {} \/ width - 1 \in a.xz THEN fs_allx(width)
        ELSE IF shift >= width THEN fs_make(sign, {}, width)
        ELSE fs_make(Right(a.val, shift) \cup (sign \cap fill), Right(a.xz, shift), width)

(***************************************************************************)
(* Reductions and logical operators.                                       *)
(***************************************************************************)
Decided(true, false) == IF true \/ false THEN Bool(true) ELSE fs_allx(1)

fs_red_and(a, width) ==
    Decided(Known1(a, width) = fs_mask(width) /\ Known0(a, width) = {}, Known0(a, width) # {})
fs_red_or(a, width) == Decided(Known1(a, width) # {}, Known0(a, width) = fs_mask(width))
fs_red_xor(a, width) ==
    IF a.xz \cap fs_mask(width) # {} THEN fs_allx(1)
    ELSE Bool(Cardinality(a.val \cap fs_mask(width)) % 2 = 1)

IsTrue(a, width) == Known1(a, width) # {}
IsFalse(a, width) == (a.val \cup a.xz) \cap fs_mask(width) = {}

fs_log_not(a, width) == Decided(~IsTrue(a, width) /\ IsFalse(a, width), IsTrue(a, width))
fs_log_and(a, b, width) ==
    LET false == IsFalse(a, width) \/ IsFalse(b, width)
    IN  Decided(~false /\ IsTrue(a, width) /\ IsTrue(b, width), false)
fs_log_or(a, b, width) ==
    Decided(IsTrue(a, width) \/ IsTrue(b, width), IsFalse(a, width) /\ IsFalse(b, width))

(***************************************************************************)
(* Matches of case, casez and casex.                                       *)
(***************************************************************************)
fs_case_eq(a, b, width) ==
    /\ a.xz \cap fs_mask(width) = b.xz \cap fs_mask(width)
    /\ SymDiff(a.val, b.val) \cap (fs_mask(width) \ (a.xz \cup b.xz)) = {}

fs_casez(a, b, ignore_mask, width) ==
    LET cared == fs_mask(width) \ ignore_mask
    IN  a.xz \cap cared = {} /\ SymDiff(a.val, b.val) \cap cared = {}

fs_casex(a, b, width) ==
    SymDiff(a.val, b.val) \cap (fs_mask(width) \ (a.xz \cup b.xz)) = {}
=============================================================================
