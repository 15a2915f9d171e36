----------------------------- MODULE Arithmetic -----------------------------
(***************************************************************************)
(* All three libraries of generated kernels, called with every argument of *)
(* a small machine: to the calls of FourStateCalls come those of wide      *)
(* integers and doubles, with what they should answer.                     *)
(***************************************************************************)
EXTENDS FourStateCalls, WideInt, RealCore

CONSTANTS WideWidths,  \* the widths of wide operands
          RealExps,    \* the exponent fields of the operands of binary real operations
          Scales       \* the exponents given to ldexp

ASSUME WideWidthsAssumption == WideWidths \subseteq Nat \ {0}
ASSUME ScalesAssumption == Scales \subseteq Int

(***************************************************************************)
(* Calls.                                                                  *)
(***************************************************************************)
Two(width) == [1..Words(width) -> 0..Ones]
Wide(width) == {v \in Two(width): v[Words(width)] <= LastMask(width)}

WideUnary == {"not", "signbit", "red_and", "red_or", "red_xor", "sext", "resize", "from"}
WideBinary == {"and", "or", "xor", "add", "sub", "mul", "div", "mod", "pow_u", "pow_s",
               "eq", "lt_u", "le_u", "lt_s", "le_s", "shl", "shr", "sar"}

RealUnary == {"floor", "ceil", "to_s64", "round_to_s64", "frexp", "next_up", "next_down"}
RealBinary == {"add", "sub", "mul", "div", "lt", "le", "eq"}
Operand == {d \in Double: d.exp \in RealExps}
Integer == -(2^(IntegerBits - 1))..(2^(IntegerBits - 1) - 1)

Call(lib, ops, as, bs, width) == call \in [lib: {lib}, op: ops, a: as, b: bs, width: {width}]

(***************************************************************************)
(* The functions called.                                                   *)
(***************************************************************************)
WideAnswer(op, a, b, w) ==
    CASE op = "not" -> gpga_wide_not(a, w)          [] op = "and" -> gpga_wide_and(a, b, w)
      [] op = "or" -> gpga_wide_or(a, b, w)         [] op = "xor" -> gpga_wide_xor(a, b, w)
      [] op = "add" -> gpga_wide_add(a, b, w)       [] op = "sub" -> gpga_wide_sub(a, b, w)
      [] op = "mul" -> gpga_wide_mul(a, b, w)       [] op = "div" -> gpga_wide_div(a, b, w)
      [] op = "mod" -> gpga_wide_mod(a, b, w)       [] op = "pow_u" -> gpga_wide_pow_u(a, b, w)
      [] op = "eq" -> gpga_wide_eq(a, b, w)         [] op = "lt_u" -> gpga_wide_lt_u(a, b, w)
      [] op = "le_u" -> gpga_wide_le_u(a, b, w)     [] op = "lt_s" -> gpga_wide_lt_s(a, b, w)
      [] op = "le_s" -> gpga_wide_le_s(a, b, w)     [] op = "red_and" -> gpga_wide_red_and(a, w)
      [] op = "red_or" -> gpga_wide_any(a, w)       [] op = "red_xor" -> gpga_wide_red_xor(a, w)
      [] op = "signbit" -> gpga_wide_signbit(a, w)
      [] op = "shl" -> gpga_wide_shl(a, gpga_wide_to_u64(b), w)
      [] op = "shr" -> gpga_wide_shr(a, gpga_wide_to_u64(b), w)
      [] op = "sar" -> gpga_wide_sar(a, gpga_wide_to_u64(b), w)
      [] op = "sext" -> gpga_wide_sext(a, b, w)     [] op = "resize" -> gpga_wide_resize(a, b, w)
      [] op = "pow_s" -> gpga_wide_pow_s(a, b, w)
      [] op = "from" -> gpga_wide_sext_from_u64(a[1] % 2, 1, w)

RealAnswer(op, a, b) ==
    CASE op = "add" -> gpga_double_add(a, b)          [] op = "sub" -> gpga_double_sub(a, b)
      [] op = "mul" -> gpga_double_mul(a, b)          [] op = "div" -> gpga_double_div(a, b)
      [] op = "lt" -> gpga_double_lt(a, b)            [] op = "le" -> gpga_double_le(a, b)
      [] op = "eq" -> gpga_double_eq(a, b)            [] op = "floor" -> gpga_double_floor(a)
      [] op = "ceil" -> gpga_double_ceil(a)           [] op = "to_s64" -> gpga_double_to_s64(a)
      [] op = "round_to_s64" -> gpga_double_round_to_s64(a)
      [] op = "frexp" -> gpga_double_frexp(a)         [] op = "ldexp" -> gpga_double_ldexp(a, b)
      [] op = "next_up" -> gpga_double_next_up(a)     [] op = "next_down" -> gpga_double_next_down(a)
      [] op = "from_s64" -> gpga_double_from_s64(a)

Init ==
    /\ \/ \E w \in FsWidths: call \in Calls(w)
       \/ \E w \in WideWidths: \/ Call("wide", WideUnary, Wide(w), WideWidths, w)
                               \/ Call("wide", WideBinary, Wide(w), Wide(w), w)
       \/ Call("real", RealUnary, Double, {0}, 0)
       \/ Call("real", RealBinary, Operand, Operand, 0)
       \/ Call("real", {"from_s64"}, Integer, {0}, 0)
       \/ Call("real", {"ldexp"}, Double, Scales, 0)
    /\ answer = <<>>

WideReturns == call.lib = "wide" /\ Return(WideAnswer(call.op, call.a, call.b, call.width))
RealReturns == call.lib = "real" /\ Return(RealAnswer(call.op, call.a, call.b))

Next == FsReturns \/ WideReturns \/ RealReturns \/ Answered

Spec == Init /\ [][Next]_vars

(***************************************************************************)
(* Wide: the integer the words stand for.                                  *)
(***************************************************************************)
WideNum(v) == LET sum[i \in 0..Len(v)] == IF i = 0 THEN 0 ELSE sum[i - 1] + v[i] * 2^(LimbBits * (i - 1))
              IN  sum[Len(v)]

WideSigned(v, w) == IF WideNum(v) >= 2^(w - 1) THEN WideNum(v) - 2^w ELSE WideNum(v)

BitOf(n, i) == (n \div 2^i) % 2

PowerMod(m, n, mod) == LET p[i \in 0..n] == IF i = 0 THEN 1 % mod ELSE (p[i - 1] * m) % mod IN p[n]

\* Every operation on wide integers is the one on the numbers they stand for,
\* modulo 2^width; a division by zero is zero, and an exponent is the low word of
\* its operand, as the amount of a shift is a word.  (gpga_wide.h.)
WideExact ==
    LET w == call.width
        m == WideNum(call.a)
        sm == WideSigned(call.a, w)
        n == WideNum(call.b)
        sn == WideSigned(call.b, w)
        shift == call.b[1]
        Is(op, result) == AnswerOf("wide", {op}) =>
                              /\ Result \in Wide(w)
                              /\ WideNum(Result) = result
        Holds(op, truth) == AnswerOf("wide", {op}) => (Result <=> truth)
    IN  /\ Is("not", 2^w - 1 - m)
        /\ Is("and", FromBits({i \in 0..(w - 1): BitOf(m, i) + BitOf(n, i) = 2}))
        /\ Is("or", FromBits({i \in 0..(w - 1): BitOf(m, i) + BitOf(n, i) > 0}))
        /\ Is("xor", FromBits({i \in 0..(w - 1): BitOf(m, i) + BitOf(n, i) = 1}))
        /\ Is("add", (m + n) % 2^w)  /\ Is("sub", (m - n) % 2^w)  /\ Is("mul", (m * n) % 2^w)
        /\ Is("div", IF n = 0 THEN 0 ELSE m \div n)
        /\ Is("mod", IF n = 0 THEN 0 ELSE m % n)
        /\ Is("pow_u", PowerMod(m, shift, 2^w))
        /\ Is("pow_s", IF 2 * shift >= Base THEN 0 ELSE PowerMod(m, shift, 2^w))
        /\ Is("from", IF m % 2 = 1 THEN 2^w - 1 ELSE 0)
        /\ Is("shl", (m * 2^shift) % 2^w)  /\ Is("shr", m \div 2^shift)
        /\ Is("sar", (sm \div 2^shift) % 2^w)
        /\ Holds("eq", m = n)  /\ Holds("lt_u", m < n)  /\ Holds("le_u", m <= n)
        /\ Holds("lt_s", sm < sn)  /\ Holds("le_s", sm <= sn)
        /\ Holds("red_and", m = 2^w - 1)  /\ Holds("red_or", m # 0)
        /\ AnswerOf("wide", {"red_xor"}) => Result = Cardinality({i \in 0..(w - 1): BitOf(m, i) = 1}) % 2
        /\ AnswerOf("wide", {"signbit"}) => Result = BitOf(m, w - 1)
        /\ AnswerOf("wide", {"sext"}) => WideNum(Result) = sm % 2^call.b
        /\ AnswerOf("wide", {"resize"}) => WideNum(Result) = m % 2^call.b

(***************************************************************************)
(* Real: the rational a double stands for, in units of the least positive. *)
(***************************************************************************)
Units(n) == IF n < Hidden THEN n ELSE (Hidden + (n % Hidden)) * 2^(n \div Hidden - 1)
Infinite == MaxExp * Hidden
Finite(d) == d.exp # MaxExp
Value(d) == IF d.sign = 1 THEN -Units(Magnitude(d)) ELSE Units(Magnitude(d))
Absolute(n) == IF n < 0 THEN -n ELSE n

\* d is the double nearest to the magnitude (n / q) * 2^k, or the one with the
\* even fraction of two; infinity stands for the first number beyond the range.
Nearest(d, n, q, k) ==
    LET up == IF k < 0 THEN 2^(-k) ELSE 1
        exact == IF k < 0 THEN n ELSE n * 2^k
        Off(m) == Absolute(Units(m) * q * up - exact)
    IN  /\ ~gpga_double_is_nan(d)
        /\ \A m \in {Magnitude(d) - 1, Magnitude(d) + 1} \cap 0..Infinite:
               \/ Off(Magnitude(d)) < Off(m)
               \/ Off(Magnitude(d)) = Off(m) /\ d.mant % 2 = 0

\* The magnitude (n / q) * 2^k is at least that of the least normal double.
IsNormal(n, q, k) == IF k < 0 THEN n >= Hidden * q * 2^(-k) ELSE n * 2^k >= Hidden * q

\* The significand of a finite double and its exponent in units.
Sig(d) == IF d.exp = 0 THEN d.mant ELSE Hidden + d.mant
Place(d) == IF d.exp = 0 THEN 0 ELSE d.exp - 1

\* A sum, difference, product or quotient in the range of normal numbers is
\* the correctly rounded one, with the sign of the exact result, however far
\* apart the operands are; the others follow IEEE 754 for NaN, infinities and
\* zero divisors.  (gpga_real.h: gpga_double_add, _mul, _div, _round_pack.)
RealRounded ==
    LET a == call.a
        b == IF call.op = "sub" THEN gpga_double_neg(call.b) ELSE call.b
        sum == Value(a) + Value(b)
        unit == FractionBits - MinExponent
        sign == Xor(a, b)
        down == Place(a) + Place(b) - unit
        over == Place(a) - Place(b) + unit
    IN  /\ AnswerOf("real", {"add", "sub"}) /\ Finite(a) /\ Finite(b) =>
              /\ Absolute(sum) >= Hidden => Nearest(Result, Absolute(sum), 1, 0)
              /\ sum # 0 => Result.sign = (IF sum < 0 THEN 1 ELSE 0)
              /\ sum = 0 => gpga_double_is_zero(Result)
        /\ AnswerOf("real", {"mul"}) /\ Finite(a) /\ Finite(b) =>
              /\ IsNormal(Sig(a) * Sig(b), 1, down) => Nearest(Result, Sig(a) * Sig(b), 1, down)
              /\ Result.sign = sign
        /\ AnswerOf("real", {"div"}) /\ Finite(a) /\ Finite(b) /\ Sig(b) # 0 =>
              /\ IsNormal(Sig(a), Sig(b), over) => Nearest(Result, Sig(a), Sig(b), over)
              /\ Result.sign = sign
        /\ AnswerOf("real", {"add", "sub", "mul", "div"}) =>
              (gpga_double_is_nan(Result) <=>
                  \/ gpga_double_is_nan(a) \/ gpga_double_is_nan(b)
                  \/ /\ call.op \in {"add", "sub"}
                     /\ gpga_double_is_inf(a) /\ gpga_double_is_inf(b) /\ a.sign # b.sign
                  \/ /\ call.op = "mul"
                     /\ \/ gpga_double_is_inf(a) /\ gpga_double_is_zero(b)
                        \/ gpga_double_is_zero(a) /\ gpga_double_is_inf(b)
                  \/ /\ call.op = "div"
                     /\ \/ gpga_double_is_inf(a) /\ gpga_double_is_inf(b)
                        \/ gpga_double_is_zero(a) /\ gpga_double_is_zero(b))

\* The number of units of one, and the integer range a conversion covers.
OneUnit == 2^(FractionBits - MinExponent)
Convertible(d) == Finite(d) /\ Absolute(Value(d)) < OneUnit * 2^(IntegerBits - 1)

\* A conversion to an integer truncates or rounds to the nearest, ties to even;
\* one from an integer is the nearest double; floor and ceil are the integers
\* around; comparisons order doubles as numbers; neighbours have nothing in
\* between; frexp and ldexp invert each other.  Numbers in range only.
\* (gpga_real.h.)
RealConverted ==
    LET d == call.a
        v == Value(d)
        ToOne(n) == n * OneUnit
    IN  /\ AnswerOf("real", {"to_s64"}) /\ Convertible(d) =>
              /\ Absolute(ToOne(Result)) <= Absolute(v)
              /\ Absolute(v - ToOne(Result)) < OneUnit
        /\ AnswerOf("real", {"round_to_s64"}) /\ Convertible(d) =>
              LET off == 2 * Absolute(v - ToOne(Result))
              IN  off < OneUnit \/ (off = OneUnit /\ Result % 2 = 0)
        /\ AnswerOf("real", {"from_s64"}) =>
              /\ Nearest(Result, Absolute(d), 1, FractionBits - MinExponent)
              /\ d # 0 => Result.sign = (IF d < 0 THEN 1 ELSE 0)
        /\ AnswerOf("real", {"floor"}) /\ Convertible(d) =>
              Value(Result) <= v /\ v < Value(Result) + OneUnit /\ Value(Result) % OneUnit = 0
        /\ AnswerOf("real", {"ceil"}) /\ Convertible(d) =>
              v <= Value(Result) /\ Value(Result) < v + OneUnit /\ Value(Result) % OneUnit = 0
        /\ AnswerOf("real", RealBinary \ {"add", "sub", "mul", "div"}) =>
              LET nan == gpga_double_is_nan(d) \/ gpga_double_is_nan(call.b)
                  w == Value(call.b)
              IN  Result <=> /\ ~nan
                             /\ CASE call.op = "lt" -> v < w
                                   [] call.op = "le" -> v <= w
                                   [] call.op = "eq" -> v = w
        /\ AnswerOf("real", {"next_up"}) /\ Finite(d) =>
              v < Value(Result) /\ ~\E e \in Double: Finite(e) /\ v < Value(e) /\ Value(e) < Value(Result)
        /\ AnswerOf("real", {"next_down"}) /\ Finite(d) =>
              v > Value(Result) /\ ~\E e \in Double: Finite(e) /\ v > Value(e) /\ Value(e) > Value(Result)
        /\ AnswerOf("real", {"frexp"}) /\ Finite(d) => gpga_double_ldexp(Result.fraction, Result.exp) \in
              IF d.exp # 0 \/ d.mant = 0 THEN {d} ELSE Double
        /\ AnswerOf("real", {"ldexp"}) /\ Finite(d) /\ d.exp # 0 /\ d.exp + call.b > 0 =>
              Result = IF d.exp + call.b < MaxExp THEN [d EXCEPT !.exp = @ + call.b]
                       ELSE gpga_double_inf(d.sign)
=============================================================================
