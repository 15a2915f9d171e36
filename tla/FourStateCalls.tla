--------------------------- MODULE FourStateCalls ---------------------------
(***************************************************************************)
(* The 4-state library that generated kernels include, called with every   *)
(* pair of operands: a call is chosen, answered, and the answer compared   *)
(* with what the operation means on two-valued words.                      *)
(***************************************************************************)
EXTENDS FourState

CONSTANT FsWidths    \* the widths of the operands

ASSUME FsWidthsAssumption == FsWidths \subseteq 1..WordBits

VARIABLES call, answer
vars == <<call, answer>>

(***************************************************************************)
(* Calls.                                                                  *)
(***************************************************************************)
Fs(width) == [val: SUBSET fs_mask(width), xz: SUBSET fs_mask(width)]

BitUnary == {"not", "red_and", "red_or", "red_xor", "log_not"}
BitBinary == {"and", "or", "xor", "log_and", "log_or", "muxx"}
BitOps == BitUnary \cup BitBinary
FsMatches == {"case_eq", "casez", "casex"}

Comparisons == {"eq", "ne", "lt", "gt", "le", "ge", "slt", "sle", "sgt", "sge"}
Divisions == {"div", "mod", "sdiv", "smod"}
FsStrict == Comparisons \cup Divisions \cup {"add", "sub", "mul", "pow", "spow"}
NumberOps == FsStrict \cup {"shl", "shr", "sar", "sext"}

FsUnary == BitUnary \cup {"sext"}
FsOps == BitOps \cup FsMatches \cup NumberOps

Calls(width) ==
    [lib: {"fs"}, op: FsUnary, a: Fs(width), b: {fs_allx(width)}, width: {width}]
    \cup [lib: {"fs"}, op: FsOps \ FsUnary, a: Fs(width), b: Fs(width), width: {width}]

(***************************************************************************)
(* The functions called.                                                   *)
(***************************************************************************)
\* A match ignores the unknown bits of the label b; sext doubles the width
\* as far as the word goes; a mux has an unknown condition.
Top(width) == IF 2 * width > WordBits THEN WordBits ELSE 2 * width

FsAnswer(op, a, b, w) ==
    CASE op = "not" -> fs_not(a, w)             [] op = "and" -> fs_and(a, b, w)
      [] op = "or" -> fs_or(a, b, w)            [] op = "xor" -> fs_xor(a, b, w)
      [] op = "red_and" -> fs_red_and(a, w)     [] op = "red_or" -> fs_red_or(a, w)
      [] op = "red_xor" -> fs_red_xor(a, w)     [] op = "log_not" -> fs_log_not(a, w)
      [] op = "log_and" -> fs_log_and(a, b, w)  [] op = "log_or" -> fs_log_or(a, b, w)
      [] op = "add" -> fs_add(a, b, w)          [] op = "sub" -> fs_sub(a, b, w)
      [] op = "mul" -> fs_mul(a, b, w)          [] op = "div" -> fs_div(a, b, w)
      [] op = "mod" -> fs_mod(a, b, w)          [] op = "pow" -> fs_pow(a, b, w)
      [] op = "spow" -> fs_spow(a, b, w)        [] op = "sdiv" -> fs_sdiv(a, b, w)
      [] op = "smod" -> fs_smod(a, b, w)        [] op = "eq" -> fs_eq(a, b, w)
      [] op = "ne" -> fs_ne(a, b, w)            [] op = "lt" -> fs_lt(a, b, w)
      [] op = "gt" -> fs_gt(a, b, w)            [] op = "le" -> fs_le(a, b, w)
      [] op = "ge" -> fs_ge(a, b, w)            [] op = "slt" -> fs_slt(a, b, w)
      [] op = "sle" -> fs_sle(a, b, w)          [] op = "sgt" -> fs_sgt(a, b, w)
      [] op = "sge" -> fs_sge(a, b, w)          [] op = "shl" -> fs_shl(a, b, w)
      [] op = "shr" -> fs_shr(a, b, w)          [] op = "sar" -> fs_sar(a, b, w)
      [] op = "sext" -> fs_sext(a, w, Top(w))   [] op = "muxx" -> fs_mux(fs_allx(1), a, b, w)
      [] op = "case_eq" -> fs_case_eq(a, b, w)  [] op = "casez" -> fs_casez(a, b, b.xz, w)
      [] op = "casex" -> fs_casex(a, b, w)

\* The answer is the sequence of what the called function has returned.
FsInit == (\E w \in FsWidths: call \in Calls(w)) /\ answer = <<>>

Return(value) == answer = <<>> /\ answer' = <<value>> /\ UNCHANGED call

FsReturns == call.lib = "fs" /\ Return(FsAnswer(call.op, call.a, call.b, call.width))

Answered == answer # <<>> /\ UNCHANGED vars

FsSpec == FsInit /\ [][FsReturns \/ Answered]_vars

AnswerOf(lib, ops) == answer # <<>> /\ call.lib = lib /\ call.op \in ops
Result == answer[1]

\* The width of an answer.
WidthOf(op, w) ==
    CASE op \in {"red_and", "red_or", "red_xor", "log_not", "log_and", "log_or"} \cup Comparisons -> 1
      [] op = "sext" -> Top(w)
      [] OTHER -> w

\* Every answer is a vector again: its planes have no bit beyond its width,
\* which the functions that compare whole words rely on.
FsFits == AnswerOf("fs", FsOps \ FsMatches) => Result \in Fs(WidthOf(call.op, call.width))

(***************************************************************************)
(* A word with unknown bits stands for all its completions.                *)
(***************************************************************************)
Completions(a) == {(a.val \ a.xz) \cup s: s \in SUBSET a.xz}

Truth(p) == IF p THEN {0} ELSE {}

\* What the operations on bits do to two-valued words.
BitMeaning(op, x, y, w) ==
    CASE op = "not" -> fs_mask(w) \ x         [] op = "and" -> x \cap y
      [] op = "or" -> x \cup y                [] op = "xor" -> (x \ y) \cup (y \ x)
      [] op = "red_and" -> Truth(x = fs_mask(w))
      [] op = "red_or" -> Truth(x # {})       [] op = "red_xor" -> Truth(Cardinality(x) % 2 = 1)
      [] op = "log_not" -> Truth(x = {})      [] op = "log_and" -> Truth(x # {} /\ y # {})
      [] op = "log_or" -> Truth(x # {} \/ y # {})

\* What a call means, over all values of its unknown bits.
BitMeanings(op, a, b, w) ==
    IF op = "muxx" THEN Completions(a) \cup Completions(b)
    ELSE {BitMeaning(op, x, y, w): x \in Completions(a), y \in Completions(b)}

\* Two's complement, from the weight of the sign bit.
SignedNum(x, w) == Num(x \ {w - 1}) - (IF w - 1 \in x THEN 2^(w - 1) ELSE 0)

Truncated(m, n) ==
    CHOOSE q \in -(2^WordBits)..(2^WordBits):
        LET r == m - q * n
        IN  /\ r < (IF n < 0 THEN -n ELSE n) /\ -r < (IF n < 0 THEN -n ELSE n)
            /\ r = 0 \/ (r < 0) = (m < 0)

Raised(m, n) ==
    LET power[i \in 0..n] == IF i = 0 THEN 1 ELSE m * power[i - 1]
    IN  power[n]
Fit(n, w) == ToWord(n) \cap fs_mask(w)

\* What the operations on numbers do to two-valued words.
NumberMeaning(op, x, y, w) ==
    LET m == Num(x)
        n == Num(y)
        sm == SignedNum(x, w)
        sn == SignedNum(y, w)
    IN  CASE op = "add" -> Fit(m + n, w)          [] op = "sub" -> Fit(m - n, w)
          [] op = "mul" -> Fit(m * n, w)          [] op = "div" -> Fit(m \div n, w)
          [] op = "mod" -> Fit(m % n, w)          [] op = "pow" -> Fit(Raised(m, n), w)
          [] op = "spow" -> IF sn < 0 THEN {} ELSE Fit(Raised(m, sn), w)
          [] op = "sdiv" -> Fit(Truncated(sm, sn), w)
          [] op = "smod" -> Fit(sm - sn * Truncated(sm, sn), w)
          [] op = "eq" -> Truth(m = n)            [] op = "ne" -> Truth(m # n)
          [] op = "lt" -> Truth(m < n)            [] op = "gt" -> Truth(m > n)
          [] op = "le" -> Truth(m <= n)           [] op = "ge" -> Truth(m >= n)
          [] op = "slt" -> Truth(sm < sn)         [] op = "sle" -> Truth(sm <= sn)
          [] op = "sgt" -> Truth(sm > sn)         [] op = "sge" -> Truth(sm >= sn)
          [] op = "shl" -> Fit(m * 2^n, w)        [] op = "shr" -> Fit(m \div 2^n, w)
          [] op = "sar" -> Fit(sm \div 2^n, w)    [] op = "sext" -> Fit(sm, Top(w))

NumberMeanings(op, a, b, w) ==
    {NumberMeaning(op, x, y, w):
        x \in Completions(a),
        y \in IF op = "sext" THEN {{}}
              ELSE IF op \in Divisions THEN Completions(b) \ {{}} ELSE Completions(b)}

\* The known bits of r are those of every meaning.
RightFor(r, meanings) == \A m \in meanings: m \ r.xz = r.val \ r.xz

\* A bit of r is unknown only if the meanings differ in it.
NeededFor(r, meanings) == \A i \in r.xz: \E m, n \in meanings: i \in m /\ i \notin n

\* The operators that look at single bits fit their width and are exact: a known bit is
\* right for every value the unknown operand bits may have, and a bit is unknown
\* only if those values disagree on it.  The three matches of case statements are
\* statements about completions too.  (gpga_4state.h.)
BitsExact ==
    /\ AnswerOf("fs", BitOps) =>
          LET meanings == BitMeanings(call.op, call.a, call.b, call.width)
          IN  /\ Result \in Fs(WidthOf(call.op, call.width))
              /\ RightFor(Result, meanings) /\ NeededFor(Result, meanings)
    /\ AnswerOf("fs", {"case_eq"}) => (Result <=> Completions(call.a) = Completions(call.b))
    /\ AnswerOf("fs", {"casez"}) => (Result <=> \A x \in Completions(call.a): SymDiff(x, call.b.val) \subseteq call.b.xz)
    /\ AnswerOf("fs", {"casex"}) => (Result <=> Completions(call.a) \cap Completions(call.b) # {})

\* Arithmetic, comparisons, shifts and extensions fit their width, are right for every
\* value the unknown bits may have, and unknown only if an operand is or a divisor
\* is zero.  (gpga_4state.h.)
NumbersExact ==
    AnswerOf("fs", NumberOps) =>
        /\ Result \in Fs(WidthOf(call.op, call.width))
        /\ RightFor(Result, NumberMeanings(call.op, call.a, call.b, call.width))
        /\ Result.xz # {} => \/ call.a.xz # {}
                             \/ call.op # "sext" /\ call.b.xz # {}
                             \/ call.op \in Divisions /\ call.b.val = {}

\* How the waveform writer shows a bit.
EmitBit(v, i) ==
    IF i \in v.xz THEN IF i \in v.val THEN "x" ELSE "z"
    ELSE IF i \in v.val THEN "1" ELSE "0"

\* No bitwise operator gives a z: the tables of FOUR_STATE_TABLES.md hold
\* 0, 1 and x only.  (gpga_4state.h against the VCD writer of main.mm.)
BitwiseGivesNoZ ==
    AnswerOf("fs", {"not", "and", "or", "xor"}) =>
        \A i \in fs_mask(call.width): EmitBit(Result, i) # "z"
=============================================================================
