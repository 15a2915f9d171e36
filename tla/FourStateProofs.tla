-------------------------- MODULE FourStateProofs --------------------------
(***************************************************************************)
(* Proofs about FourStateCalls: for words of any number of bits and        *)
(* operands of any width, every answer is a vector of its width, the       *)
(* operators that look at single bits are exact, and the operators that    *)
(* take words for numbers are those of integers.                           *)
(***************************************************************************)
EXTENDS FourStateCalls, FiniteSetTheorems, WellFoundedInduction, TLAPS

-----------------------------------------------------------------------------
(* Vectors.                                                                *)

\* What the functions build answers with is a vector of its width.
LEMMA MakeFits ==
  ASSUME NEW v, NEW x, NEW w
  PROVE  fs_make(v, x, w) \in Fs(w) /\ fs_allx(w) \in Fs(w) /\ fs_resize([val |-> v, xz |-> x], w) \in Fs(w)
BY DEF fs_make, fs_allx, fs_resize, Fs

\* A vector's planes, as sets of bits below its width.
LEMMA Planes ==
  ASSUME NEW w, NEW a \in Fs(w)
  PROVE  /\ a.val \subseteq fs_mask(w) /\ a.xz \subseteq fs_mask(w)
         /\ a = [val |-> a.val, xz |-> a.xz]
BY DEF Fs

\* A word has a bit, so every mask of a positive width has bit 0.
LEMMA LowBit ==
  ASSUME NEW w \in 1..WordBits
  PROVE  0 \in fs_mask(w) /\ fs_mask(1) = {0} /\ fs_mask(w) \subseteq Bits
BY WordBitsAssumption DEF fs_mask, Bits

LEMMA BoolFits ==
  ASSUME NEW p
  PROVE  Bool(p) \in Fs(1) /\ fs_allx(1) = [val |-> {}, xz |-> {0}]
<1>1. fs_mask(1) = {0}
  BY WordBitsAssumption, LowBit
<1> QED
  BY <1>1 DEF Bool, Fs, fs_allx

LEMMA DecidedFits ==
  ASSUME NEW p, NEW q
  PROVE  Decided(p, q) \in Fs(1)
BY BoolFits, MakeFits DEF Decided

LEMMA ComparedFits ==
  ASSUME NEW a, NEW b, NEW p
  PROVE  Compared(a, b, p) \in Fs(1)
BY BoolFits, MakeFits DEF Compared

LEMMA StrictFits ==
  ASSUME NEW a, NEW b, NEW w, NEW n
  PROVE  Strict(a, b, w, n) \in Fs(w)
BY MakeFits DEF Strict

\* The answers of one bit.
LEMMA TruthsFit ==
  ASSUME NEW op \in {"red_and", "red_or", "red_xor", "log_not", "log_and", "log_or"} \cup Comparisons,
         NEW w, NEW a, NEW b
  PROVE  FsAnswer(op, a, b, w) \in Fs(1)
<1>1. CASE op \in {"red_and", "red_or", "log_not", "log_and", "log_or"}
  BY <1>1, DecidedFits
  DEF FsAnswer, fs_red_and, fs_red_or, fs_log_not, fs_log_and, fs_log_or
<1>2. CASE op = "red_xor"
  BY <1>2, BoolFits, MakeFits DEF FsAnswer, fs_red_xor
<1>3. CASE op \in {"eq", "ne", "lt", "gt", "le", "ge"}
  BY <1>3, ComparedFits DEF FsAnswer, fs_eq, fs_ne, fs_lt, fs_gt, fs_le, fs_ge
<1>4. CASE op \in {"slt", "sle", "sgt", "sge"}
  BY <1>4, ComparedFits DEF FsAnswer, fs_slt, fs_sle, fs_sgt, fs_sge
<1> QED
  BY <1>1, <1>2, <1>3, <1>4 DEF Comparisons

\* The answers of the width of the operands.
LEMMA VectorsFit ==
  ASSUME NEW op \in {"not", "and", "or", "xor", "muxx", "shl", "shr", "sar"} \cup (FsStrict \ Comparisons),
         NEW w, NEW a, NEW b
  PROVE  FsAnswer(op, a, b, w) \in Fs(w)
<1>1. CASE op \in {"not", "and", "or", "xor"}
  BY <1>1 DEF FsAnswer, Fs, fs_not, fs_and, fs_or, fs_xor, Knowing, Known0, Known1
<1>2. CASE op = "muxx"
  <2>1. fs_merge(a, b, w) \in Fs(w) /\ fs_resize(a, w) \in Fs(w) /\ fs_resize(b, w) \in Fs(w)
    BY DEF fs_merge, Fs, fs_resize, fs_make
  <2> QED
    BY <1>2, <2>1 DEF FsAnswer, fs_mux
<1>3. CASE op \in {"add", "sub", "mul", "div", "mod", "pow"}
  BY <1>3, StrictFits, MakeFits DEF FsAnswer, fs_add, fs_sub, fs_mul, fs_div, fs_mod, fs_pow
<1>4. CASE op \in {"spow", "sdiv", "smod"}
  BY <1>4, MakeFits DEF FsAnswer, fs_spow, fs_sdiv, fs_smod
<1>5. CASE op \in {"shl", "shr", "sar"}
  BY <1>5, MakeFits DEF FsAnswer, fs_shl, fs_shr, fs_sar
<1> QED
  BY <1>1, <1>2, <1>3, <1>4, <1>5 DEF FsStrict, Divisions

LEMMA AnswersFit ==
  ASSUME NEW op \in FsOps, NEW w, NEW a, NEW b
  PROVE  /\ op \notin FsMatches => FsAnswer(op, a, b, w) \in Fs(WidthOf(op, w))
         /\ op \in FsMatches => FsAnswer(op, a, b, w) \in BOOLEAN
<1>1. CASE op \in FsMatches
  BY <1>1 DEF FsMatches, FsAnswer, fs_case_eq, fs_casez, fs_casex
<1>2. CASE op = "sext"
  BY <1>2, MakeFits DEF FsMatches, FsAnswer, WidthOf, Comparisons, fs_sext
<1>3. CASE op \in {"red_and", "red_or", "red_xor", "log_not", "log_and", "log_or"} \cup Comparisons
  BY <1>3, TruthsFit DEF WidthOf, FsMatches, Comparisons
<1>4. CASE op \in {"not", "and", "or", "xor", "muxx", "shl", "shr", "sar"} \cup (FsStrict \ Comparisons)
  BY <1>4, VectorsFit DEF WidthOf, FsMatches, FsStrict, Comparisons, Divisions
<1> QED
  BY <1>1, <1>2, <1>3, <1>4 DEF FsOps, BitOps, BitUnary, BitBinary, NumberOps, FsStrict, FsMatches

-----------------------------------------------------------------------------
(* Completions.                                                            *)

\* A completion has the known bits of its word and no others.
LEMMA CompletionBits ==
  ASSUME NEW a, NEW x
  PROVE  x \in Completions(a) <=> a.val \ a.xz \subseteq x /\ x \subseteq a.val \cup a.xz
<1>1. ASSUME x \in Completions(a) PROVE a.val \ a.xz \subseteq x /\ x \subseteq a.val \cup a.xz
  BY <1>1 DEF Completions
<1>2. ASSUME a.val \ a.xz \subseteq x, x \subseteq a.val \cup a.xz PROVE x \in Completions(a)
  <2>1. x = (a.val \ a.xz) \cup (x \cap a.xz)
    BY <1>2
  <2> QED
    BY <2>1 DEF Completions
<1> QED
  BY <1>1, <1>2

Least(a) == a.val \ a.xz
Greatest(a) == a.val \cup a.xz

LEMMA Extremes ==
  ASSUME NEW a
  PROVE  Least(a) \in Completions(a) /\ Greatest(a) \in Completions(a)
BY CompletionBits DEF Least, Greatest

-----------------------------------------------------------------------------
(* Operators on the bits of two vectors.                                   *)

\* The meanings of a call, one for each pair of completions.
LEMMA Meant ==
  ASSUME NEW op \in BitOps \ {"muxx"}, NEW a, NEW b, NEW w
  PROVE  /\ \A m \in BitMeanings(op, a, b, w) :
                \E x \in Completions(a), y \in Completions(b) : m = BitMeaning(op, x, y, w)
         /\ \A x \in Completions(a), y \in Completions(b) :
                BitMeaning(op, x, y, w) \in BitMeanings(op, a, b, w)
BY DEF BitMeanings

\* A bit is known to be zero, or to be one, if it is so in every completion.
LEMMA KnownBits ==
  ASSUME NEW w, NEW a \in Fs(w), NEW x \in Completions(a)
  PROVE  /\ Known1(a, w) \subseteq x /\ x \cap Known0(a, w) = {} /\ x \subseteq fs_mask(w)
         /\ Known1(a, w) = Least(a) /\ fs_mask(w) \ Known0(a, w) = Greatest(a)
<1>1. a.val \subseteq fs_mask(w) /\ a.xz \subseteq fs_mask(w)
  BY Planes
<1>2. a.val \ a.xz \subseteq x /\ x \subseteq a.val \cup a.xz
  BY CompletionBits
<1> QED
  BY <1>1, <1>2 DEF Known0, Known1, Least, Greatest

\* What is built from bits known to be zero and to be one is exact, if every
\* meaning has those bits and two of them show every other bit.
LEMMA KnowingExact ==
  ASSUME NEW w, NEW known0 \in SUBSET fs_mask(w), NEW known1 \in SUBSET fs_mask(w), NEW meanings,
         known1 \in meanings, fs_mask(w) \ known0 \in meanings, known0 \cap known1 = {},
         \A m \in meanings : known1 \subseteq m /\ m \subseteq fs_mask(w) \ known0
  PROVE  LET r == Knowing(known0, known1, w)
         IN  RightFor(r, meanings) /\ NeededFor(r, meanings)
<1> DEFINE r == Knowing(known0, known1, w)
<1>1. r.val = known1 /\ r.xz = fs_mask(w) \ (known0 \cup known1)
  BY DEF Knowing
<1>2. ASSUME NEW m \in meanings PROVE m \ r.xz = r.val \ r.xz
  <2>1. known1 \subseteq m /\ m \subseteq fs_mask(w) \ known0
    BY <1>2
  <2> QED
    BY <1>1, <2>1
<1>3. ASSUME NEW i \in r.xz PROVE \E m, n \in meanings : i \in m /\ i \notin n
  <2>1. i \in fs_mask(w) \ known0 /\ i \notin known1
    BY <1>1, <1>3
  <2> QED
    BY <2>1
<1> QED
  BY <1>2, <1>3 DEF RightFor, NeededFor

LEMMA AndExact ==
  ASSUME NEW w, NEW a \in Fs(w), NEW b \in Fs(w)
  PROVE  LET meanings == BitMeanings("and", a, b, w)
         IN  RightFor(fs_and(a, b, w), meanings) /\ NeededFor(fs_and(a, b, w), meanings)
<1> DEFINE zero == Known0(a, w) \cup Known0(b, w)
           one == Known1(a, w) \cap Known1(b, w)
           meanings == BitMeanings("and", a, b, w)
<1>1. \A x, y : BitMeaning("and", x, y, w) = x \cap y
  BY DEF BitMeaning
<1>2. /\ \A m \in meanings : \E x \in Completions(a), y \in Completions(b) : m = x \cap y
      /\ \A x \in Completions(a), y \in Completions(b) : x \cap y \in meanings
  <2>1. "and" \in BitOps \ {"muxx"}
    BY DEF BitOps, BitBinary
  <2> HIDE DEF meanings
  <2>2. /\ \A m \in meanings : \E x \in Completions(a), y \in Completions(b) : m = BitMeaning("and", x, y, w)
        /\ \A x \in Completions(a), y \in Completions(b) : BitMeaning("and", x, y, w) \in meanings
    BY <2>1, Meant DEF meanings
  <2>3. ASSUME NEW m \in meanings PROVE \E x \in Completions(a), y \in Completions(b) : m = x \cap y
    <3>1. PICK x \in Completions(a), y \in Completions(b) : m = BitMeaning("and", x, y, w)
      BY <2>2
    <3> QED
      BY <1>1, <3>1
  <2>4. ASSUME NEW x \in Completions(a), NEW y \in Completions(b) PROVE x \cap y \in meanings
    <3>1. BitMeaning("and", x, y, w) = x \cap y
      BY <1>1
    <3> QED
      BY <2>2, <3>1
  <2> QED
    BY <2>3, <2>4
<1>3. /\ Known1(a, w) = Least(a) /\ fs_mask(w) \ Known0(a, w) = Greatest(a)
      /\ Known1(b, w) = Least(b) /\ fs_mask(w) \ Known0(b, w) = Greatest(b)
  BY KnownBits, Extremes
<1>4. one \in meanings /\ fs_mask(w) \ zero \in meanings
  <2>1. fs_mask(w) \ zero = Greatest(a) \cap Greatest(b)
    BY <1>3
  <2> QED
    BY <1>2, <1>3, <2>1, Extremes
<1>5. ASSUME NEW m \in meanings PROVE one \subseteq m /\ m \subseteq fs_mask(w) \ zero
  <2>1. PICK x \in Completions(a), y \in Completions(b) : m = x \cap y
    BY <1>2
  <2>2. Known1(a, w) \subseteq x /\ x \cap Known0(a, w) = {} /\ x \subseteq fs_mask(w)
    BY KnownBits
  <2>3. Known1(b, w) \subseteq y /\ y \cap Known0(b, w) = {} /\ y \subseteq fs_mask(w)
    BY KnownBits
  <2> QED
    BY <2>1, <2>2, <2>3
<1>6. zero \in SUBSET fs_mask(w) /\ one \in SUBSET fs_mask(w) /\ zero \cap one = {}
  BY DEF Known0, Known1
<1> HIDE DEF zero, one, meanings
<1>7. RightFor(Knowing(zero, one, w), meanings) /\ NeededFor(Knowing(zero, one, w), meanings)
  BY <1>4, <1>5, <1>6, KnowingExact
<1> QED
  BY <1>7 DEF fs_and, zero, one, meanings

LEMMA OrExact ==
  ASSUME NEW w, NEW a \in Fs(w), NEW b \in Fs(w)
  PROVE  LET meanings == BitMeanings("or", a, b, w)
         IN  RightFor(fs_or(a, b, w), meanings) /\ NeededFor(fs_or(a, b, w), meanings)
<1> DEFINE zero == Known0(a, w) \cap Known0(b, w)
           one == Known1(a, w) \cup Known1(b, w)
           meanings == BitMeanings("or", a, b, w)
<1>1. \A x, y : BitMeaning("or", x, y, w) = x \cup y
  BY DEF BitMeaning
<1>2. /\ \A m \in meanings : \E x \in Completions(a), y \in Completions(b) : m = x \cup y
      /\ \A x \in Completions(a), y \in Completions(b) : x \cup y \in meanings
  <2>1. "or" \in BitOps \ {"muxx"}
    BY DEF BitOps, BitBinary
  <2> HIDE DEF meanings
  <2>2. /\ \A m \in meanings : \E x \in Completions(a), y \in Completions(b) : m = BitMeaning("or", x, y, w)
        /\ \A x \in Completions(a), y \in Completions(b) : BitMeaning("or", x, y, w) \in meanings
    BY <2>1, Meant DEF meanings
  <2>3. ASSUME NEW m \in meanings PROVE \E x \in Completions(a), y \in Completions(b) : m = x \cup y
    <3>1. PICK x \in Completions(a), y \in Completions(b) : m = BitMeaning("or", x, y, w)
      BY <2>2
    <3> QED
      BY <1>1, <3>1
  <2>4. ASSUME NEW x \in Completions(a), NEW y \in Completions(b) PROVE x \cup y \in meanings
    <3>1. BitMeaning("or", x, y, w) = x \cup y
      BY <1>1
    <3> QED
      BY <2>2, <3>1
  <2> QED
    BY <2>3, <2>4
<1>3. /\ Known1(a, w) = Least(a) /\ fs_mask(w) \ Known0(a, w) = Greatest(a)
      /\ Known1(b, w) = Least(b) /\ fs_mask(w) \ Known0(b, w) = Greatest(b)
  BY KnownBits, Extremes
<1>4. one \in meanings /\ fs_mask(w) \ zero \in meanings
  <2>1. fs_mask(w) \ zero = Greatest(a) \cup Greatest(b)
    BY <1>3
  <2> QED
    BY <1>2, <1>3, <2>1, Extremes
<1>5. ASSUME NEW m \in meanings PROVE one \subseteq m /\ m \subseteq fs_mask(w) \ zero
  <2>1. PICK x \in Completions(a), y \in Completions(b) : m = x \cup y
    BY <1>2
  <2>2. Known1(a, w) \subseteq x /\ x \cap Known0(a, w) = {} /\ x \subseteq fs_mask(w)
    BY KnownBits
  <2>3. Known1(b, w) \subseteq y /\ y \cap Known0(b, w) = {} /\ y \subseteq fs_mask(w)
    BY KnownBits
  <2> QED
    BY <2>1, <2>2, <2>3
<1>6. zero \in SUBSET fs_mask(w) /\ one \in SUBSET fs_mask(w) /\ zero \cap one = {}
  BY DEF Known0, Known1
<1> HIDE DEF zero, one, meanings
<1>7. RightFor(Knowing(zero, one, w), meanings) /\ NeededFor(Knowing(zero, one, w), meanings)
  BY <1>4, <1>5, <1>6, KnowingExact
<1> QED
  BY <1>7 DEF fs_or, zero, one, meanings

LEMMA NotExact ==
  ASSUME NEW w, NEW a \in Fs(w), NEW b
  PROVE  LET meanings == BitMeanings("not", a, b, w)
         IN  RightFor(fs_not(a, w), meanings) /\ NeededFor(fs_not(a, w), meanings)
<1> DEFINE r == fs_not(a, w)
           meanings == BitMeanings("not", a, b, w)
<1>1. \A x, y : BitMeaning("not", x, y, w) = fs_mask(w) \ x
  BY DEF BitMeaning
<1>2. /\ \A m \in meanings : \E x \in Completions(a) : m = fs_mask(w) \ x
      /\ \A x \in Completions(a) : fs_mask(w) \ x \in meanings
  <2>1. "not" \in BitOps \ {"muxx"}
    BY DEF BitOps, BitUnary
  <2> HIDE DEF meanings
  <2>2. /\ \A m \in meanings : \E x \in Completions(a), y \in Completions(b) : m = BitMeaning("not", x, y, w)
        /\ \A x \in Completions(a), y \in Completions(b) : BitMeaning("not", x, y, w) \in meanings
    BY <2>1, Meant DEF meanings
  <2>3. ASSUME NEW m \in meanings PROVE \E x \in Completions(a) : m = fs_mask(w) \ x
    <3>1. PICK x \in Completions(a), y \in Completions(b) : m = BitMeaning("not", x, y, w)
      BY <2>2
    <3> QED
      BY <1>1, <3>1
  <2>4. ASSUME NEW x \in Completions(a) PROVE fs_mask(w) \ x \in meanings
    <3>1. BitMeaning("not", x, Least(b), w) = fs_mask(w) \ x
      BY <1>1
    <3> QED
      BY <2>2, <3>1, Extremes
  <2> QED
    BY <2>3, <2>4
<1>3. r.val = fs_mask(w) \ a.val /\ r.xz = a.xz /\ a.val \subseteq fs_mask(w) /\ a.xz \subseteq fs_mask(w)
  BY DEF fs_not, Fs
<1>4. ASSUME NEW m \in meanings PROVE m \ r.xz = r.val \ r.xz
  <2>1. PICK x \in Completions(a) : m = fs_mask(w) \ x
    BY <1>2
  <2>2. a.val \ a.xz \subseteq x /\ x \subseteq a.val \cup a.xz
    BY CompletionBits
  <2> QED
    BY <1>3, <2>1, <2>2
<1>5. ASSUME NEW i \in r.xz PROVE \E m, n \in meanings : i \in m /\ i \notin n
  <2>1. fs_mask(w) \ Least(a) \in meanings /\ fs_mask(w) \ Greatest(a) \in meanings
    BY <1>2, Extremes
  <2>2. i \in fs_mask(w) \ Least(a) /\ i \notin fs_mask(w) \ Greatest(a)
    BY <1>3, <1>5 DEF Least, Greatest
  <2> QED
    BY <2>1, <2>2
<1> QED
  BY <1>4, <1>5 DEF RightFor, NeededFor

LEMMA XorExact ==
  ASSUME NEW w, NEW a \in Fs(w), NEW b \in Fs(w)
  PROVE  LET meanings == BitMeanings("xor", a, b, w)
         IN  RightFor(fs_xor(a, b, w), meanings) /\ NeededFor(fs_xor(a, b, w), meanings)
<1> DEFINE r == fs_xor(a, b, w)
           meanings == BitMeanings("xor", a, b, w)
<1>1. \A x, y : BitMeaning("xor", x, y, w) = SymDiff(x, y)
  BY DEF BitMeaning, SymDiff
<1>2. /\ \A m \in meanings : \E x \in Completions(a), y \in Completions(b) : m = SymDiff(x, y)
      /\ \A x \in Completions(a), y \in Completions(b) : SymDiff(x, y) \in meanings
  <2>1. "xor" \in BitOps \ {"muxx"}
    BY DEF BitOps, BitBinary
  <2> HIDE DEF meanings
  <2>2. /\ \A m \in meanings : \E x \in Completions(a), y \in Completions(b) : m = BitMeaning("xor", x, y, w)
        /\ \A x \in Completions(a), y \in Completions(b) : BitMeaning("xor", x, y, w) \in meanings
    BY <2>1, Meant DEF meanings
  <2> QED
    BY <1>1, <2>2
<1>3. /\ a.val \subseteq fs_mask(w) /\ a.xz \subseteq fs_mask(w)
      /\ b.val \subseteq fs_mask(w) /\ b.xz \subseteq fs_mask(w)
  BY Planes
<1>4. r.xz = a.xz \cup b.xz /\ r.val = SymDiff(a.val, b.val) \ (a.xz \cup b.xz)
  BY <1>3 DEF fs_xor, SymDiff
<1>5. ASSUME NEW m \in meanings PROVE m \ r.xz = r.val \ r.xz
  <2>1. PICK x \in Completions(a), y \in Completions(b) : m = SymDiff(x, y)
    BY <1>2
  <2>2. a.val \ a.xz \subseteq x /\ x \subseteq a.val \cup a.xz /\ b.val \ b.xz \subseteq y /\ y \subseteq b.val \cup b.xz
    BY CompletionBits
  <2> QED
    BY <1>4, <2>1, <2>2 DEF SymDiff
<1>6. ASSUME NEW i \in r.xz PROVE \E m, n \in meanings : i \in m /\ i \notin n
  <2>1. /\ SymDiff(Least(a), Least(b)) \in meanings /\ SymDiff(Least(a), Greatest(b)) \in meanings
        /\ SymDiff(Greatest(a), Least(b)) \in meanings
    BY <1>2, Extremes
  <2>2. CASE i \in a.xz
    <3>1. i \in SymDiff(Least(a), Least(b)) <=> i \notin SymDiff(Greatest(a), Least(b))
      BY <2>2 DEF Least, Greatest, SymDiff
    <3> QED
      BY <2>1, <3>1
  <2>3. CASE i \in b.xz
    <3>1. i \in SymDiff(Least(a), Least(b)) <=> i \notin SymDiff(Least(a), Greatest(b))
      BY <2>3 DEF Least, Greatest, SymDiff
    <3> QED
      BY <2>1, <3>1
  <2> QED
    BY <1>4, <1>6, <2>2, <2>3
<1> QED
  BY <1>5, <1>6 DEF RightFor, NeededFor

\* A mux with an unknown condition merges its branches.
LEMMA MuxExact ==
  ASSUME NEW w \in 1..WordBits, NEW a \in Fs(w), NEW b \in Fs(w)
  PROVE  LET r == fs_mux(fs_allx(1), a, b, w)
             meanings == BitMeanings("muxx", a, b, w)
         IN  RightFor(r, meanings) /\ NeededFor(r, meanings)
<1> DEFINE r == fs_mux(fs_allx(1), a, b, w)
           meanings == BitMeanings("muxx", a, b, w)
<1>1. meanings = Completions(a) \cup Completions(b)
  BY DEF BitMeanings
<1>2. /\ a.val \subseteq fs_mask(w) /\ a.xz \subseteq fs_mask(w)
      /\ b.val \subseteq fs_mask(w) /\ b.xz \subseteq fs_mask(w)
  BY Planes
<1>3. r = fs_merge(a, b, w)
  BY LowBit DEF fs_mux, fs_allx
<1>4. \A i \in fs_mask(w) : i \notin r.xz <=> i \notin a.xz /\ i \notin b.xz /\ (i \in a.val <=> i \in b.val)
  BY <1>3, LowBit DEF fs_merge, SymDiff, Complement
<1>5. r.xz \subseteq fs_mask(w) /\ r.val = a.val \ r.xz
  BY <1>2, <1>3, LowBit DEF fs_merge, SymDiff, Complement
<1> HIDE DEF r, meanings
<1>6. ASSUME NEW m \in meanings PROVE m \ r.xz = r.val \ r.xz
  <2>1. \/ a.val \ a.xz \subseteq m /\ m \subseteq a.val \cup a.xz
        \/ b.val \ b.xz \subseteq m /\ m \subseteq b.val \cup b.xz
    BY <1>1, <1>6, CompletionBits
  <2> QED
    BY <1>2, <1>4, <1>5, <2>1
<1>7. ASSUME NEW i \in r.xz PROVE \E m, n \in meanings : i \in m /\ i \notin n
  <2>1. Least(a) \in meanings /\ Greatest(a) \in meanings /\ Least(b) \in meanings /\ Greatest(b) \in meanings
    BY <1>1, Extremes
  <2>2. i \in a.xz \/ i \in b.xz \/ ~(i \in a.val <=> i \in b.val)
    BY <1>4, <1>5, <1>7
  <2>3. CASE i \in a.xz
    BY <2>1, <2>3 DEF Least, Greatest
  <2>4. CASE i \in b.xz
    BY <2>1, <2>4 DEF Least, Greatest
  <2>5. CASE i \notin a.xz /\ i \notin b.xz
    BY <2>1, <2>2, <2>5 DEF Least, Greatest
  <2> QED
    BY <2>3, <2>4, <2>5
<1> QED
  BY <1>6, <1>7 DEF RightFor, NeededFor, r, meanings

-----------------------------------------------------------------------------
(* Operators that answer a truth.                                          *)

\* An answer decided by two conditions is exact, if the first makes every
\* meaning true, the second makes every meaning false, and without either
\* there are meanings of both kinds.
LEMMA DecidedExact ==
  ASSUME NEW meanings, NEW true \in BOOLEAN, NEW false \in BOOLEAN,
         \A m \in meanings : m \in {Truth(TRUE), Truth(FALSE)},
         true => ~false /\ \A m \in meanings : m = Truth(TRUE),
         false => \A m \in meanings : m = Truth(FALSE),
         ~true /\ ~false => Truth(TRUE) \in meanings /\ Truth(FALSE) \in meanings
  PROVE  RightFor(Decided(true, false), meanings) /\ NeededFor(Decided(true, false), meanings)
<1>1. Truth(TRUE) = {0} /\ Truth(FALSE) = {}
  BY DEF Truth
<1>2. CASE true \/ false
  <2>1. Decided(true, false) = [val |-> IF true THEN {0} ELSE {}, xz |-> {}]
    BY <1>2 DEF Decided, Bool
  <2> QED
    BY <1>1, <1>2, <2>1 DEF RightFor, NeededFor
<1>3. CASE ~(true \/ false)
  <2>1. Decided(true, false) = [val |-> {}, xz |-> {0}]
    BY <1>3, BoolFits DEF Decided
  <2>2. \A m \in meanings : m \ {0} = {} \ {0}
    BY <1>1
  <2>3. \A i \in {0} : i \in Truth(TRUE) /\ i \notin Truth(FALSE)
    BY <1>1
  <2> QED
    BY <1>3, <2>1, <2>2, <2>3 DEF RightFor, NeededFor
<1> QED
  BY <1>2, <1>3

\* The meaning of such an operator is a truth about a pair of completions.
LEMMA TruthsMeant ==
  ASSUME NEW x, NEW y, NEW w
  PROVE  /\ BitMeaning("red_and", x, y, w) = Truth(x = fs_mask(w))
         /\ BitMeaning("red_or", x, y, w) = Truth(x # {})
         /\ BitMeaning("red_xor", x, y, w) = Truth(Cardinality(x) % 2 = 1)
         /\ BitMeaning("log_not", x, y, w) = Truth(x = {})
         /\ BitMeaning("log_and", x, y, w) = Truth(x # {} /\ y # {})
         /\ BitMeaning("log_or", x, y, w) = Truth(x # {} \/ y # {})
BY DEF BitMeaning

LEMMA RedAndExact ==
  ASSUME NEW w \in 1..WordBits, NEW a \in Fs(w), NEW b
  PROVE  LET meanings == BitMeanings("red_and", a, b, w)
         IN  RightFor(fs_red_and(a, w), meanings) /\ NeededFor(fs_red_and(a, w), meanings)
<1> DEFINE true == Known1(a, w) = fs_mask(w) /\ Known0(a, w) = {}
           false == Known0(a, w) # {}
           meanings == BitMeanings("red_and", a, b, w)
<1>1. "red_and" \in BitOps \ {"muxx"}
  BY DEF BitOps, BitUnary
<1>2. /\ \A m \in meanings : \E x \in Completions(a) : m = Truth(x = fs_mask(w))
      /\ \A x \in Completions(a) : Truth(x = fs_mask(w)) \in meanings
  <2> HIDE DEF meanings
  <2>1. /\ \A m \in meanings : \E x \in Completions(a), y \in Completions(b) : m = BitMeaning("red_and", x, y, w)
        /\ \A x \in Completions(a), y \in Completions(b) : BitMeaning("red_and", x, y, w) \in meanings
    BY <1>1, Meant DEF meanings
  <2>2. \A x, y : BitMeaning("red_and", x, y, w) = Truth(x = fs_mask(w))
    BY TruthsMeant
  <2>3. Least(b) \in Completions(b)
    BY Extremes
  <2> QED
    BY <2>1, <2>2, <2>3
<1>3. \A x \in Completions(a) : Least(a) \subseteq x /\ x \subseteq Greatest(a) /\ x \subseteq fs_mask(w)
  BY KnownBits, CompletionBits DEF Least, Greatest
<1>4. Known1(a, w) = Least(a) /\ fs_mask(w) \ Known0(a, w) = Greatest(a) /\ Known0(a, w) \subseteq fs_mask(w)
  BY KnownBits, Extremes DEF Known0
<1> HIDE DEF meanings
<1>5. \A m \in meanings : m \in {Truth(TRUE), Truth(FALSE)}
  BY <1>2 DEF Truth
<1>6. ASSUME true PROVE ~false /\ \A m \in meanings : m = Truth(TRUE)
  <2>1. \A x \in Completions(a) : x = fs_mask(w)
    BY <1>3, <1>4, <1>6
  <2> QED
    BY <1>2, <1>6, <2>1
<1>7. ASSUME false PROVE \A m \in meanings : m = Truth(FALSE)
  <2>1. \A x \in Completions(a) : x # fs_mask(w)
    BY <1>3, <1>4, <1>7
  <2> QED
    BY <1>2, <2>1
<1>8. ASSUME ~true, ~false PROVE Truth(TRUE) \in meanings /\ Truth(FALSE) \in meanings
  <2>1. Greatest(a) = fs_mask(w) /\ Least(a) # fs_mask(w)
    BY <1>4, <1>8
  <2> QED
    BY <1>2, <2>1, Extremes
<1> HIDE DEF true, false
<1>9. true \in BOOLEAN /\ false \in BOOLEAN
  BY DEF true, false
<1>10. RightFor(Decided(true, false), meanings) /\ NeededFor(Decided(true, false), meanings)
  BY <1>5, <1>6, <1>7, <1>8, <1>9, DecidedExact
<1> QED
  BY <1>10 DEF fs_red_and, true, false, meanings

LEMMA RedOrExact ==
  ASSUME NEW w \in 1..WordBits, NEW a \in Fs(w), NEW b
  PROVE  LET meanings == BitMeanings("red_or", a, b, w)
         IN  RightFor(fs_red_or(a, w), meanings) /\ NeededFor(fs_red_or(a, w), meanings)
<1> DEFINE true == Known1(a, w) # {}
           false == Known0(a, w) = fs_mask(w)
           meanings == BitMeanings("red_or", a, b, w)
<1>1. "red_or" \in BitOps \ {"muxx"}
  BY DEF BitOps, BitUnary
<1>2. /\ \A m \in meanings : \E x \in Completions(a) : m = Truth(x # {})
      /\ \A x \in Completions(a) : Truth(x # {}) \in meanings
  BY <1>1, Meant, TruthsMeant, Extremes
<1>3. \A x \in Completions(a) : Least(a) \subseteq x /\ x \subseteq Greatest(a)
  BY CompletionBits DEF Least, Greatest
<1>4. /\ Known1(a, w) = Least(a) /\ fs_mask(w) \ Known0(a, w) = Greatest(a)
      /\ Known0(a, w) \subseteq fs_mask(w) /\ Least(a) \subseteq Greatest(a)
  <2>1. Known1(a, w) = Least(a) /\ fs_mask(w) \ Known0(a, w) = Greatest(a)
    BY KnownBits, Extremes
  <2>2. Known0(a, w) \subseteq fs_mask(w) /\ Least(a) \subseteq Greatest(a)
    BY DEF Known0, Least, Greatest
  <2> QED
    BY <2>1, <2>2
<1> HIDE DEF meanings
<1>5. \A m \in meanings : m \in {Truth(TRUE), Truth(FALSE)}
  BY <1>2 DEF Truth
<1>6. ASSUME true PROVE ~false /\ \A m \in meanings : m = Truth(TRUE)
  <2>1. \A x \in Completions(a) : x # {}
    BY <1>3, <1>4, <1>6
  <2> QED
    BY <1>2, <1>4, <1>6, <2>1
<1>7. ASSUME false PROVE \A m \in meanings : m = Truth(FALSE)
  <2>1. \A x \in Completions(a) : x = {}
    BY <1>3, <1>4, <1>7
  <2> QED
    BY <1>2, <2>1
<1>8. ASSUME ~true, ~false PROVE Truth(TRUE) \in meanings /\ Truth(FALSE) \in meanings
  <2>1. Greatest(a) # {} /\ Least(a) = {}
    BY <1>4, <1>8
  <2> QED
    BY <1>2, <2>1, Extremes
<1> HIDE DEF true, false
<1>9. true \in BOOLEAN /\ false \in BOOLEAN
  BY DEF true, false
<1>10. RightFor(Decided(true, false), meanings) /\ NeededFor(Decided(true, false), meanings)
  BY <1>5, <1>6, <1>7, <1>8, <1>9, DecidedExact
<1> QED
  BY <1>10 DEF fs_red_or, true, false, meanings

\* What the logical operators know of an operand.
LEMMA KnownTruth ==
  ASSUME NEW w \in 1..WordBits, NEW a \in Fs(w)
  PROVE  /\ IsTrue(a, w) \in BOOLEAN /\ IsFalse(a, w) \in BOOLEAN /\ ~(IsTrue(a, w) /\ IsFalse(a, w))
         /\ IsTrue(a, w) => \A x \in Completions(a) : x # {}
         /\ IsFalse(a, w) => \A x \in Completions(a) : x = {}
         /\ ~IsTrue(a, w) => \E x \in Completions(a) : x = {}
         /\ ~IsFalse(a, w) => \E x \in Completions(a) : x # {}
<1>1. a.val \subseteq fs_mask(w) /\ a.xz \subseteq fs_mask(w)
  BY Planes
<1>2. IsTrue(a, w) <=> Least(a) # {}
  BY <1>1 DEF IsTrue, Known1, Least
<1>3. IsFalse(a, w) <=> Greatest(a) = {}
  BY <1>1 DEF IsFalse, Greatest
<1>4. \A x \in Completions(a) : Least(a) \subseteq x /\ x \subseteq Greatest(a)
  BY CompletionBits DEF Least, Greatest
<1>5. IsTrue(a, w) \in BOOLEAN /\ IsFalse(a, w) \in BOOLEAN
  BY DEF IsTrue, IsFalse
<1> QED
  BY <1>2, <1>3, <1>4, <1>5, Extremes

LEMMA LogNotExact ==
  ASSUME NEW w \in 1..WordBits, NEW a \in Fs(w), NEW b
  PROVE  LET meanings == BitMeanings("log_not", a, b, w)
         IN  RightFor(fs_log_not(a, w), meanings) /\ NeededFor(fs_log_not(a, w), meanings)
<1> DEFINE true == ~IsTrue(a, w) /\ IsFalse(a, w)
           false == IsTrue(a, w)
           meanings == BitMeanings("log_not", a, b, w)
<1>1. "log_not" \in BitOps \ {"muxx"}
  BY DEF BitOps, BitUnary
<1>2. /\ \A m \in meanings : \E x \in Completions(a) : m = Truth(x = {})
      /\ \A x \in Completions(a) : Truth(x = {}) \in meanings
  BY <1>1, Meant, TruthsMeant, Extremes
<1> HIDE DEF meanings
<1>3. \A m \in meanings : m \in {Truth(TRUE), Truth(FALSE)}
  BY <1>2 DEF Truth
<1>4. true => ~false /\ \A m \in meanings : m = Truth(TRUE)
  BY <1>2, KnownTruth
<1>5. false => \A m \in meanings : m = Truth(FALSE)
  BY <1>2, KnownTruth
<1>6. ~true /\ ~false => Truth(TRUE) \in meanings /\ Truth(FALSE) \in meanings
  BY <1>2, KnownTruth
<1>7. true \in BOOLEAN /\ false \in BOOLEAN
  BY KnownTruth
<1> HIDE DEF true, false
<1>8. RightFor(Decided(true, false), meanings) /\ NeededFor(Decided(true, false), meanings)
  BY <1>3, <1>4, <1>5, <1>6, <1>7, DecidedExact
<1> QED
  BY <1>8 DEF fs_log_not, true, false, meanings

LEMMA LogAndExact ==
  ASSUME NEW w \in 1..WordBits, NEW a \in Fs(w), NEW b \in Fs(w)
  PROVE  LET meanings == BitMeanings("log_and", a, b, w)
         IN  RightFor(fs_log_and(a, b, w), meanings) /\ NeededFor(fs_log_and(a, b, w), meanings)
<1> DEFINE false == IsFalse(a, w) \/ IsFalse(b, w)
           true == ~false /\ IsTrue(a, w) /\ IsTrue(b, w)
           meanings == BitMeanings("log_and", a, b, w)
<1>1. "log_and" \in BitOps \ {"muxx"}
  BY DEF BitOps, BitBinary
<1>2. /\ \A m \in meanings : \E x \in Completions(a), y \in Completions(b) : m = Truth(x # {} /\ y # {})
      /\ \A x \in Completions(a), y \in Completions(b) : Truth(x # {} /\ y # {}) \in meanings
  BY <1>1, Meant, TruthsMeant
<1> HIDE DEF meanings
<1>3. \A m \in meanings : m \in {Truth(TRUE), Truth(FALSE)}
  BY <1>2 DEF Truth
<1>4. true => ~false /\ \A m \in meanings : m = Truth(TRUE)
  BY <1>2, KnownTruth
<1>5. false => \A m \in meanings : m = Truth(FALSE)
  BY <1>2, KnownTruth
<1>6. ~true /\ ~false => Truth(TRUE) \in meanings /\ Truth(FALSE) \in meanings
  <2>1. ASSUME ~true, ~false
        PROVE  /\ \E x \in Completions(a), y \in Completions(b) : x # {} /\ y # {}
               /\ \E x \in Completions(a), y \in Completions(b) : ~(x # {} /\ y # {})
    BY <2>1, KnownTruth, Extremes
  <2> QED
    BY <1>2, <2>1
<1>7. true \in BOOLEAN /\ false \in BOOLEAN
  BY KnownTruth
<1> HIDE DEF true, false
<1>8. RightFor(Decided(true, false), meanings) /\ NeededFor(Decided(true, false), meanings)
  BY <1>3, <1>4, <1>5, <1>6, <1>7, DecidedExact
<1> QED
  BY <1>8 DEF fs_log_and, true, false, meanings

LEMMA LogOrExact ==
  ASSUME NEW w \in 1..WordBits, NEW a \in Fs(w), NEW b \in Fs(w)
  PROVE  LET meanings == BitMeanings("log_or", a, b, w)
         IN  RightFor(fs_log_or(a, b, w), meanings) /\ NeededFor(fs_log_or(a, b, w), meanings)
<1> DEFINE true == IsTrue(a, w) \/ IsTrue(b, w)
           false == IsFalse(a, w) /\ IsFalse(b, w)
           meanings == BitMeanings("log_or", a, b, w)
<1>1. "log_or" \in BitOps \ {"muxx"}
  BY DEF BitOps, BitBinary
<1>2. /\ \A m \in meanings : \E x \in Completions(a), y \in Completions(b) : m = Truth(x # {} \/ y # {})
      /\ \A x \in Completions(a), y \in Completions(b) : Truth(x # {} \/ y # {}) \in meanings
  BY <1>1, Meant, TruthsMeant
<1> HIDE DEF meanings
<1>3. \A m \in meanings : m \in {Truth(TRUE), Truth(FALSE)}
  BY <1>2 DEF Truth
<1>4. true => ~false /\ \A m \in meanings : m = Truth(TRUE)
  BY <1>2, KnownTruth
<1>5. false => \A m \in meanings : m = Truth(FALSE)
  BY <1>2, KnownTruth
<1>6. ~true /\ ~false => Truth(TRUE) \in meanings /\ Truth(FALSE) \in meanings
  <2>1. ASSUME ~true, ~false
        PROVE  /\ \E x \in Completions(a), y \in Completions(b) : x # {} \/ y # {}
               /\ \E x \in Completions(a), y \in Completions(b) : ~(x # {} \/ y # {})
    BY <2>1, KnownTruth, Extremes
  <2> QED
    BY <1>2, <2>1
<1>7. true \in BOOLEAN /\ false \in BOOLEAN
  BY KnownTruth
<1> HIDE DEF true, false
<1>8. RightFor(Decided(true, false), meanings) /\ NeededFor(Decided(true, false), meanings)
  BY <1>3, <1>4, <1>5, <1>6, <1>7, DecidedExact
<1> QED
  BY <1>8 DEF fs_log_or, true, false, meanings

\* Setting an unknown bit changes the parity of the least completion.
LEMMA BothParities ==
  ASSUME NEW w \in 1..WordBits, NEW a \in Fs(w), NEW i \in a.xz
  PROVE  LET more == Least(a) \cup {i}
         IN  /\ more \in Completions(a)
             /\ Cardinality(more) % 2 = 1 <=> ~(Cardinality(Least(a)) % 2 = 1)
<1> DEFINE more == Least(a) \cup {i}
<1>1. more \in Completions(a)
  BY CompletionBits DEF Least
<1>2. Least(a) \subseteq Bits
  BY Planes, LowBit DEF Least
<1>3. IsFiniteSet(Bits)
  <2>1. 0 \in Int /\ WordBits - 1 \in Int
    BY WordBitsAssumption
  <2> QED
    BY <2>1, FS_Interval DEF Bits
<1>4. IsFiniteSet(Least(a)) /\ Cardinality(Least(a)) \in Nat
  BY <1>2, <1>3, FS_Subset, FS_CardinalityType
<1>5. i \notin Least(a)
  BY DEF Least
<1>6. Cardinality(more) = Cardinality(Least(a)) + 1
  BY <1>4, <1>5, FS_AddElement
<1> DEFINE n == Cardinality(Least(a))
<1>7. \A k \in Nat : (k + 1) % 2 = 1 <=> ~(k % 2 = 1)
  OBVIOUS
<1> QED
  BY <1>1, <1>4, <1>6, <1>7

LEMMA RedXorExact ==
  ASSUME NEW w \in 1..WordBits, NEW a \in Fs(w), NEW b
  PROVE  LET meanings == BitMeanings("red_xor", a, b, w)
         IN  RightFor(fs_red_xor(a, w), meanings) /\ NeededFor(fs_red_xor(a, w), meanings)
<1> DEFINE odd == Cardinality(a.val) % 2 = 1
           true == a.xz = {} /\ odd
           false == a.xz = {} /\ ~odd
           meanings == BitMeanings("red_xor", a, b, w)
<1>1. "red_xor" \in BitOps \ {"muxx"}
  BY DEF BitOps, BitUnary
<1>2. /\ \A m \in meanings : \E x \in Completions(a) : m = Truth(Cardinality(x) % 2 = 1)
      /\ \A x \in Completions(a) : Truth(Cardinality(x) % 2 = 1) \in meanings
  BY <1>1, Meant, TruthsMeant, Extremes
<1> HIDE DEF meanings
<1>3. \A m \in meanings : m \in {Truth(TRUE), Truth(FALSE)}
  BY <1>2 DEF Truth
<1>4. ASSUME a.xz = {}, NEW x \in Completions(a) PROVE x = a.val
  <2>1. a.val \ a.xz \subseteq x /\ x \subseteq a.val \cup a.xz
    BY CompletionBits
  <2> QED
    BY <1>4, <2>1
<1>5. true => ~false /\ \A m \in meanings : m = Truth(TRUE)
  BY <1>2, <1>4
<1>6. false => \A m \in meanings : m = Truth(FALSE)
  BY <1>2, <1>4
<1>7. ~true /\ ~false => Truth(TRUE) \in meanings /\ Truth(FALSE) \in meanings
  <2>1. ASSUME NEW i \in a.xz PROVE Truth(TRUE) \in meanings /\ Truth(FALSE) \in meanings
    <3> DEFINE more == Least(a) \cup {i}
    <3>1. more \in Completions(a) /\ (Cardinality(more) % 2 = 1 <=> ~(Cardinality(Least(a)) % 2 = 1))
      BY BothParities
    <3>2. Truth(Cardinality(more) % 2 = 1) \in meanings /\ Truth(Cardinality(Least(a)) % 2 = 1) \in meanings
      BY <1>2, <3>1, Extremes
    <3> QED
      BY <3>1, <3>2 DEF Truth
  <2> QED
    BY <2>1
<1>8. true \in BOOLEAN /\ false \in BOOLEAN
  OBVIOUS
<1>9. fs_red_xor(a, w) = Decided(true, false)
  <2>1. a.val \cap fs_mask(w) = a.val /\ a.xz \cap fs_mask(w) = a.xz
    BY Planes
  <2> QED
    BY <2>1 DEF fs_red_xor, Decided, Bool
<1> HIDE DEF true, false
<1>10. RightFor(Decided(true, false), meanings) /\ NeededFor(Decided(true, false), meanings)
  BY <1>3, <1>5, <1>6, <1>7, <1>8, DecidedExact
<1> QED
  BY <1>9, <1>10 DEF meanings

\* Every operator on bits, by cases.
LEMMA AnswersExact ==
  ASSUME NEW op \in BitOps, NEW w \in 1..WordBits, NEW a \in Fs(w), NEW b \in Fs(w)
  PROVE  LET r == FsAnswer(op, a, b, w)
             meanings == BitMeanings(op, a, b, w)
         IN  RightFor(r, meanings) /\ NeededFor(r, meanings)
<1>1. CASE op = "not"
  BY <1>1, NotExact DEF FsAnswer
<1>2. CASE op = "and"
  BY <1>2, AndExact DEF FsAnswer
<1>3. CASE op = "or"
  BY <1>3, OrExact DEF FsAnswer
<1>4. CASE op = "xor"
  BY <1>4, XorExact DEF FsAnswer
<1>5. CASE op = "muxx"
  BY <1>5, MuxExact DEF FsAnswer
<1>6. CASE op = "red_and"
  BY <1>6, RedAndExact DEF FsAnswer
<1>7. CASE op = "red_or"
  BY <1>7, RedOrExact DEF FsAnswer
<1>8. CASE op = "red_xor"
  BY <1>8, RedXorExact DEF FsAnswer
<1>9. CASE op = "log_not"
  BY <1>9, LogNotExact DEF FsAnswer
<1>10. CASE op = "log_and"
  BY <1>10, LogAndExact DEF FsAnswer
<1>11. CASE op = "log_or"
  BY <1>11, LogOrExact DEF FsAnswer
<1> QED
  BY <1>1, <1>2, <1>3, <1>4, <1>5, <1>6, <1>7, <1>8, <1>9, <1>10, <1>11 DEF BitOps, BitUnary, BitBinary

-----------------------------------------------------------------------------
(* Matches.                                                                *)

\* case: the words have the same completions.
LEMMA CaseEqExact ==
  ASSUME NEW w, NEW a \in Fs(w), NEW b \in Fs(w)
  PROVE  fs_case_eq(a, b, w) <=> Completions(a) = Completions(b)
<1>1. /\ a.val \subseteq fs_mask(w) /\ a.xz \subseteq fs_mask(w)
      /\ b.val \subseteq fs_mask(w) /\ b.xz \subseteq fs_mask(w)
  BY Planes
<1>2. fs_case_eq(a, b, w) <=> a.xz = b.xz /\ Least(a) = Least(b)
  BY <1>1 DEF fs_case_eq, SymDiff, Least
<1>3. ASSUME a.xz = b.xz, Least(a) = Least(b) PROVE Completions(a) = Completions(b)
  BY <1>3 DEF Completions, Least
<1>4. ASSUME Completions(a) = Completions(b) PROVE a.xz = b.xz /\ Least(a) = Least(b)
  <2>1. Least(a) \in Completions(b) /\ Least(b) \in Completions(a)
    BY <1>4, Extremes
  <2>2. Greatest(a) \in Completions(b) /\ Greatest(b) \in Completions(a)
    BY <1>4, Extremes
  <2>3. Least(a) = Least(b)
    BY <2>1, CompletionBits DEF Least
  <2>4. Greatest(a) = Greatest(b)
    BY <2>2, CompletionBits DEF Greatest
  <2>5. a.xz = Greatest(a) \ Least(a) /\ b.xz = Greatest(b) \ Least(b)
    BY DEF Greatest, Least
  <2> QED
    BY <2>3, <2>4, <2>5
<1> QED
  BY <1>2, <1>3, <1>4

\* casez: whatever the unknown bits of the expression are, it agrees with the
\* label in the bits that are not ignored.
LEMMA CasezExact ==
  ASSUME NEW w, NEW a \in Fs(w), NEW b \in Fs(w)
  PROVE  fs_casez(a, b, b.xz, w) <=> \A x \in Completions(a) : SymDiff(x, b.val) \subseteq b.xz
<1>1. /\ a.val \subseteq fs_mask(w) /\ a.xz \subseteq fs_mask(w)
      /\ b.val \subseteq fs_mask(w) /\ b.xz \subseteq fs_mask(w)
  BY Planes
<1>2. fs_casez(a, b, b.xz, w) <=> a.xz \subseteq b.xz /\ SymDiff(a.val, b.val) \subseteq b.xz
  BY <1>1 DEF fs_casez, SymDiff
<1>3. ASSUME a.xz \subseteq b.xz, SymDiff(a.val, b.val) \subseteq b.xz, NEW x \in Completions(a)
      PROVE  SymDiff(x, b.val) \subseteq b.xz
  <2>1. a.val \ a.xz \subseteq x /\ x \subseteq a.val \cup a.xz
    BY CompletionBits
  <2> QED
    BY <1>3, <2>1 DEF SymDiff
<1>4. ASSUME \A x \in Completions(a) : SymDiff(x, b.val) \subseteq b.xz
      PROVE  a.xz \subseteq b.xz /\ SymDiff(a.val, b.val) \subseteq b.xz
  <2>1. SymDiff(Least(a), b.val) \subseteq b.xz /\ SymDiff(Greatest(a), b.val) \subseteq b.xz
    BY <1>4, Extremes
  <2> QED
    BY <2>1 DEF SymDiff, Least, Greatest
<1> QED
  BY <1>2, <1>3, <1>4

\* casex: the words have a completion in common.
LEMMA CasexExact ==
  ASSUME NEW w, NEW a \in Fs(w), NEW b \in Fs(w)
  PROVE  fs_casex(a, b, w) <=> Completions(a) \cap Completions(b) # {}
<1>1. /\ a.val \subseteq fs_mask(w) /\ a.xz \subseteq fs_mask(w)
      /\ b.val \subseteq fs_mask(w) /\ b.xz \subseteq fs_mask(w)
  BY Planes
<1>2. fs_casex(a, b, w) <=> SymDiff(a.val, b.val) \subseteq a.xz \cup b.xz
  BY <1>1 DEF fs_casex, SymDiff
<1>3. ASSUME SymDiff(a.val, b.val) \subseteq a.xz \cup b.xz
      PROVE  Completions(a) \cap Completions(b) # {}
  <2> DEFINE x == Least(a) \cup Least(b)
  <2>1. a.val \ a.xz \subseteq x /\ x \subseteq a.val \cup a.xz
    BY <1>3 DEF SymDiff, Least
  <2>2. b.val \ b.xz \subseteq x /\ x \subseteq b.val \cup b.xz
    BY <1>3 DEF SymDiff, Least
  <2> HIDE DEF x
  <2>3. x \in Completions(a) /\ x \in Completions(b)
    BY <2>1, <2>2, CompletionBits
  <2> QED
    BY <2>3
<1>4. ASSUME NEW x \in Completions(a) \cap Completions(b)
      PROVE  SymDiff(a.val, b.val) \subseteq a.xz \cup b.xz
  <2>1. a.val \ a.xz \subseteq x /\ x \subseteq a.val \cup a.xz
    BY CompletionBits
  <2>2. b.val \ b.xz \subseteq x /\ x \subseteq b.val \cup b.xz
    BY CompletionBits
  <2> QED
    BY <2>1, <2>2 DEF SymDiff
<1> QED
  BY <1>2, <1>3, <1>4

-----------------------------------------------------------------------------
(* The calls.                                                              *)

\* Whatever is called has operands of its width, and is answered by its function.
CallInv ==
    /\ \E w \in FsWidths : call \in Calls(w)
    /\ answer = <<>> \/ answer = <<FsAnswer(call.op, call.a, call.b, call.width)>>

LEMMA Operands ==
  ASSUME NEW w \in FsWidths, NEW c \in Calls(w)
  PROVE  /\ c.lib = "fs" /\ c.op \in FsOps /\ c.width = w /\ w \in 1..WordBits
         /\ c.a \in Fs(w) /\ c.b \in Fs(w)
<1>1. fs_allx(w) \in Fs(w)
  BY MakeFits
<1> QED
  BY <1>1, FsWidthsAssumption DEF Calls, FsOps, FsUnary, BitOps, NumberOps

LEMMA CallInvHolds == FsSpec => []CallInv
<1>1. FsInit => CallInv
  BY DEF FsInit, CallInv
<1>2. CallInv /\ [FsReturns \/ Answered]_vars => CallInv'
  BY DEF CallInv, FsReturns, Return, Answered, vars
<1> QED
  BY <1>1, <1>2, PTL DEF FsSpec

\* The answer of every function of gpga_4state.h fits the width it is asked for, in
\* words of any size, so its planes can be compared and used as operands as they are.
THEOREM AnswersAreVectors == FsSpec => []FsFits
<1>1. CallInv => FsFits
  <2> SUFFICES ASSUME CallInv PROVE FsFits
    OBVIOUS
  <2>1. PICK w \in FsWidths : call \in Calls(w)
    BY DEF CallInv
  <2>2. call.op \in FsOps /\ call.width = w
    BY <2>1, Operands
  <2>3. answer # <<>> => Result = FsAnswer(call.op, call.a, call.b, w)
    BY <2>2 DEF CallInv, Result
  <2> QED
    BY <2>1, <2>2, <2>3, AnswersFit DEF FsFits, AnswerOf
<1> QED
  BY <1>1, CallInvHolds, PTL

\* The operators on bits, the reductions, the logical operators, the merge of a mux
\* and the matches of case statements are exact on words of any size and operands of
\* any width: right for every value of the unknown bits, and unknown only where those
\* values disagree (gpga_4state.h).
THEOREM BitOperatorsAreExact == FsSpec => []BitsExact
<1>1. CallInv => BitsExact
  <2> SUFFICES ASSUME CallInv, answer # <<>> PROVE BitsExact
    BY DEF BitsExact, AnswerOf
  <2>1. PICK w \in FsWidths : call \in Calls(w)
    BY DEF CallInv
  <2>2. /\ call.width = w /\ w \in 1..WordBits
        /\ call.a \in Fs(w) /\ call.b \in Fs(w)
    BY <2>1, Operands
  <2>3. Result = FsAnswer(call.op, call.a, call.b, w)
    BY <2>2 DEF CallInv, Result
  <2>4. ASSUME call.op \in BitOps
        PROVE  LET meanings == BitMeanings(call.op, call.a, call.b, call.width)
               IN  /\ Result \in Fs(WidthOf(call.op, call.width))
                   /\ RightFor(Result, meanings) /\ NeededFor(Result, meanings)
    <3>1. call.op \in FsOps \ FsMatches
      BY <2>4 DEF FsOps, BitOps, BitUnary, BitBinary, FsMatches
    <3> QED
      BY <2>2, <2>3, <2>4, <3>1, AnswersExact, AnswersFit
  <2>5. ASSUME call.op = "case_eq" PROVE Result <=> Completions(call.a) = Completions(call.b)
    BY <2>2, <2>3, <2>5, CaseEqExact DEF FsAnswer
  <2>6. ASSUME call.op = "casez"
        PROVE  Result <=> \A x \in Completions(call.a) : SymDiff(x, call.b.val) \subseteq call.b.xz
    BY <2>2, <2>3, <2>6, CasezExact DEF FsAnswer
  <2>7. ASSUME call.op = "casex" PROVE Result <=> Completions(call.a) \cap Completions(call.b) # {}
    BY <2>2, <2>3, <2>7, CasexExact DEF FsAnswer
  <2> QED
    BY <2>4, <2>5, <2>6, <2>7 DEF BitsExact, AnswerOf
<1> QED
  BY <1>1, CallInvHolds, PTL

(***************************************************************************)
(* Words as numbers.  The first half is about numbers: powers of two,      *)
(* division, the sum of the bits of a word, and its digits.                *)
(***************************************************************************)

-----------------------------------------------------------------------------
(* Induction, over a set instead of an operator: the least number outside  *)
(* the set would be the successor of one inside.                           *)

LEMMA SetInduction ==
  ASSUME NEW S, 0 \in S, \A n \in Nat : n \in S => n + 1 \in S
  PROVE  \A n \in Nat : n \in S
<1> DEFINE R == {ss \in Nat \X Nat : ss[1] < ss[2]}
           T == Nat \ S
<1> SUFFICES ASSUME T # {} PROVE FALSE
  OBVIOUS
<1>1. IsWellFoundedOn(R, Nat)
  BY NatLessThanWellFounded DEF OpToRel
<1>2. T \subseteq Nat
  OBVIOUS
<1>3. PICK n \in T : \A m \in T : <<m, n>> \notin R
  <2> HIDE DEF R, T
  <2> QED
    BY <1>1, <1>2, WFMin
<1>4. n - 1 \in Nat /\ n - 1 < n /\ (n - 1) + 1 = n
  OBVIOUS
<1>5. n - 1 \notin S
  BY <1>4
<1> QED
  BY <1>3, <1>4, <1>5

-----------------------------------------------------------------------------
(* Powers of two, which count the subsets of a set.                        *)

LEMMA TwoCounts ==
  ASSUME NEW n \in Nat
  PROVE  /\ IsFiniteSet(1..n) /\ IsFiniteSet(SUBSET (1..n))
         /\ Cardinality(SUBSET (1..n)) = 2^n
<1>1. IsFiniteSet(1..n) /\ Cardinality(1..n) = n
  BY FS_Interval
<1> QED
  BY <1>1, FS_SUBSET

\* The subsets with the element n + 1 are as many as those without.
LEMMA TwoTimes ==
  ASSUME NEW n \in Nat
  PROVE  2^n \in Nat /\ 2^(n + 1) = 2 * 2^n
<1> DEFINE A == SUBSET (1..n)
           B == {T \cup {n + 1} : T \in A}
           f == [T \in A |-> T \cup {n + 1}]
<1>1. SUBSET (1..(n + 1)) = A \cup B
  <2>1. ASSUME NEW T \in SUBSET (1..(n + 1)) PROVE T \in A \cup B
    <3>1. CASE n + 1 \in T
      <4>1. T \ {n + 1} \in A /\ T = (T \ {n + 1}) \cup {n + 1}
        BY <3>1
      <4> QED
        BY <4>1
    <3>2. CASE n + 1 \notin T
      BY <3>2
    <3> QED
      BY <3>1, <3>2
  <2>2. A \cup B \subseteq SUBSET (1..(n + 1))
    <3>1. 1..n \subseteq 1..(n + 1) /\ n + 1 \in 1..(n + 1)
      OBVIOUS
    <3> QED
      BY <3>1
  <2> QED
    BY <2>1, <2>2
<1>2. A \cap B = {}
  OBVIOUS
<1>3. f \in Bijection(A, B)
  <2>1. f \in [A -> B]
    OBVIOUS
  <2>2. ASSUME NEW S \in A, NEW T \in A, f[S] = f[T] PROVE S = T
    <3>1. S = f[S] \ {n + 1} /\ T = f[T] \ {n + 1}
      OBVIOUS
    <3> QED
      BY <2>2, <3>1
  <2>3. \A T \in B : \E S \in A : f[S] = T
    OBVIOUS
  <2> QED
    BY <2>1, <2>2, <2>3 DEF Bijection, Injection, Surjection, IsInjective
<1>4. IsFiniteSet(A) /\ Cardinality(A) = 2^n /\ Cardinality(A \cup B) = 2^(n + 1)
  <2>1. n + 1 \in Nat
    OBVIOUS
  <2> QED
    BY <2>1, <1>1, TwoCounts
<1>5. IsFiniteSet(B) /\ Cardinality(B) = Cardinality(A)
  <2> HIDE DEF A, B, f
  <2>1. ExistsBijection(A, B)
    BY <1>3 DEF ExistsBijection
  <2> QED
    BY <1>4, <2>1, FS_Bijection
<1>6. Cardinality(A \cup B) = Cardinality(A) + Cardinality(B)
  <2> HIDE DEF A, B, f
  <2>1. Cardinality(A \cap B) = 0 /\ Cardinality(A) \in Nat
    BY <1>2, <1>4, FS_EmptySet, FS_CardinalityType
  <2> QED
    BY <1>4, <1>5, <2>1, FS_Union
<1>7. Cardinality(A) \in Nat
  BY <1>4, FS_CardinalityType
<1> QED
  BY <1>4, <1>5, <1>6, <1>7

LEMMA TwoPositive ==
  ASSUME NEW n \in Nat
  PROVE  2^n \in Nat /\ 2^n > 0
<1> DEFINE S == {k \in Nat : 2^k > 0}
<1>1. 0 \in S
  BY 2^0 = 1
<1>2. \A k \in Nat : k \in S => k + 1 \in S
  BY TwoTimes
<1>3. \A k \in Nat : k \in S
  <2> HIDE DEF S
  <2> QED
    BY <1>1, <1>2, SetInduction
<1> QED
  BY <1>3, TwoTimes

LEMMA TwoSum ==
  ASSUME NEW m \in Nat, NEW n \in Nat
  PROVE  2^(m + n) = 2^m * 2^n
<1> DEFINE S == {k \in Nat : 2^(m + k) = 2^m * 2^k}
<1>1. 0 \in S
  <2>1. 2^0 = 1 /\ m + 0 = m /\ 2^m \in Nat
    BY TwoTimes
  <2> QED
    BY <2>1
<1>2. ASSUME NEW k \in Nat, k \in S PROVE k + 1 \in S
  <2>1. /\ 2^(m + k) \in Nat /\ 2^((m + k) + 1) = 2 * 2^(m + k)
        /\ 2^k \in Nat /\ 2^(k + 1) = 2 * 2^k /\ 2^m \in Nat
    BY TwoTimes
  <2>2. 2^(m + k) = 2^m * 2^k /\ (m + k) + 1 = m + (k + 1)
    BY <1>2
  <2>3. 2 * (2^m * 2^k) = 2^m * (2 * 2^k)
    BY <2>1
  <2> QED
    BY <2>1, <2>2, <2>3
<1>3. \A k \in Nat : k \in S
  <2> HIDE DEF S
  <2> QED
    BY <1>1, <1>2, SetInduction
<1> QED
  BY <1>3

\* A power of two divides every greater one.
LEMMA TwoGrows ==
  ASSUME NEW m \in Nat, NEW n \in Nat, m <= n
  PROVE  2^m <= 2^n /\ n - m \in Nat /\ 2^n = 2^m * 2^(n - m)
<1>1. n - m \in Nat /\ m + (n - m) = n
  OBVIOUS
<1>2. 2^n = 2^m * 2^(n - m)
  BY <1>1, TwoSum
<1> DEFINE c == 2^m  d == 2^(n - m)
<1>3. c \in Nat /\ d \in Nat /\ d > 0
  BY <1>1, TwoPositive
<1> HIDE DEF c, d
<1>4. c <= c * d
  BY <1>3
<1> QED
  BY <1>1, <1>2, <1>4 DEF c, d

-----------------------------------------------------------------------------
(* The number of a word.  MapThenSumSet is a recursive function over the   *)
(* subsets of the word: it exists, and it does not depend on the order in  *)
(* which the bits are taken.                                               *)

Taken(s) == CHOOSE i \in s : TRUE

IsSum(g, sets) ==
    g = [s \in sets |-> IF s = {} THEN 0 ELSE 2^Taken(s) + g[s \ {Taken(s)}]]

UpTo(S, n) == {s \in SUBSET S : Cardinality(s) <= n}

LEMMA NumIsSum ==
  ASSUME NEW S
  PROVE  Num(S) = (CHOOSE g : IsSum(g, SUBSET S))[S]
BY DEF Num, MapThenSumSet, MapThenFoldSet, IsSum, Taken

\* A set without one of its elements has one element less.
LEMMA Less ==
  ASSUME NEW S, IsFiniteSet(S), NEW i \in S
  PROVE  /\ IsFiniteSet(S \ {i}) /\ Cardinality(S) \in Nat
         /\ Cardinality(S \ {i}) \in Nat /\ Cardinality(S \ {i}) + 1 = Cardinality(S)
<1>1. IsFiniteSet(S \ {i}) /\ Cardinality(S \ {i}) = Cardinality(S) - 1
  BY FS_RemoveElement
<1>2. Cardinality(S) \in Nat /\ Cardinality(S \ {i}) \in Nat
  BY <1>1, FS_CardinalityType
<1> QED
  BY <1>1, <1>2

LEMMA TakenLess ==
  ASSUME NEW S, IsFiniteSet(S), NEW n \in Nat, NEW s \in UpTo(S, n + 1), s # {}
  PROVE  Taken(s) \in s /\ s \ {Taken(s)} \in UpTo(S, n)
<1>1. Taken(s) \in s
  BY DEF Taken
<1>2. IsFiniteSet(s) /\ s \subseteq S /\ Cardinality(s) <= n + 1
  BY FS_Subset DEF UpTo
<1> QED
  BY <1>1, <1>2, Less DEF UpTo

LEMMA SumsExistUpTo ==
  ASSUME NEW S, IsFiniteSet(S)
  PROVE  \A n \in Nat : \E g : IsSum(g, UpTo(S, n))
<1> DEFINE N == {n \in Nat : \E g : IsSum(g, UpTo(S, n))}
           Over(g, n) == [s \in UpTo(S, n) |->
                            IF s = {} THEN 0 ELSE 2^Taken(s) + g[s \ {Taken(s)}]]
<1>1. 0 \in N
  <2>1. \A s \in UpTo(S, 0) : s = {}
    <3>1. ASSUME NEW s \in UpTo(S, 0) PROVE s = {}
      <4>1. IsFiniteSet(s) /\ Cardinality(s) <= 0
        BY FS_Subset DEF UpTo
      <4>2. Cardinality(s) \in Nat
        BY <4>1, FS_CardinalityType
      <4> QED
        BY <4>1, <4>2, FS_EmptySet
    <3> QED
      BY <3>1
  <2>2. IsSum([s \in UpTo(S, 0) |-> 0], UpTo(S, 0))
    BY <2>1 DEF IsSum
  <2> QED
    BY <2>2
<1>2. ASSUME NEW n \in Nat, n \in N PROVE n + 1 \in N
  <2>1. PICK g : IsSum(g, UpTo(S, n))
    BY <1>2
  <2> DEFINE h == Over(g, n + 1)
  <2>2. UpTo(S, n) \subseteq UpTo(S, n + 1)
    <3>1. ASSUME NEW s \in UpTo(S, n) PROVE s \in UpTo(S, n + 1)
      <4>1. IsFiniteSet(s) /\ Cardinality(s) <= n
        BY FS_Subset DEF UpTo
      <4>2. Cardinality(s) \in Nat
        BY <4>1, FS_CardinalityType
      <4> QED
        BY <4>1, <4>2 DEF UpTo
    <3> QED
      BY <3>1
  <2>3. \A s \in UpTo(S, n) : h[s] = g[s]
    BY <2>1, <2>2 DEF IsSum
  <2>4. \A s \in UpTo(S, n + 1) : s # {} => h[s \ {Taken(s)}] = g[s \ {Taken(s)}]
    <3> HIDE DEF h
    <3> QED
      BY <2>3, TakenLess
  <2>5. h = Over(h, n + 1)
    <3>1. \A s \in UpTo(S, n + 1) : h[s] = Over(h, n + 1)[s]
      BY <2>4
    <3> QED
      BY <3>1
  <2>6. IsSum(h, UpTo(S, n + 1))
    BY <2>5 DEF IsSum
  <2> QED
    BY <2>6
<1> QED
  <2> HIDE DEF N
  <2>1. \A n \in Nat : n \in N
    BY <1>1, <1>2, SetInduction
  <2> QED
    BY <2>1 DEF N

\* The sum over a set satisfies its equation.
LEMMA SumExists ==
  ASSUME NEW S, IsFiniteSet(S)
  PROVE  \E g : IsSum(g, SUBSET S) /\ Num(S) = g[S]
<1>1. Cardinality(S) \in Nat
  BY FS_CardinalityType
<1>2. UpTo(S, Cardinality(S)) = SUBSET S
  BY <1>1, FS_Subset DEF UpTo
<1>3. \E g : IsSum(g, SUBSET S)
  <2>1. \E g : IsSum(g, UpTo(S, Cardinality(S)))
    BY <1>1, SumsExistUpTo
  <2> QED
    BY <1>2, <2>1
<1>4. IsSum(CHOOSE g : IsSum(g, SUBSET S), SUBSET S)
  BY <1>3, Zenon
<1> QED
  BY <1>4, NumIsSum

\* Two sums over different sets agree where both are defined.
LEMMA SumsAgree ==
  ASSUME NEW S, IsFiniteSet(S), NEW T \in SUBSET S, NEW g, NEW h,
         IsSum(g, SUBSET S), IsSum(h, SUBSET T)
  PROVE  g[T] = h[T]
<1> DEFINE N == {n \in Nat : \A s \in UpTo(T, n) : g[s] = h[s]}
<1>0. IsFiniteSet(T)
  BY FS_Subset
<1>1. 0 \in N
  <2>1. ASSUME NEW s \in UpTo(T, 0) PROVE g[s] = h[s]
    <3>1. IsFiniteSet(s) /\ Cardinality(s) <= 0 /\ s \subseteq T /\ s \subseteq S
      BY <1>0, FS_Subset DEF UpTo
    <3>2. Cardinality(s) \in Nat
      BY <3>1, FS_CardinalityType
    <3>3. s = {}
      BY <3>1, <3>2, FS_EmptySet
    <3> QED
      BY <3>1, <3>3 DEF IsSum
  <2> QED
    BY <2>1
<1>2. ASSUME NEW n \in Nat, n \in N PROVE n + 1 \in N
  <2>1. ASSUME NEW s \in UpTo(T, n + 1) PROVE g[s] = h[s]
    <3>1. s \subseteq T /\ s \subseteq S
      BY DEF UpTo
    <3>2. CASE s = {}
      BY <3>1, <3>2 DEF IsSum
    <3>3. CASE s # {}
      <4>1. g[s \ {Taken(s)}] = h[s \ {Taken(s)}]
        BY <1>0, <1>2, <3>3, TakenLess
      <4> QED
        BY <3>1, <3>3, <4>1 DEF IsSum
    <3> QED
      BY <3>2, <3>3
  <2> QED
    BY <2>1
<1>3. \A n \in Nat : n \in N
  <2> HIDE DEF N
  <2> QED
    BY <1>1, <1>2, SetInduction
<1>4. Cardinality(T) \in Nat /\ T \in UpTo(T, Cardinality(T))
  BY <1>0, FS_CardinalityType DEF UpTo
<1> QED
  BY <1>3, <1>4

LEMMA NumTaken ==
  ASSUME NEW S, IsFiniteSet(S)
  PROVE  Num(S) = IF S = {} THEN 0 ELSE 2^Taken(S) + Num(S \ {Taken(S)})
<1>1. PICK g : IsSum(g, SUBSET S) /\ Num(S) = g[S]
  BY SumExists
<1>2. CASE S = {}
  BY <1>1, <1>2 DEF IsSum
<1>3. CASE S # {}
  <2> DEFINE T == S \ {Taken(S)}
  <2>1. T \in SUBSET S /\ IsFiniteSet(T)
    BY FS_Subset
  <2>2. PICK h : IsSum(h, SUBSET T) /\ Num(T) = h[T]
    BY <2>1, SumExists
  <2>3. g[T] = h[T]
    BY <1>1, <2>1, <2>2, SumsAgree
  <2>4. g[S] = 2^Taken(S) + g[T]
    BY <1>1, <1>3 DEF IsSum
  <2> QED
    BY <1>1, <1>3, <2>2, <2>3, <2>4
<1> QED
  BY <1>2, <1>3

\* The finite sets of bits, words of any size.
FiniteWords == {v \in SUBSET Nat : IsFiniteSet(v)}

LEMMA FiniteBits ==
  ASSUME NEW v \in FiniteWords
  PROVE  v \subseteq Nat /\ IsFiniteSet(v) /\ \A i \in v : i \in Int /\ i >= 0
BY DEF FiniteWords

\* Induction over words, one bit more at a time.
LEMMA WordInduction ==
  ASSUME NEW P, {} \in P,
         \A v \in FiniteWords : \A i \in Nat \ v : v \in P => v \cup {i} \in P
  PROVE  \A v \in FiniteWords : v \in P
<1> DEFINE N == {n \in Nat : \A v \in FiniteWords : Cardinality(v) = n => v \in P}
<1>1. 0 \in N
  <2>1. ASSUME NEW v \in FiniteWords, Cardinality(v) = 0 PROVE v \in P
    BY <2>1, FS_EmptySet DEF FiniteWords
  <2> QED
    BY <2>1
<1>2. ASSUME NEW n \in Nat, n \in N PROVE n + 1 \in N
  <2>1. ASSUME NEW v \in FiniteWords, Cardinality(v) = n + 1 PROVE v \in P
    <3>1. v # {} /\ IsFiniteSet(v)
      BY <2>1, FS_EmptySet DEF FiniteWords
    <3>2. PICK i \in v : TRUE
      BY <3>1
    <3>3. v \ {i} \in FiniteWords /\ Cardinality(v \ {i}) = n /\ i \in Nat \ (v \ {i})
      BY <2>1, <3>1, Less DEF FiniteWords
    <3>4. v \ {i} \in P
      BY <1>2, <3>3
    <3>5. (v \ {i}) \cup {i} = v
      OBVIOUS
    <3>6. (v \ {i}) \cup {i} \in P
      BY <3>3, <3>4
    <3> QED
      BY <3>5, <3>6
  <2> QED
    BY <2>1
<1>3. \A n \in Nat : n \in N
  <2> HIDE DEF N
  <2> QED
    BY <1>1, <1>2, SetInduction
<1> QED
  BY <1>3, FS_CardinalityType DEF FiniteWords

LEMMA NumEmpty == Num({}) = 0 /\ {} \in FiniteWords
BY NumTaken, FS_EmptySet DEF FiniteWords

LEMMA NumAny ==
  ASSUME NEW v \in FiniteWords
  PROVE  Num(v) \in Nat /\ \A i \in v : Num(v) = 2^i + Num(v \ {i})
<1> DEFINE N == {n \in Nat : \A s \in FiniteWords : Cardinality(s) <= n =>
                    Num(s) \in Nat /\ \A i \in s : Num(s) = 2^i + Num(s \ {i})}
<1>1. 0 \in N
  <2>1. ASSUME NEW s \in FiniteWords, Cardinality(s) <= 0
        PROVE  Num(s) \in Nat /\ \A i \in s : Num(s) = 2^i + Num(s \ {i})
    <3>1. IsFiniteSet(s) /\ Cardinality(s) \in Nat
      BY FS_CardinalityType DEF FiniteWords
    <3>2. s = {}
      BY <2>1, <3>1, FS_EmptySet
    <3> QED
      BY <3>2, NumEmpty
  <2> QED
    BY <2>1
<1>2. ASSUME NEW n \in Nat, n \in N PROVE n + 1 \in N
  <2>1. ASSUME NEW s \in FiniteWords, Cardinality(s) <= n + 1
        PROVE  Num(s) \in Nat /\ \A i \in s : Num(s) = 2^i + Num(s \ {i})
    <3>0. IsFiniteSet(s) /\ s \subseteq Nat
      BY DEF FiniteWords
    <3>1. CASE s = {}
      BY <3>1, NumEmpty
    <3>2. CASE s # {}
      <4> DEFINE c == Taken(s)
      <4>1. c \in s /\ c \in Nat /\ Num(s) = 2^c + Num(s \ {c})
        BY <3>0, <3>2, NumTaken DEF Taken
      <4>2. \A i \in s : /\ s \ {i} \in FiniteWords /\ Cardinality(s \ {i}) <= n
        BY <2>1, <3>0, Less DEF FiniteWords
      <4> HIDE DEF c
      <4>3. \A i \in s : /\ Num(s \ {i}) \in Nat
                         /\ \A j \in s \ {i} : Num(s \ {i}) = 2^j + Num((s \ {i}) \ {j})
        BY <1>2, <4>2
      <4>4. Num(s) \in Nat
        BY <4>1, <4>3, TwoPositive
      <4>5. ASSUME NEW i \in s PROVE Num(s) = 2^i + Num(s \ {i})
        <5>1. CASE i = c
          BY <4>1, <5>1
        <5>2. CASE i # c
          <6> DEFINE rest == Num((s \ {i}) \ {c})
          <6>1. Num(s \ {c}) = 2^i + Num((s \ {c}) \ {i})
            BY <4>1, <4>3, <5>2
          <6>2. Num(s \ {i}) = 2^c + rest
            BY <4>1, <4>3, <5>2
          <6>3. (s \ {c}) \ {i} = (s \ {i}) \ {c}
            OBVIOUS
          <6>4. Num(s) = 2^c + (2^i + rest)
            BY <4>1, <6>1, <6>3
          <6>5. 2^i \in Nat /\ 2^c \in Nat
            BY <4>1, <3>0, TwoPositive
          <6>6. (s \ {i}) \ {c} \in FiniteWords /\ Cardinality((s \ {i}) \ {c}) <= n
            <7>1. /\ s \ {i} \in FiniteWords /\ Cardinality(s \ {i}) <= n
                  /\ IsFiniteSet(s \ {i}) /\ c \in s \ {i}
              BY <4>1, <4>2, <5>2 DEF FiniteWords
            <7>2. /\ IsFiniteSet((s \ {i}) \ {c})
                  /\ Cardinality((s \ {i}) \ {c}) + 1 = Cardinality(s \ {i})
                  /\ Cardinality((s \ {i}) \ {c}) \in Nat /\ Cardinality(s \ {i}) \in Nat
              BY <7>1, Less
            <7> QED
              BY <7>1, <7>2 DEF FiniteWords
          <6>7. rest \in Nat
            BY <1>2, <6>6
          <6> HIDE DEF rest
          <6> QED
            BY <6>2, <6>4, <6>5, <6>7
        <5> QED
          BY <5>1, <5>2
      <4> QED
        BY <4>4, <4>5
    <3> QED
      BY <3>1, <3>2
  <2> QED
    BY <2>1
<1>3. \A n \in Nat : n \in N
  <2> HIDE DEF N
  <2> QED
    BY <1>1, <1>2, SetInduction
<1>4. Cardinality(v) \in Nat
  BY FS_CardinalityType DEF FiniteWords
<1> QED
  BY <1>3, <1>4

LEMMA NumAdd ==
  ASSUME NEW v \in FiniteWords, NEW i \in Nat \ v
  PROVE  v \cup {i} \in FiniteWords /\ Num(v \cup {i}) = 2^i + Num(v)
<1>1. v \cup {i} \in FiniteWords
  BY FS_AddElement DEF FiniteWords
<1>2. (v \cup {i}) \ {i} = v
  OBVIOUS
<1> QED
  BY <1>1, <1>2, NumAny

-----------------------------------------------------------------------------
(* Digits.                                                                 *)

Low(v, n) == {i \in v : i < n}
High(v, n) == {i \in Nat : i + n \in v}
Raise(v, n) == {i \in Nat : i - n \in v}

LEMMA DivisionBy ==
  ASSUME NEW m \in Int, NEW p \in Nat, p > 0
  PROVE  /\ m \div p \in Int /\ m % p \in Nat /\ m % p < p
         /\ m = p * (m \div p) + (m % p)
<1>1. m = p * (m \div p) + (m % p)
  BY SMT
<1>2. m % p \in 0..(p - 1) /\ m \div p \in Int
  BY SMT
<1> QED
  BY <1>1, <1>2

LEMMA Remaining ==
  ASSUME NEW m \in Nat, NEW p \in Nat, m < p
  PROVE  m % p = m /\ m \div p = 0
BY SMT

LEMMA DivisionIs ==
  ASSUME NEW m \in Int, NEW p \in Nat, p > 0, NEW q \in Int, NEW r \in Nat, r < p,
         m = p * q + r
  PROVE  m \div p = q /\ m % p = r
BY SMT

\* The bits below n and those from n on.
LEMMA NumSplit ==
  ASSUME NEW n \in Nat, NEW v \in FiniteWords
  PROVE  /\ Low(v, n) \in FiniteWords /\ High(v, n) \in FiniteWords
         /\ Num(v) = Num(Low(v, n)) + 2^n * Num(High(v, n))
<1> DEFINE P == {s \in FiniteWords : /\ Low(s, n) \in FiniteWords /\ High(s, n) \in FiniteWords
                               /\ Num(s) = Num(Low(s, n)) + 2^n * Num(High(s, n))}
<1>0. 2^n \in Nat
  BY TwoPositive
<1>1. {} \in P
  <2>1. Low({}, n) = {} /\ High({}, n) = {}
    BY DEF Low, High
  <2> QED
    BY <1>0, <2>1, NumEmpty
<1>2. ASSUME NEW s \in FiniteWords, NEW i \in Nat \ s, s \in P PROVE s \cup {i} \in P
  <2>1. s \cup {i} \in FiniteWords /\ Num(s \cup {i}) = 2^i + Num(s) /\ s \subseteq Nat
    BY NumAdd DEF FiniteWords
  <2>2. /\ Low(s, n) \in FiniteWords /\ Num(Low(s, n)) \in Nat
        /\ High(s, n) \in FiniteWords /\ Num(High(s, n)) \in Nat
        /\ Num(s) = Num(Low(s, n)) + 2^n * Num(High(s, n))
    BY <1>2, NumAny
  <2>3. 2^i \in Nat
    BY TwoPositive
  <2>4. CASE i < n
    <3>1. Low(s \cup {i}, n) = Low(s, n) \cup {i} /\ i \notin Low(s, n)
      BY <2>4 DEF Low
    <3>2. High(s \cup {i}, n) = High(s, n)
      BY <2>4 DEF High
    <3>3. /\ Low(s, n) \cup {i} \in FiniteWords
          /\ Num(Low(s, n) \cup {i}) = 2^i + Num(Low(s, n))
      BY <2>2, <3>1, NumAdd
    <3> DEFINE high == 2^n * Num(High(s, n))
    <3>4. high \in Nat /\ Num(s) = Num(Low(s, n)) + high
      BY <1>0, <2>2
    <3> HIDE DEF high
    <3>5. Num(s \cup {i}) = Num(Low(s, n) \cup {i}) + high
      BY <2>1, <2>2, <2>3, <3>3, <3>4
    <3> QED
      BY <2>1, <2>2, <3>1, <3>2, <3>3, <3>5 DEF high
  <2>5. CASE ~(i < n)
    <3>0. i - n \in Nat /\ (i - n) + n = i
      BY <2>5
    <3>1. Low(s \cup {i}, n) = Low(s, n)
      BY <2>5 DEF Low
    <3>2. High(s \cup {i}, n) = High(s, n) \cup {i - n} /\ i - n \notin High(s, n)
      BY <3>0 DEF High
    <3>3. /\ High(s, n) \cup {i - n} \in FiniteWords
          /\ Num(High(s, n) \cup {i - n}) = 2^(i - n) + Num(High(s, n))
      BY <2>2, <3>0, <3>2, NumAdd
    <3>4. 2^i = 2^n * 2^(i - n) /\ 2^(i - n) \in Nat
      <4>1. n + (i - n) = i
        OBVIOUS
      <4> QED
        BY <3>0, <4>1, TwoSum, TwoPositive
    <3>5. 2^n * (2^(i - n) + Num(High(s, n))) = 2^n * 2^(i - n) + 2^n * Num(High(s, n))
      BY <1>0, <2>2, <3>4
    <3> DEFINE high == 2^n * Num(High(s, n))
    <3>6. high \in Nat /\ Num(s) = Num(Low(s, n)) + high
      BY <1>0, <2>2
    <3>7. 2^n * Num(High(s, n) \cup {i - n}) = 2^i + high
      BY <3>3, <3>4, <3>5
    <3> HIDE DEF high
    <3>8. Num(s \cup {i}) = Num(Low(s, n)) + (2^i + high)
      BY <2>1, <2>2, <2>3, <3>6
    <3> QED
      BY <2>1, <2>2, <3>1, <3>2, <3>3, <3>7, <3>8
  <2> QED
    BY <2>4, <2>5
<1>3. \A s \in FiniteWords : s \in P
  <2> HIDE DEF P
  <2> QED
    BY <1>1, <1>2, WordInduction
<1> QED
  BY <1>3

LEMMA NumRaise ==
  ASSUME NEW n \in Nat, NEW v \in FiniteWords
  PROVE  Raise(v, n) \in FiniteWords /\ Num(Raise(v, n)) = 2^n * Num(v)
<1> DEFINE P == {s \in FiniteWords : Raise(s, n) \in FiniteWords
      /\ Num(Raise(s, n)) = 2^n * Num(s)}
<1>0. 2^n \in Nat
  BY TwoPositive
<1>1. {} \in P
  <2>1. Raise({}, n) = {}
    BY DEF Raise
  <2> QED
    BY <1>0, <2>1, NumEmpty
<1>2. ASSUME NEW s \in FiniteWords, NEW i \in Nat \ s, s \in P PROVE s \cup {i} \in P
  <2>1. s \cup {i} \in FiniteWords /\ Num(s \cup {i}) = 2^i + Num(s) /\ s \subseteq Nat
        /\ Num(s) \in Nat /\ 2^i \in Nat
    BY NumAdd, NumAny, TwoPositive DEF FiniteWords
  <2>2. i + n \in Nat \ Raise(s, n) /\ Raise(s \cup {i}, n) = Raise(s, n) \cup {i + n}
    BY <2>1 DEF Raise
  <2>3. /\ Raise(s, n) \cup {i + n} \in FiniteWords
        /\ Num(Raise(s, n) \cup {i + n}) = 2^(i + n) + 2^n * Num(s)
    BY <1>2, <2>2, NumAdd
  <2>4. 2^(i + n) = 2^i * 2^n
    BY TwoSum
  <2>5. 2^i * 2^n + 2^n * Num(s) = 2^n * (2^i + Num(s))
    BY <1>0, <2>1
  <2> QED
    BY <2>1, <2>2, <2>3, <2>4, <2>5
<1>3. \A s \in FiniteWords : s \in P
  <2> HIDE DEF P
  <2> QED
    BY <1>1, <1>2, WordInduction
<1> QED
  BY <1>3

\* A word of n bits is below 2^n.
LEMMA NumBelow ==
  ASSUME NEW n \in Nat, NEW v, v \subseteq 0..(n - 1)
  PROVE  v \in FiniteWords /\ Num(v) \in Nat /\ Num(v) < 2^n
<1> DEFINE S == {k \in Nat : \A s \in FiniteWords : s \subseteq 0..(k - 1) => Num(s) < 2^k}
<1>1. 0 \in S
  <2>1. 2^0 = 1
    OBVIOUS
  <2>2. \A s \in FiniteWords : s \subseteq 0..(0 - 1) => s = {}
    OBVIOUS
  <2>3. 0 < 2^0 /\ Num({}) = 0
    BY <2>1, NumEmpty
  <2> QED
    BY <2>2, <2>3
<1>2. ASSUME NEW k \in Nat, k \in S PROVE k + 1 \in S
  <2>1. 2^k \in Nat /\ 2^(k + 1) = 2 * 2^k
    BY TwoTimes
  <2>2. ASSUME NEW s \in FiniteWords, s \subseteq 0..((k + 1) - 1) PROVE Num(s) < 2^(k + 1)
    <3>1. s \ {k} \in FiniteWords /\ s \ {k} \subseteq 0..(k - 1) /\ Num(s \ {k}) \in Nat
      <4>1. s \ {k} \in FiniteWords
        BY FS_Subset DEF FiniteWords
      <4>2. s \ {k} \subseteq 0..(k - 1)
        BY <2>2
      <4> QED
        BY <4>1, <4>2, NumAny
    <3>2. Num(s \ {k}) < 2^k
      BY <1>2, <3>1
    <3>3. CASE k \in s
      <4>1. Num(s) = 2^k + Num(s \ {k})
        BY <3>3, NumAny
      <4> QED
        BY <2>1, <3>1, <3>2, <4>1
    <3>4. CASE k \notin s
      <4>1. s \ {k} = s
        BY <3>4
      <4> QED
        BY <2>1, <3>1, <3>2, <4>1
    <3> QED
      BY <3>3, <3>4
  <2> QED
    BY <2>2
<1>3. \A k \in Nat : k \in S
  <2> HIDE DEF S
  <2> QED
    BY <1>1, <1>2, SetInduction
<1>4. v \in FiniteWords
  <2>1. IsFiniteSet(0..(n - 1)) /\ 0..(n - 1) \subseteq Nat
    BY FS_Interval
  <2> QED
    BY <2>1, FS_Subset DEF FiniteWords
<1> QED
  BY <1>3, <1>4, NumAny

\* A quotient by 2^n is the number of the bits from n on.
LEMMA NumQuotient ==
  ASSUME NEW n \in Nat, NEW v \in FiniteWords
  PROVE  /\ Num(v) \div 2^n = Num(High(v, n)) /\ Num(v) % 2^n = Num(Low(v, n))
         /\ High(v, n) \in FiniteWords /\ Num(High(v, n)) \in Nat
<1>1. /\ Low(v, n) \in FiniteWords /\ High(v, n) \in FiniteWords
      /\ Num(v) = Num(Low(v, n)) + 2^n * Num(High(v, n))
  BY NumSplit
<1>2. Num(v) \in Nat /\ Num(Low(v, n)) \in Nat /\ Num(High(v, n)) \in Nat
  BY <1>1, NumAny
<1>3. 2^n \in Nat /\ 2^n > 0
  BY TwoPositive
<1>4. Num(Low(v, n)) < 2^n
  <2>1. Low(v, n) \subseteq 0..(n - 1)
    BY FiniteBits DEF Low
  <2> QED
    BY <2>1, NumBelow
<1>5. Num(v) = 2^n * Num(High(v, n)) + Num(Low(v, n))
  <2>1. 2^n * Num(High(v, n)) \in Nat
    BY <1>2, <1>3
  <2> QED
    BY <1>1, <1>2, <2>1
<1> QED
  <2> DEFINE p == 2^n  m == Num(v)  q == Num(High(v, n))  r == Num(Low(v, n))
  <2> HIDE DEF p, m, q, r
  <2>1. /\ m \in Int /\ p \in Nat /\ p > 0 /\ q \in Int /\ r \in Nat /\ r < p
        /\ m = p * q + r
    BY <1>2, <1>3, <1>4, <1>5 DEF p, m, q, r
  <2>2. m \div p = q /\ m % p = r
    BY <2>1, DivisionIs
  <2> QED
    BY <1>1, <1>2, <2>2 DEF p, m, q, r

Digit(n, i) == (n \div 2^i) % 2 = 1

\* The digits of the number of a word are its bits.
LEMMA NumDigit ==
  ASSUME NEW v \in FiniteWords, NEW i \in Nat
  PROVE  Digit(Num(v), i) <=> i \in v
<1> DEFINE h == High(v, i)
<1>1. h \in FiniteWords /\ Num(h) \in Nat /\ Num(v) \div 2^i = Num(h)
  BY NumQuotient
<1>2. 0 \in h <=> i \in v
  BY DEF High, FiniteWords
<1> HIDE DEF h
<1>3. Num(h) % 2 = Num(Low(h, 1))
  <2>1. 2^1 = 2
    OBVIOUS
  <2>2. Num(h) % 2^1 = Num(Low(h, 1))
    BY <1>1, NumQuotient
  <2> QED
    BY <2>1, <2>2
<1>4. Low(h, 1) = IF 0 \in h THEN {0} ELSE {}
  <2>1. \A j \in h : j < 1 <=> j = 0
    BY <1>1, FiniteBits
  <2> QED
    BY <2>1 DEF Low
<1>5. Num({0}) = 1
  <2>1. {0} \ {0} = {} /\ {0} \in FiniteWords
    BY FS_Singleton DEF FiniteWords
  <2>2. Num({0}) = 2^0 + Num({0} \ {0})
    BY <2>1, NumAny
  <2>3. 2^0 = 1
    OBVIOUS
  <2> QED
    BY <2>1, <2>2, <2>3, NumEmpty
<1> QED
  BY <1>1, <1>2, <1>3, <1>4, <1>5, NumEmpty DEF Digit

LEMMA NumInjective ==
  ASSUME NEW v \in FiniteWords, NEW w \in FiniteWords, Num(v) = Num(w)
  PROVE  v = w
<1>1. \A i \in Nat : i \in v <=> i \in w
  BY NumDigit
<1> QED
  BY <1>1, FiniteBits

LEMMA ParityKept ==
  ASSUME NEW q \in Int, NEW k \in Int
  PROVE  (q + 2 * k) % 2 = q % 2
OBVIOUS

\* The digits below w are those of the remainder by 2^w.
LEMMA DigitModulo ==
  ASSUME NEW n \in Int, NEW k \in Int, NEW w \in Nat, NEW i \in Nat, i < w
  PROVE  Digit(n + 2^w * k, i) <=> Digit(n, i)
<1> DEFINE p == 2^i  c == 2^((w - i) - 1)  q == n \div p  r == n % p
<1>1. p \in Nat /\ p > 0 /\ c \in Nat
  BY TwoPositive
<1>2. 2^w = p * (2 * c)
  <2>1. w - i \in Nat /\ (w - i) - 1 \in Nat /\ ((w - i) - 1) + 1 = w - i /\ i + (w - i) = w
    OBVIOUS
  <2>2. 2^(i + (w - i)) = 2^i * 2^(w - i)
    BY <2>1, TwoSum
  <2>3. 2^(((w - i) - 1) + 1) = 2 * c
    BY <2>1, TwoTimes
  <2> QED
    BY <2>1, <2>2, <2>3
<1>3. q \in Int /\ r \in Nat /\ r < p /\ n = p * q + r
  BY <1>1, DivisionBy
<1> HIDE DEF p, c, q, r
<1> DEFINE even == c * k
<1>4. even \in Int
  BY <1>1
<1>5. 2^w * k = p * (2 * even)
  BY <1>1, <1>2
<1> HIDE DEF even
<1>6. n + 2^w * k = p * (q + 2 * even) + r
  <2>1. p * (q + 2 * even) = p * q + p * (2 * even)
    BY <1>1, <1>3, <1>4
  <2>2. p * q \in Int /\ p * (2 * even) \in Int
    BY <1>1, <1>3, <1>4
  <2> QED
    BY <1>3, <1>5, <2>1, <2>2
<1>7. (n + 2^w * k) \div p = q + 2 * even
  <2>1. n + 2^w * k \in Int /\ q + 2 * even \in Int
    BY <1>1, <1>3, <1>4, TwoPositive
  <2> QED
    BY <1>1, <1>3, <1>6, <2>1, DivisionIs
<1>8. (q + 2 * even) % 2 = q % 2
  BY <1>3, <1>4, ParityKept
<1> QED
  BY <1>7, <1>8 DEF Digit, p, q

LEMMA DigitOfQuotient ==
  ASSUME NEW m \in Int, NEW n \in Nat, NEW i \in Nat
  PROVE  Digit(m \div 2^n, i) <=> Digit(m, n + i)
<1> DEFINE p == 2^n  q == 2^i  a == m \div p  r == m % p  b == a \div q  s == a % q
<1>1. p \in Nat /\ p > 0 /\ q \in Nat /\ q > 0 /\ 2^(n + i) = p * q
  BY TwoPositive, TwoSum
<1>2. a \in Int /\ r \in Nat /\ r < p /\ m = p * a + r
  BY <1>1, DivisionBy
<1>3. b \in Int /\ s \in Nat /\ s < q /\ a = q * b + s
  BY <1>1, <1>2, DivisionBy
<1> HIDE DEF p, q, a, r, b, s
<1>4. m = (p * q) * b + (p * s + r)
  <2>1. p * (q * b + s) = (p * q) * b + p * s
    BY <1>1, <1>3
  <2>2. (p * q) * b \in Int /\ p * s \in Int
    BY <1>1, <1>3
  <2> QED
    BY <1>2, <1>3, <2>1, <2>2
<1>5. p * s + r \in Nat /\ p * s + r < p * q
  <2>1. p * s \in Nat /\ p * s + p <= p * q
    <3>1. s + 1 <= q
      BY <1>1, <1>3
    <3>2. p * (s + 1) <= p * q
      BY <1>1, <1>3, <3>1
    <3>3. p * (s + 1) = p * s + p /\ p * s \in Nat
      BY <1>1, <1>3
    <3> QED
      BY <3>2, <3>3
  <2>2. p * q \in Nat
    BY <1>1
  <2> QED
    BY <1>1, <1>2, <2>1, <2>2
<1>6. p * q \in Nat /\ p * q > 0
  BY <1>1
<1>7. m \div (p * q) = b
  <2> DEFINE d == p * q  e == p * s + r
  <2>1. d \in Nat /\ d > 0 /\ e \in Nat /\ e < d /\ m = d * b + e
    BY <1>4, <1>5, <1>6
  <2> HIDE DEF d, e
  <2>2. m \div d = b
    BY <1>3, <2>1, DivisionIs
  <2> QED
    BY <2>2 DEF d
<1> QED
  BY <1>1, <1>7 DEF Digit, p, q, a, b

-----------------------------------------------------------------------------
(* Words of the library as numbers.                                        *)

LEMMA MaskBits ==
  ASSUME NEW w \in 1..WordBits
  PROVE  /\ w \in Nat /\ fs_mask(w) = 0..(w - 1) /\ fs_mask(w) \subseteq Bits
         /\ \A v : v \subseteq fs_mask(w) => v \in FiniteWords /\ Num(v) \in Nat /\ Num(v) < 2^w
<1>1. w \in Nat /\ fs_mask(w) = 0..(w - 1) /\ fs_mask(w) \subseteq Bits
  BY WordBitsAssumption DEF fs_mask, Bits
<1> QED
  BY <1>1, NumBelow

LEMMA FitDigits ==
  ASSUME NEW n, NEW w
  PROVE  Fit(n, w) = {i \in fs_mask(w) : Digit(n, i)}
BY DEF Fit, ToWord, fs_mask, Digit

LEMMA FitNum ==
  ASSUME NEW v \in FiniteWords, NEW w
  PROVE  Fit(Num(v), w) = v \cap fs_mask(w)
<1>1. fs_mask(w) \subseteq Nat
  BY WordBitsAssumption DEF fs_mask, Bits
<1> QED
  BY <1>1, FitDigits, NumDigit

\* Two's complement in words is two's complement.
LEMMA SignIs ==
  ASSUME NEW w \in 1..WordBits, NEW x, x \subseteq fs_mask(w)
  PROVE  /\ SignedNum(x, w) = fs_sign(x, w)
         /\ SignedNum(x, w) = IF w - 1 \in x THEN Num(x) - 2^w ELSE Num(x)
         /\ SignedNum(x, w) \in Int
<1>1. x \in FiniteWords /\ Num(x) \in Nat /\ x \cap fs_mask(w) = x /\ w \in Nat
  BY MaskBits
<1>2. w - 1 \in Nat /\ 2^(w - 1) \in Nat /\ 2^w = 2 * 2^(w - 1) /\ 2^w \in Nat
  <2>1. w - 1 \in Nat /\ (w - 1) + 1 = w
    OBVIOUS
  <2> QED
    BY <2>1, TwoTimes
<1>3. fs_sign(x, w) = IF w - 1 \in x THEN Num(x) - 2^w ELSE Num(x)
  BY <1>1 DEF fs_sign
<1>4. SignedNum(x, w) = IF w - 1 \in x THEN Num(x) - 2^w ELSE Num(x)
  <2>1. CASE w - 1 \in x
    <3>1. Num(x) = 2^(w - 1) + Num(x \ {w - 1})
      BY <1>1, <2>1, NumAny
    <3>2. x \ {w - 1} \in FiniteWords /\ Num(x \ {w - 1}) \in Nat
      BY MaskBits
    <3> QED
      BY <1>1, <1>2, <2>1, <3>1, <3>2 DEF SignedNum
  <2>2. CASE w - 1 \notin x
    <3>1. x \ {w - 1} = x
      BY <2>2
    <3> QED
      <4>1. SignedNum(x, w) = Num(x) - 0
        BY <2>2, <3>1 DEF SignedNum
      <4> QED
        BY <1>1, <2>2, <4>1
  <2> QED
    BY <2>1, <2>2
<1> QED
  BY <1>1, <1>2, <1>3, <1>4

\* The sign bit goes on for ever.
LEMMA SignDigit ==
  ASSUME NEW w \in 1..WordBits, NEW x, x \subseteq fs_mask(w), NEW i \in Nat
  PROVE  Digit(SignedNum(x, w), i) <=> IF i < w THEN i \in x ELSE w - 1 \in x
<1>1. /\ x \in FiniteWords /\ Num(x) \in Nat /\ Num(x) < 2^w /\ w \in Nat
      /\ x \subseteq 0..(w - 1)
  BY MaskBits
<1>2. SignedNum(x, w) = IF w - 1 \in x THEN Num(x) - 2^w ELSE Num(x)
  BY SignIs
<1>3. Digit(Num(x), i) <=> i \in x
  BY <1>1, NumDigit
<1>4. CASE w - 1 \notin x
  <2>1. ~(i < w) => i \notin x
    BY <1>1
  <2> QED
    BY <1>2, <1>3, <1>4, <2>1
<1>5. CASE w - 1 \in x /\ i < w
  <2>1. 2^w \in Nat /\ Num(x) - 2^w = Num(x) + 2^w * (-1)
    BY <1>1, TwoPositive
  <2>2. Digit(Num(x) + 2^w * (-1), i) <=> Digit(Num(x), i)
    <3>1. -1 \in Int /\ Num(x) \in Int
      BY <1>1
    <3> QED
      BY <1>1, <1>5, <3>1, DigitModulo
  <2> QED
    BY <1>2, <1>3, <1>5, <2>1, <2>2
<1>6. CASE w - 1 \in x /\ ~(i < w)
  <2> DEFINE m == Num(x) - 2^w  p == 2^i
  <2>1. 2^w \in Nat /\ 2^w > 0 /\ p \in Nat /\ p >= 2^w
    <3>1. i - w \in Nat /\ w + (i - w) = i
      BY <1>1, <1>6
    <3>2. 2^i = 2^w * 2^(i - w) /\ 2^(i - w) \in Nat /\ 2^(i - w) > 0 /\ 2^w \in Nat /\ 2^w > 0
      BY <1>1, <3>1, TwoSum, TwoPositive
    <3> DEFINE c == 2^(i - w)  d == 2^w
    <3>3. c \in Nat /\ c > 0 /\ d \in Nat /\ d > 0 /\ p = d * c
      BY <3>2
    <3> HIDE DEF c, d
    <3>4. d * c >= d
      BY <3>3
    <3> QED
      BY <3>3, <3>4 DEF c, d
  <2>2. m \in Int /\ m + p \in Nat /\ m + p < p /\ m = p * (-1) + (m + p)
    BY <1>1, <2>1
  <2> HIDE DEF m, p
  <2>3. m \div p = -1
    BY <2>1, <2>2, DivisionIs
  <2>4. (-1) % 2 = 1
    <3>1. \A k \in Int : k + 1 = 0 => k % 2 = 1
      OBVIOUS
    <3> QED
      BY <3>1, -1 \in Int, -1 + 1 = 0
  <2> QED
    BY <1>2, <1>6, <2>3, <2>4 DEF Digit, m, p
<1> QED
  BY <1>4, <1>5, <1>6

-----------------------------------------------------------------------------
(* Powers of any number.                                                   *)

IsPowers(p, m, n) == p = [i \in 0..n |-> IF i = 0 THEN 1 ELSE m * p[i - 1]]

LEMMA RaisedIs ==
  ASSUME NEW m, NEW n
  PROVE  Raised(m, n) = (CHOOSE p : IsPowers(p, m, n))[n]
BY DEF Raised, IsPowers

LEMMA PowersExist ==
  ASSUME NEW m, NEW n \in Nat
  PROVE  \E p : IsPowers(p, m, n) /\ Raised(m, n) = p[n]
<1> DEFINE S == {k \in Nat : \E p : IsPowers(p, m, k)}
<1>1. 0 \in S
  <2>1. IsPowers([i \in 0..0 |-> 1], m, 0)
    BY DEF IsPowers
  <2> QED
    BY <2>1
<1>2. ASSUME NEW k \in Nat, k \in S PROVE k + 1 \in S
  <2>1. PICK p : IsPowers(p, m, k)
    BY <1>2
  <2> DEFINE q == [i \in 0..(k + 1) |-> IF i = k + 1 THEN m * p[k] ELSE p[i]]
             r == [i \in 0..(k + 1) |-> IF i = 0 THEN 1 ELSE m * q[i - 1]]
  <2>2. ASSUME NEW i \in 0..(k + 1) PROVE q[i] = r[i]
    <3>1. CASE i = k + 1
      BY <3>1
    <3>2. CASE i # k + 1
      <4>1. i \in 0..k /\ q[i] = p[i] /\ (i # 0 => i - 1 \in 0..(k + 1) /\ i - 1 # k + 1)
        BY <3>2
      <4>2. p[i] = IF i = 0 THEN 1 ELSE m * p[i - 1]
        BY <2>1, <4>1 DEF IsPowers
      <4> QED
        BY <4>1, <4>2
    <3> QED
      BY <3>1, <3>2
  <2>3. q = r
    BY <2>2
  <2>4. IsPowers(q, m, k + 1)
    BY <2>3 DEF IsPowers
  <2> QED
    BY <2>4
<1>3. \A k \in Nat : k \in S
  <2> HIDE DEF S
  <2> QED
    BY <1>1, <1>2, SetInduction
<1>4. \E p : IsPowers(p, m, n)
  BY <1>3
<1>5. IsPowers(CHOOSE p : IsPowers(p, m, n), m, n)
  BY <1>4, Zenon
<1> QED
  BY <1>5, RaisedIs

LEMMA PowersAgree ==
  ASSUME NEW m, NEW n \in Nat, NEW p, IsPowers(p, m, n + 1), NEW q, IsPowers(q, m, n)
  PROVE  p[n] = q[n]
<1> DEFINE S == {k \in Nat : k <= n => p[k] = q[k]}
<1>1. 0 \in S
  BY DEF IsPowers
<1>2. ASSUME NEW k \in Nat, k \in S PROVE k + 1 \in S
  <2>1. CASE k + 1 <= n
    <3>1. k <= n /\ k + 1 \in 0..n /\ k + 1 \in 0..(n + 1) /\ (k + 1) - 1 = k /\ k + 1 # 0
      BY <2>1
    <3>2. p[k + 1] = m * p[k] /\ q[k + 1] = m * q[k]
      BY <3>1 DEF IsPowers
    <3> QED
      BY <1>2, <3>1, <3>2
  <2> QED
    BY <2>1
<1>3. \A k \in Nat : k \in S
  <2> HIDE DEF S
  <2> QED
    BY <1>1, <1>2, SetInduction
<1> QED
  BY <1>3

LEMMA RaisedStep ==
  ASSUME NEW m
  PROVE  Raised(m, 0) = 1 /\ \A n \in Nat : Raised(m, n + 1) = m * Raised(m, n)
<1>1. Raised(m, 0) = 1
  <2>1. PICK p : IsPowers(p, m, 0) /\ Raised(m, 0) = p[0]
    BY PowersExist
  <2> QED
    BY <2>1 DEF IsPowers
<1>2. ASSUME NEW n \in Nat PROVE Raised(m, n + 1) = m * Raised(m, n)
  <2>1. n + 1 \in Nat
    OBVIOUS
  <2>2. PICK p : IsPowers(p, m, n + 1) /\ Raised(m, n + 1) = p[n + 1]
    BY <2>1, PowersExist
  <2>3. PICK q : IsPowers(q, m, n) /\ Raised(m, n) = q[n]
    BY PowersExist
  <2>4. p[n] = q[n]
    BY <2>2, <2>3, PowersAgree
  <2>5. p[n + 1] = m * p[n]
    <3>1. n + 1 \in 0..(n + 1) /\ n + 1 # 0 /\ (n + 1) - 1 = n
      OBVIOUS
    <3> QED
      BY <2>2, <3>1 DEF IsPowers
  <2> QED
    BY <2>2, <2>3, <2>4, <2>5
<1> QED
  BY <1>1, <1>2

LEMMA RaisedNat ==
  ASSUME NEW m \in Nat, NEW n \in Nat
  PROVE  Raised(m, n) \in Nat
<1> DEFINE S == {k \in Nat : Raised(m, k) \in Nat}
<1>1. 0 \in S
  BY RaisedStep
<1>2. \A k \in Nat : k \in S => k + 1 \in S
  <2> SUFFICES ASSUME NEW k \in Nat, k \in S PROVE k + 1 \in S
    OBVIOUS
  <2>1. Raised(m, k + 1) = m * Raised(m, k) /\ Raised(m, k) \in Nat
    BY RaisedStep
  <2> QED
    BY <2>1
<1>3. \A k \in Nat : k \in S
  <2> HIDE DEF S
  <2> QED
    BY <1>1, <1>2, SetInduction
<1> QED
  BY <1>3

LEMMA RaisedSum ==
  ASSUME NEW m \in Nat, NEW j \in Nat, NEW k \in Nat
  PROVE  Raised(m, j + k) = Raised(m, j) * Raised(m, k)
<1> DEFINE S == {n \in Nat : Raised(m, j + n) = Raised(m, j) * Raised(m, n)}
<1>0. Raised(m, j) \in Nat
  BY RaisedNat
<1>1. 0 \in S
  <2>1. j + 0 = j /\ Raised(m, 0) = 1
    BY RaisedStep
  <2> QED
    BY <1>0, <2>1
<1>2. ASSUME NEW n \in Nat, n \in S PROVE n + 1 \in S
  <2>1. /\ j + (n + 1) = (j + n) + 1 /\ j + n \in Nat
        /\ Raised(m, n) \in Nat /\ Raised(m, n + 1) = m * Raised(m, n)
    BY RaisedStep, RaisedNat
  <2>2. Raised(m, (j + n) + 1) = m * Raised(m, j + n)
    BY <2>1, RaisedStep
  <2>3. Raised(m, j + n) = Raised(m, j) * Raised(m, n)
    BY <1>2
  <2> DEFINE x == Raised(m, j)  y == Raised(m, n)
  <2>4. x \in Nat /\ y \in Nat
    BY <1>0, <2>1
  <2> HIDE DEF x, y
  <2>5. m * (x * y) = x * (m * y)
    BY <2>4
  <2> QED
    BY <2>1, <2>2, <2>3, <2>5 DEF x, y
<1>3. \A n \in Nat : n \in S
  <2> HIDE DEF S
  <2> QED
    BY <1>1, <1>2, SetInduction
<1> QED
  BY <1>3

-----------------------------------------------------------------------------
(* Square and multiply in words: the product of two remainders has the     *)
(* remainder of the product.                                               *)

LEMMA ModuloSum ==
  ASSUME NEW n \in Int, NEW k \in Int, NEW p \in Nat, p > 0
  PROVE  (p * k + n) % p = n % p
<1> DEFINE q == n \div p  r == n % p
<1>1. q \in Int /\ r \in Nat /\ r < p /\ n = p * q + r
  BY DivisionBy
<1> HIDE DEF q, r
<1>2. p * k + n = p * (k + q) + r /\ p * k + n \in Int /\ k + q \in Int
  <2>1. p * (k + q) = p * k + p * q /\ p * k \in Int /\ p * q \in Int
    BY <1>1
  <2> QED
    BY <1>1, <2>1
<1>3. (p * k + n) % p = r
  BY <1>1, <1>2, DivisionIs
<1> QED
  BY <1>3 DEF r

LEMMA ModuloProduct ==
  ASSUME NEW m \in Nat, NEW n \in Nat, NEW p \in Nat, p > 0
  PROVE  ((m % p) * (n % p)) % p = (m * n) % p
<1> DEFINE q == m \div p  r == m % p  s == n \div p  t == n % p
<1>1. q \in Int /\ r \in Nat /\ m = p * q + r
  BY DivisionBy
<1>2. s \in Int /\ t \in Nat /\ n = p * s + t
  BY DivisionBy
<1> HIDE DEF q, r, s, t
<1> DEFINE k == q * n + r * s
<1>3. k \in Int /\ r * t \in Int
  BY <1>1, <1>2
<1>4. m * n = p * k + r * t
  <2>1. m * n = p * (q * n) + r * n
    BY <1>1
  <2>2. r * n = p * (r * s) + r * t
    BY <1>1, <1>2
  <2>3. p * k = p * (q * n) + p * (r * s)
    BY <1>1, <1>2
  <2>4. p * (q * n) \in Int /\ p * (r * s) \in Int
    BY <1>1, <1>2
  <2> QED
    BY <1>3, <2>1, <2>2, <2>3, <2>4
<1> HIDE DEF k
<1>5. (p * k + r * t) % p = (r * t) % p
  BY <1>3, ModuloSum
<1> QED
  BY <1>4, <1>5 DEF r, t

\* The same for all factors at once.
LEMMA ModuloProducts ==
  ASSUME NEW p \in Nat, p > 0
  PROVE  \A m, n \in Nat : ((m % p) * (n % p)) % p = (m * n) % p
BY ModuloProduct, Zenon

WordSize == 2^WordBits

Turn(t, i, base, exp) ==
    IF i = 0 THEN [result |-> 1, square |-> base]
    ELSE [result |-> IF (exp \div 2^(i - 1)) % 2 = 1
                     THEN (t[i - 1].result * t[i - 1].square) % 2^WordBits
                     ELSE t[i - 1].result,
          square |-> (t[i - 1].square * t[i - 1].square) % 2^WordBits]

AreTurns(t, n, base, exp) == t = [i \in 0..n |-> Turn(t, i, base, exp)]

LEMMA PowerIs ==
  ASSUME NEW base, NEW exp
  PROVE  Power(base, exp) = (CHOOSE t : AreTurns(t, WordBits, base, exp))[WordBits].result
BY DEF Power, AreTurns, Turn

LEMMA TurnsExist ==
  ASSUME NEW base, NEW exp
  PROVE  \E t : AreTurns(t, WordBits, base, exp) /\ Power(base, exp) = t[WordBits].result
<1> DEFINE S == {n \in Nat : \E t : AreTurns(t, n, base, exp)}
<1>1. 0 \in S
  <2>1. AreTurns([i \in 0..0 |-> [result |-> 1, square |-> base]], 0, base, exp)
    BY DEF AreTurns, Turn
  <2> QED
    BY <2>1
<1>2. ASSUME NEW n \in Nat, n \in S PROVE n + 1 \in S
  <2>1. PICK t : AreTurns(t, n, base, exp)
    BY <1>2
  <2> DEFINE u == [i \in 0..(n + 1) |-> IF i = n + 1 THEN Turn(t, n + 1, base, exp) ELSE t[i]]
  <2>2. ASSUME NEW i \in 0..(n + 1) PROVE u[i] = Turn(u, i, base, exp)
    <3>1. i # 0 => i - 1 \in 0..(n + 1) /\ i - 1 # n + 1
      OBVIOUS
    <3>2. i # 0 => u[i - 1] = t[i - 1]
      BY <3>1
    <3>3. Turn(u, i, base, exp) = Turn(t, i, base, exp)
      BY <3>2 DEF Turn
    <3>4. CASE i = n + 1
      BY <3>3, <3>4
    <3>5. CASE i # n + 1
      <4>1. i \in 0..n /\ u[i] = t[i]
        BY <3>5
      <4>2. t[i] = Turn(t, i, base, exp)
        BY <2>1, <4>1 DEF AreTurns
      <4> QED
        BY <3>3, <4>1, <4>2
    <3> QED
      BY <3>4, <3>5
  <2>3. u = [i \in 0..(n + 1) |-> Turn(u, i, base, exp)]
    BY <2>2
  <2>4. AreTurns(u, n + 1, base, exp)
    BY <2>3 DEF AreTurns
  <2> QED
    BY <2>4
<1>3. \A n \in Nat : n \in S
  <2> HIDE DEF S
  <2> QED
    BY <1>1, <1>2, SetInduction
<1>4. \E t : AreTurns(t, WordBits, base, exp)
  BY <1>3, WordBitsAssumption
<1>5. AreTurns(CHOOSE t : AreTurns(t, WordBits, base, exp), WordBits, base, exp)
  BY <1>4, Zenon
<1> QED
  BY <1>5, PowerIs

\* One bit of the exponent more.
LEMMA OneMoreBit ==
  ASSUME NEW exp \in Nat, NEW i \in Nat
  PROVE  exp % 2^(i + 1) = IF (exp \div 2^i) % 2 = 1 THEN (exp % 2^i) + 2^i ELSE exp % 2^i
<1> DEFINE p == 2^i  q == exp \div p  r == exp % p  h == q \div 2  d == q % 2
<1>1. p \in Nat /\ p > 0 /\ 2^(i + 1) = 2 * p
  BY TwoPositive, TwoTimes
<1>2. q \in Int /\ r \in Nat /\ r < p /\ exp = p * q + r
  BY <1>1, exp \in Int, DivisionBy
<1>3. h \in Int /\ d \in Nat /\ d < 2 /\ q = 2 * h + d
  <2> HIDE DEF q
  <2> QED
    BY <1>2, 2 \in Nat, 2 > 0, DivisionBy
<1> HIDE DEF p, q, r, h, d
<1>4. exp = (2 * p) * h + (p * d + r)
  <2>1. p * q = (2 * p) * h + p * d
    BY <1>1, <1>3
  <2>2. (2 * p) * h \in Int /\ p * d \in Int
    BY <1>1, <1>3
  <2> QED
    BY <1>2, <2>1, <2>2
<1>5. /\ d \in {0, 1}
      /\ p * d + r = IF d = 1 THEN r + p ELSE r
  BY <1>1, <1>2, <1>3
<1> DEFINE e == p * d + r  b == 2 * p
<1>6. e \in Nat /\ e < b /\ b \in Nat /\ b > 0 /\ exp = b * h + e
  <2>1. e \in Nat /\ e < b
    <3> HIDE DEF e
    <3>1. e = IF d = 1 THEN r + p ELSE r
      BY <1>5 DEF e
    <3> QED
      BY <1>1, <1>2, <3>1
  <2>2. b \in Nat /\ b > 0
    BY <1>1
  <2>3. exp = b * h + e
    BY <1>4
  <2> QED
    BY <2>1, <2>2, <2>3
<1> HIDE DEF e, b
<1>7. exp % b = e
  BY <1>3, <1>6, DivisionIs
<1> QED
  BY <1>1, <1>5, <1>7 DEF p, q, r, d, e, b

\* After i turns the exponent's low i bits are done.
TurnsDone(t, i, base, exp) ==
    /\ t[i].result = Raised(base, exp % 2^i) % WordSize
    /\ t[i].square = Raised(base, 2^i) % WordSize

LEMMA TurnsRight ==
  ASSUME NEW base \in Nat, base < WordSize, NEW exp \in Nat,
         NEW t, AreTurns(t, WordBits, base, exp)
  PROVE  \A i \in Nat : i <= WordBits => TurnsDone(t, i, base, exp)
<1> DEFINE S == {i \in Nat : i <= WordBits => TurnsDone(t, i, base, exp)}
           p == WordSize
<1>0. p \in Nat /\ p > 1 /\ p > 0
  <2>1. WordBits - 1 \in Nat /\ (WordBits - 1) + 1 = WordBits
    BY WordBitsAssumption
  <2>2. 2^WordBits = 2 * 2^(WordBits - 1) /\ 2^(WordBits - 1) \in Nat /\ 2^(WordBits - 1) > 0
    BY <2>1, TwoTimes, TwoPositive
  <2> QED
    BY <2>2 DEF WordSize
<1>1. 0 \in S
  <2>1. t[0] = [result |-> 1, square |-> base]
    BY WordBitsAssumption DEF AreTurns, Turn
  <2>2. 2^0 = 1 /\ exp % 1 = 0
    OBVIOUS
  <2>3. Raised(base, 0) = 1 /\ Raised(base, 1) = base
    <3>1. Raised(base, 0) = 1 /\ Raised(base, 0 + 1) = base * Raised(base, 0)
      BY RaisedStep
    <3> QED
      BY <3>1
  <2>4. 1 % p = 1 /\ base % p = base
    BY <1>0, DivisionIs
  <2> QED
    BY <2>1, <2>2, <2>3, <2>4 DEF TurnsDone
<1>2. ASSUME NEW i \in Nat, i \in S, i + 1 <= WordBits PROVE TurnsDone(t, i + 1, base, exp)
  <2> DEFINE low == exp % 2^i  x == Raised(base, low)  y == Raised(base, 2^i)
             bit == (exp \div 2^i) % 2 = 1
  <2>1. t[i].result = x % p /\ t[i].square = y % p
    <3>1. i <= WordBits
      BY <1>2, WordBitsAssumption
    <3> QED
      BY <1>2, <3>1 DEF TurnsDone
  <2>2. t[i + 1] = [result |-> IF bit THEN (t[i].result * t[i].square) % p ELSE t[i].result,
                    square |-> (t[i].square * t[i].square) % p]
    <3>1. i + 1 \in 0..WordBits /\ i + 1 # 0 /\ (i + 1) - 1 = i
      BY <1>2, WordBitsAssumption
    <3> QED
      BY <3>1 DEF AreTurns, Turn, WordSize
  <2>3. 2^i \in Nat /\ 2^i > 0 /\ 2^(i + 1) = 2^i + 2^i
    BY TwoPositive, TwoTimes
  <2>4. low \in Nat
    BY <2>3, exp \in Int, DivisionBy
  <2>5. exp % 2^(i + 1) = IF bit THEN low + 2^i ELSE low
    BY OneMoreBit
  <2> HIDE DEF low, bit
  <2>6. x \in Nat /\ y \in Nat /\ Raised(base, 2^i + 2^i) = y * y
        /\ Raised(base, low + 2^i) = x * y
    BY <2>3, <2>4, RaisedNat, RaisedSum
  <2>7. /\ Raised(base, 2^(i + 1)) = y * y
        /\ Raised(base, exp % 2^(i + 1)) = IF bit THEN x * y ELSE x
    BY <2>3, <2>5, <2>6
  <2> HIDE DEF x, y
  <2>8. ((y % p) * (y % p)) % p = (y * y) % p /\ ((x % p) * (y % p)) % p = (x * y) % p
    <3>1. \A m, n \in Nat : ((m % p) * (n % p)) % p = (m * n) % p
      BY <1>0, ModuloProducts, Zenon
    <3> QED
      BY <2>6, <3>1, Zenon
  <2>9. /\ t[i + 1].square = ((y % p) * (y % p)) % p
        /\ t[i + 1].result = IF bit THEN ((x % p) * (y % p)) % p ELSE x % p
    BY <2>1, <2>2
  <2> QED
    BY <2>7, <2>8, <2>9 DEF TurnsDone
<1>3. \A i \in Nat : i \in S => i + 1 \in S
  BY <1>2
<1>4. \A i \in Nat : i \in S
  <2> HIDE DEF S
  <2> QED
    BY <1>1, <1>3, SetInduction
<1> QED
  BY <1>4

\* Square and multiply is exponentiation in words.
LEMMA PowerRight ==
  ASSUME NEW base \in Nat, base < WordSize, NEW exp \in Nat, exp < WordSize
  PROVE  Power(base, exp) = Raised(base, exp) % WordSize
<1>1. PICK t : AreTurns(t, WordBits, base, exp) /\ Power(base, exp) = t[WordBits].result
  BY TurnsExist
<1>2. WordBits \in Nat /\ WordBits <= WordBits
  BY WordBitsAssumption
<1>3. t[WordBits].result = Raised(base, exp % 2^WordBits) % WordSize
  <2>1. \A i \in Nat : i <= WordBits => TurnsDone(t, i, base, exp)
    BY <1>1, TurnsRight
  <2> QED
    BY <1>2, <2>1 DEF TurnsDone
<1>4. exp % 2^WordBits = exp
  <2>1. 2^WordBits \in Nat /\ 2^WordBits > 0
    BY <1>2, TwoPositive
  <2>2. exp < 2^WordBits
    BY DEF WordSize
  <2> QED
    BY <2>1, <2>2, Remaining
<1> QED
  BY <1>1, <1>3, <1>4

-----------------------------------------------------------------------------
(* Division towards zero is unique.                                        *)

Abs(n) == IF n < 0 THEN -n ELSE n

IsTruncated(q, m, n) ==
    LET r == m - q * n
    IN  /\ r < Abs(n) /\ -r < Abs(n)
        /\ r = 0 \/ (r < 0) = (m < 0)

LEMMA SmallMultiple ==
  ASSUME NEW n \in Int, n # 0, NEW k \in Int, k * n < Abs(n), -(k * n) < Abs(n)
  PROVE  k = 0
<1>1. CASE k >= 1 /\ n > 0
  <2>1. k * n >= n
    BY <1>1
  <2> QED
    BY <1>1, <2>1 DEF Abs
<1>2. CASE k >= 1 /\ n < 0
  <2>1. k * n <= n
    BY <1>2
  <2> QED
    BY <1>2, <2>1 DEF Abs
<1>3. CASE k <= -1 /\ n > 0
  <2>1. k * n <= -n
    BY <1>3
  <2> QED
    BY <1>3, <2>1 DEF Abs
<1>4. CASE k <= -1 /\ n < 0
  <2>1. k * n >= -n
    BY <1>4
  <2> QED
    BY <1>4, <2>1 DEF Abs
<1> QED
  BY <1>1, <1>2, <1>3, <1>4

LEMMA TruncatedOnce ==
  ASSUME NEW m \in Int, NEW n \in Int, n # 0, NEW q \in Int, NEW s \in Int,
         IsTruncated(q, m, n), IsTruncated(s, m, n)
  PROVE  q = s
<1> DEFINE x == m - q * n  y == m - s * n  k == q - s
<1>1. x \in Int /\ y \in Int /\ k \in Int
  OBVIOUS
<1>2. k * n = y - x
  OBVIOUS
<1>3. /\ x < Abs(n) /\ -x < Abs(n) /\ (x = 0 \/ ((x < 0) = (m < 0)))
      /\ y < Abs(n) /\ -y < Abs(n) /\ (y = 0 \/ ((y < 0) = (m < 0)))
  BY DEF IsTruncated
<1>4. Abs(n) \in Nat
  BY DEF Abs
<1> HIDE DEF x, y
<1>5. y - x < Abs(n) /\ -(y - x) < Abs(n)
  BY <1>1, <1>3, <1>4
<1> HIDE DEF k
<1>6. k = 0
  BY <1>1, <1>2, <1>5, SmallMultiple
<1> QED
  BY <1>6 DEF k

\* What the library computes is the quotient rounded towards zero.
LEMMA QuotientTruncates ==
  ASSUME NEW m \in Int, NEW n \in Int, n # 0
  PROVE  /\ Quotient(m, n) \in Int /\ IsTruncated(Quotient(m, n), m, n)
         /\ Quotient(m, n) <= Abs(m) /\ -Quotient(m, n) <= Abs(m)
<1> DEFINE x == Abs(m)  y == Abs(n)  q == x \div y  r == x % y
<1>1. x \in Nat /\ y \in Nat /\ y > 0
  BY DEF Abs
<1>2. q \in Int /\ r \in Nat /\ r < y /\ x = y * q + r
  BY <1>1, x \in Int, DivisionBy
<1>3. Quotient(m, n) = IF (m < 0) = (n < 0) THEN q ELSE -q
  BY DEF Quotient, Abs
<1> HIDE DEF q, r
<1>4. q >= 0 /\ q <= x
  <2>1. q >= 0
    <3> SUFFICES ASSUME q <= -1 PROVE FALSE
      BY <1>2
    <3>1. y * q <= -y
      BY <1>1, <1>2
    <3> QED
      BY <1>1, <1>2, <3>1
  <2>2. y * q >= q /\ y * q \in Int
    BY <1>1, <1>2, <2>1
  <2> QED
    BY <1>1, <1>2, <2>1, <2>2
<1>5. Quotient(m, n) * n = IF m < 0 THEN -(y * q) ELSE y * q
  <2>1. CASE m < 0 /\ n < 0
    <3>1. Quotient(m, n) = q /\ y = -n
      BY <1>3, <2>1 DEF Abs
    <3> QED
      BY <1>2, <2>1, <3>1
  <2>2. CASE m < 0 /\ ~(n < 0)
    <3>1. Quotient(m, n) = -q /\ y = n
      BY <1>3, <2>2 DEF Abs
    <3> QED
      BY <1>2, <2>2, <3>1
  <2>3. CASE ~(m < 0) /\ n < 0
    <3>1. Quotient(m, n) = -q /\ y = -n
      BY <1>3, <2>3 DEF Abs
    <3> QED
      BY <1>2, <2>3, <3>1
  <2>4. CASE ~(m < 0) /\ ~(n < 0)
    <3>1. Quotient(m, n) = q /\ y = n
      BY <1>3, <2>4 DEF Abs
    <3> QED
      BY <1>2, <2>4, <3>1
  <2> QED
    BY <2>1, <2>2, <2>3, <2>4
<1>6. m - Quotient(m, n) * n = IF m < 0 THEN -r ELSE r
  <2> DEFINE z == y * q
  <2>1. z \in Int /\ x = z + r /\ Quotient(m, n) * n = IF m < 0 THEN -z ELSE z
    BY <1>1, <1>2, <1>5
  <2> HIDE DEF z
  <2> QED
    BY <1>2, <2>1 DEF Abs
<1>7. IsTruncated(Quotient(m, n), m, n)
  <2> DEFINE d == m - Quotient(m, n) * n
  <2>1. d = IF m < 0 THEN -r ELSE r
    BY <1>6
  <2> HIDE DEF d
  <2>2. d < y /\ -d < y /\ (d = 0 \/ ((d < 0) = (m < 0)))
    BY <1>1, <1>2, <2>1
  <2> QED
    BY <2>2 DEF IsTruncated, d
<1> QED
  BY <1>1, <1>2, <1>3, <1>4, <1>7

LEMMA TruncatedIs ==
  ASSUME NEW m \in Int, NEW n \in Int, n # 0, Abs(m) <= WordSize
  PROVE  Truncated(m, n) = Quotient(m, n)
<1> DEFINE R == -(2^WordBits)..(2^WordBits)
<1>1. Truncated(m, n) = CHOOSE q \in R : IsTruncated(q, m, n)
  BY DEF Truncated, IsTruncated, Abs
<1>2. 2^WordBits \in Nat /\ Abs(m) \in Nat
  BY WordBitsAssumption, TwoPositive DEF Abs
<1>3. Quotient(m, n) \in R /\ IsTruncated(Quotient(m, n), m, n)
  BY <1>2, QuotientTruncates DEF WordSize
<1>4. \A q \in R : IsTruncated(q, m, n) => q = Quotient(m, n)
  BY <1>2, QuotientTruncates, TruncatedOnce
<1> HIDE DEF R
<1> QED
  BY <1>1, <1>3, <1>4

-----------------------------------------------------------------------------
(* The operations.                                                         *)

LEMMA KnownWord ==
  ASSUME NEW a, a.xz = {}
  PROVE  Completions(a) = {a.val}
BY DEF Completions

LEMMA WordCompletions ==
  ASSUME NEW w, NEW a \in Fs(w), NEW x \in Completions(a)
  PROVE  x \subseteq fs_mask(w) /\ \A i : i \notin a.xz => (i \in x <=> i \in a.val)
<1>1. a.val \subseteq fs_mask(w) /\ a.xz \subseteq fs_mask(w)
  BY Planes
<1> QED
  BY <1>1, CompletionBits

\* The second operands a call is given a meaning for.
Seconds(op, b) ==
    IF op = "sext" THEN {{}}
    ELSE IF op \in Divisions THEN Completions(b) \ {{}} ELSE Completions(b)

LEMMA NumbersMeant ==
  ASSUME NEW op, NEW a, NEW b, NEW w, NEW m \in NumberMeanings(op, a, b, w)
  PROVE  \E x \in Completions(a), y \in Seconds(op, b) : m = NumberMeaning(op, x, y, w)
BY DEF NumberMeanings, Seconds

Shifts == {"shl", "shr", "sar"}

LEMMA MeaningFits ==
  ASSUME NEW op \in FsStrict, NEW x, NEW y, NEW w \in 1..WordBits
  PROVE  NumberMeaning(op, x, y, w) \subseteq fs_mask(WidthOf(op, w))
<1>1. \A n : Fit(n, w) \subseteq fs_mask(w)
  BY DEF Fit
<1>2. \A p : Truth(p) \subseteq fs_mask(1)
  BY LowBit DEF Truth
<1>3. CASE op \in {"add", "sub", "mul", "div", "mod", "pow"}
  BY <1>1, <1>3 DEF NumberMeaning, WidthOf, Comparisons
<1>4. CASE op \in {"spow", "sdiv", "smod"}
  BY <1>1, <1>4 DEF NumberMeaning, WidthOf, Comparisons
<1>5. CASE op \in {"eq", "ne", "lt", "gt", "le"}
  BY <1>2, <1>5 DEF NumberMeaning, WidthOf, Comparisons
<1>6. CASE op \in {"ge", "slt", "sle", "sgt", "sge"}
  BY <1>2, <1>6 DEF NumberMeaning, WidthOf, Comparisons
<1> QED
  BY <1>3, <1>4, <1>5, <1>6 DEF FsStrict, Comparisons, Divisions

\* An answer without a known bit is right.
LEMMA AllUnknownRight ==
  ASSUME NEW M, NEW w, \A m \in M : m \subseteq fs_mask(w)
  PROVE  RightFor(fs_allx(w), M)
BY DEF RightFor, fs_allx

LEMMA FittingRight ==
  ASSUME NEW M, NEW w, NEW n, \A m \in M : m = Fit(n, w)
  PROVE  RightFor(fs_make(ToWord(n), {}, w), M)
BY DEF RightFor, fs_make, Fit

LEMMA TruthRight ==
  ASSUME NEW M, NEW p \in BOOLEAN, \A m \in M : m = Truth(p)
  PROVE  RightFor(Bool(p), M)
BY DEF RightFor, Bool, Truth

\* The numbers of the operands of a call.
LEMMA OperandNumbers ==
  ASSUME NEW w \in 1..WordBits, NEW a \in Fs(w)
  PROVE  /\ a.val \in FiniteWords /\ Num(a.val) \in Nat /\ Num(a.val) < 2^w
         /\ Num(a.val) < WordSize
         /\ a.val \subseteq fs_mask(w) /\ a.val \cap fs_mask(w) = a.val
         /\ SignedNum(a.val, w) = fs_sign(a.val, w)
         /\ fs_sign(a.val, w) = IF w - 1 \in a.val THEN Num(a.val) - 2^w ELSE Num(a.val)
         /\ fs_sign(a.val, w) \in Int /\ Abs(fs_sign(a.val, w)) <= WordSize
<1>1. a.val \subseteq fs_mask(w)
  BY Planes
<1>2. a.val \in FiniteWords /\ Num(a.val) \in Nat /\ Num(a.val) < 2^w
  BY <1>1, MaskBits
<1>3. Num(a.val) < WordSize
  <2>1. fs_mask(w) \subseteq 0..(WordBits - 1) /\ WordBits \in Nat
    BY MaskBits, WordBitsAssumption DEF Bits
  <2> QED
    BY <1>1, <2>1, NumBelow DEF WordSize
<1>4. /\ SignedNum(a.val, w) = fs_sign(a.val, w)
      /\ fs_sign(a.val, w) = IF w - 1 \in a.val THEN Num(a.val) - 2^w ELSE Num(a.val)
      /\ fs_sign(a.val, w) \in Int
  BY <1>1, SignIs
<1>5. 2^w <= WordSize /\ 2^w \in Nat
  <2>1. w \in Nat /\ WordBits - w \in Nat /\ w + (WordBits - w) = WordBits
    BY WordBitsAssumption
  <2>2. /\ 2^WordBits = 2^w * 2^(WordBits - w)
        /\ 2^w \in Nat /\ 2^(WordBits - w) \in Nat /\ 2^(WordBits - w) > 0
    <3>1. 2^(w + (WordBits - w)) = 2^w * 2^(WordBits - w)
      BY <2>1, TwoSum
    <3> QED
      BY <2>1, <3>1, TwoPositive
  <2> DEFINE c == 2^w  d == 2^(WordBits - w)
  <2>3. c \in Nat /\ d \in Nat /\ d > 0 /\ WordSize = c * d
    BY <2>2 DEF WordSize
  <2> HIDE DEF c, d
  <2>4. c * d >= c
    BY <2>3
  <2> QED
    BY <2>3, <2>4 DEF c
<1>6. Abs(fs_sign(a.val, w)) <= WordSize
  <2>1. WordSize \in Nat
    BY WordBitsAssumption, TwoPositive DEF WordSize
  <2>2. CASE w - 1 \in a.val
    BY <1>2, <1>4, <1>5, <2>1, <2>2 DEF Abs
  <2>3. CASE w - 1 \notin a.val
    BY <1>2, <1>3, <1>4, <2>1, <2>3 DEF Abs
  <2> QED
    BY <2>2, <2>3
<1> QED
  BY <1>1, <1>2, <1>3, <1>4, <1>6

\* A word whose number or signed number is zero is empty.
LEMMA ZeroIsEmpty ==
  ASSUME NEW w \in 1..WordBits, NEW b \in Fs(w)
  PROVE  /\ Num(b.val) = 0 <=> b.val = {}
         /\ fs_sign(b.val, w) = 0 <=> b.val = {}
<1>1. /\ b.val \in FiniteWords /\ Num(b.val) \in Nat /\ Num(b.val) < 2^w
      /\ fs_sign(b.val, w) = IF w - 1 \in b.val THEN Num(b.val) - 2^w ELSE Num(b.val)
  BY OperandNumbers
<1>2. Num(b.val) = 0 <=> b.val = {}
  BY <1>1, NumEmpty, NumInjective
<1>3. 2^w \in Nat
  BY TwoPositive
<1> QED
  BY <1>1, <1>2, <1>3

\* Digits of a number and of its remainder in a word.
LEMMA FitModulo ==
  ASSUME NEW n \in Nat, NEW w \in 1..WordBits
  PROVE  Fit(n % WordSize, w) = Fit(n, w)
<1>1. WordSize \in Nat /\ WordSize > 0 /\ WordBits \in Nat
  BY WordBitsAssumption, TwoPositive DEF WordSize
<1>2. PICK q \in Int, r \in Nat : n = WordSize * q + r /\ r = n % WordSize
  BY <1>1, n \in Int, DivisionBy
<1>3. ASSUME NEW i \in fs_mask(w) PROVE Digit(r, i) <=> Digit(n, i)
  <2>1. i \in Nat /\ i < WordBits
    BY WordBitsAssumption, MaskBits DEF Bits
  <2>2. Digit(r + 2^WordBits * q, i) <=> Digit(r, i)
    BY <1>1, <2>1, r \in Int, DigitModulo
  <2>3. n = r + 2^WordBits * q
    <3>1. WordSize * q \in Int
      BY <1>1
    <3> QED
      BY <1>2, <3>1 DEF WordSize
  <2> QED
    BY <2>2, <2>3
<1> QED
  BY <1>2, <1>3, FitDigits

\* An operation on numbers answers all x when an operand has an unknown bit.
LEMMA StrictUnknown ==
  ASSUME NEW op \in FsStrict, NEW w, NEW a, NEW b, a.xz \cup b.xz # {}
  PROVE  FsAnswer(op, a, b, w) = fs_allx(WidthOf(op, w))
<1>1. CASE op \in {"add", "sub", "mul", "div", "mod"}
  BY <1>1 DEF FsAnswer, WidthOf, Comparisons, Strict, fs_add, fs_sub, fs_mul, fs_div, fs_mod
<1>2. CASE op \in {"pow", "spow", "sdiv", "smod"}
  BY <1>2 DEF FsAnswer, WidthOf, Comparisons, Strict, fs_pow, fs_spow, fs_sdiv, fs_smod
<1>3. CASE op \in {"eq", "ne", "lt", "gt", "le", "ge"}
  BY <1>3 DEF FsAnswer, WidthOf, Comparisons, Compared, fs_eq, fs_ne, fs_lt, fs_gt, fs_le, fs_ge
<1>4. CASE op \in {"slt", "sle", "sgt", "sge"}
  BY <1>4 DEF FsAnswer, WidthOf, Comparisons, Compared, fs_slt, fs_sle, fs_sgt, fs_sge
<1> QED
  BY <1>1, <1>2, <1>3, <1>4 DEF FsStrict, Comparisons, Divisions

LEMMA ComparisonRight ==
  ASSUME NEW op \in Comparisons, NEW w \in 1..WordBits, NEW a \in Fs(w), NEW b \in Fs(w),
         a.xz = {}, b.xz = {}
  PROVE  \E p \in BOOLEAN : /\ FsAnswer(op, a, b, w) = Bool(p)
                            /\ NumberMeaning(op, a.val, b.val, w) = Truth(p)
<1>0. a.xz \cup b.xz = {}
  OBVIOUS
<1>1. CASE op \in {"eq", "ne"}
  <2>1. Num(a.val) = Num(b.val) <=> a.val = b.val
    BY OperandNumbers, NumInjective
  <2>2. CASE op = "eq"
    <3>1. FsAnswer(op, a, b, w) = Bool(a.val = b.val)
      BY <1>0, <2>2 DEF FsAnswer, fs_eq, Compared
    <3>2. NumberMeaning(op, a.val, b.val, w) = Truth(Num(a.val) = Num(b.val))
      BY <2>2 DEF NumberMeaning
    <3> QED
      BY <2>1, <3>1, <3>2 DEF Truth
  <2>3. CASE op = "ne"
    <3>1. FsAnswer(op, a, b, w) = Bool(a.val # b.val)
      BY <1>0, <2>3 DEF FsAnswer, fs_ne, Compared
    <3>2. NumberMeaning(op, a.val, b.val, w) = Truth(Num(a.val) # Num(b.val))
      BY <2>3 DEF NumberMeaning
    <3> QED
      BY <2>1, <3>1, <3>2 DEF Truth
  <2> QED
    BY <1>1, <2>2, <2>3
<1>2. CASE op \in {"lt", "gt", "le", "ge"}
  <2>1. CASE op = "lt"
    <3> DEFINE p == Num(a.val) < Num(b.val)
    <3>1. FsAnswer(op, a, b, w) = Bool(p)
      BY <1>0, <2>1 DEF FsAnswer, fs_lt, Compared
    <3>2. NumberMeaning(op, a.val, b.val, w) = Truth(p)
      BY <2>1 DEF NumberMeaning
    <3>3. p \in BOOLEAN
      OBVIOUS
    <3> HIDE DEF p
    <3> QED
      BY <3>1, <3>2, <3>3
  <2>2. CASE op = "gt"
    <3> DEFINE p == Num(a.val) > Num(b.val)
    <3>1. FsAnswer(op, a, b, w) = Bool(p)
      BY <1>0, <2>2 DEF FsAnswer, fs_gt, Compared
    <3>2. NumberMeaning(op, a.val, b.val, w) = Truth(p)
      BY <2>2 DEF NumberMeaning
    <3>3. p \in BOOLEAN
      OBVIOUS
    <3> HIDE DEF p
    <3> QED
      BY <3>1, <3>2, <3>3
  <2>3. CASE op = "le"
    <3> DEFINE p == Num(a.val) <= Num(b.val)
    <3>1. FsAnswer(op, a, b, w) = Bool(p)
      BY <1>0, <2>3 DEF FsAnswer, fs_le, Compared
    <3>2. NumberMeaning(op, a.val, b.val, w) = Truth(p)
      BY <2>3 DEF NumberMeaning
    <3>3. p \in BOOLEAN
      OBVIOUS
    <3> HIDE DEF p
    <3> QED
      BY <3>1, <3>2, <3>3
  <2>4. CASE op = "ge"
    <3> DEFINE p == Num(a.val) >= Num(b.val)
    <3>1. FsAnswer(op, a, b, w) = Bool(p)
      BY <1>0, <2>4 DEF FsAnswer, fs_ge, Compared
    <3>2. NumberMeaning(op, a.val, b.val, w) = Truth(p)
      BY <2>4 DEF NumberMeaning
    <3>3. p \in BOOLEAN
      OBVIOUS
    <3> HIDE DEF p
    <3> QED
      BY <3>1, <3>2, <3>3
  <2> QED
    BY <1>2, <2>1, <2>2, <2>3, <2>4
<1>3. CASE op \in {"slt", "sgt", "sle", "sge"}
  <2>5. SignedNum(a.val, w) = fs_sign(a.val, w) /\ SignedNum(b.val, w) = fs_sign(b.val, w)
    BY OperandNumbers
  <2>1. CASE op = "slt"
    <3> DEFINE p == fs_sign(a.val, w) < fs_sign(b.val, w)
    <3>1. FsAnswer(op, a, b, w) = Bool(p)
      BY <1>0, <2>1 DEF FsAnswer, fs_slt, Compared
    <3>2. NumberMeaning(op, a.val, b.val, w) = Truth(p)
      BY <2>5, <2>1 DEF NumberMeaning
    <3>3. p \in BOOLEAN
      OBVIOUS
    <3> HIDE DEF p
    <3> QED
      BY <3>1, <3>2, <3>3
  <2>2. CASE op = "sgt"
    <3> DEFINE p == fs_sign(a.val, w) > fs_sign(b.val, w)
    <3>1. FsAnswer(op, a, b, w) = Bool(p)
      BY <1>0, <2>2 DEF FsAnswer, fs_sgt, Compared
    <3>2. NumberMeaning(op, a.val, b.val, w) = Truth(p)
      BY <2>5, <2>2 DEF NumberMeaning
    <3>3. p \in BOOLEAN
      OBVIOUS
    <3> HIDE DEF p
    <3> QED
      BY <3>1, <3>2, <3>3
  <2>3. CASE op = "sle"
    <3> DEFINE p == fs_sign(a.val, w) <= fs_sign(b.val, w)
    <3>1. FsAnswer(op, a, b, w) = Bool(p)
      BY <1>0, <2>3 DEF FsAnswer, fs_sle, Compared
    <3>2. NumberMeaning(op, a.val, b.val, w) = Truth(p)
      BY <2>5, <2>3 DEF NumberMeaning
    <3>3. p \in BOOLEAN
      OBVIOUS
    <3> HIDE DEF p
    <3> QED
      BY <3>1, <3>2, <3>3
  <2>4. CASE op = "sge"
    <3> DEFINE p == fs_sign(a.val, w) >= fs_sign(b.val, w)
    <3>1. FsAnswer(op, a, b, w) = Bool(p)
      BY <1>0, <2>4 DEF FsAnswer, fs_sge, Compared
    <3>2. NumberMeaning(op, a.val, b.val, w) = Truth(p)
      BY <2>5, <2>4 DEF NumberMeaning
    <3>3. p \in BOOLEAN
      OBVIOUS
    <3> HIDE DEF p
    <3> QED
      BY <3>1, <3>2, <3>3
  <2> QED
    BY <1>3, <2>1, <2>2, <2>3, <2>4
<1> QED
  BY <1>1, <1>2, <1>3 DEF Comparisons

\* The other operations on numbers, when every bit is known and the divisor not zero.
LEMMA NumberRight ==
  ASSUME NEW op \in FsStrict \ Comparisons, NEW w \in 1..WordBits, NEW a \in Fs(w), NEW b
        \in Fs(w),
         a.xz = {}, b.xz = {}, op \in Divisions => b.val # {}
  PROVE  \E n : /\ FsAnswer(op, a, b, w) = fs_make(ToWord(n), {}, w)
                /\ NumberMeaning(op, a.val, b.val, w) = Fit(n, w)
<1>0. a.xz \cup b.xz = {}
  OBVIOUS
<1> DEFINE m == Num(a.val)  n == Num(b.val)  sm == fs_sign(a.val, w)  sn == fs_sign(b.val, w)
<1>m. /\ m \in Nat /\ m < WordSize /\ a.val \cap fs_mask(w) = a.val
      /\ SignedNum(a.val, w) = sm /\ sm \in Int /\ Abs(sm) <= WordSize
  BY OperandNumbers
<1>n. /\ n \in Nat /\ n < WordSize /\ b.val \cap fs_mask(w) = b.val
      /\ SignedNum(b.val, w) = sn /\ sn \in Int
      /\ sn = IF w - 1 \in b.val THEN n - 2^w ELSE n
  BY OperandNumbers
<1>1. CASE op \in {"add", "sub", "mul"}
  BY <1>0, <1>1 DEF FsAnswer, fs_add, fs_sub, fs_mul, Strict, NumberMeaning
<1>2. CASE op \in {"div", "mod"}
  BY <1>0, <1>2 DEF FsAnswer, fs_div, fs_mod, Strict, NumberMeaning, Divisions
<1>3. CASE op = "pow"
  <2>1. FsAnswer(op, a, b, w) = fs_make(ToWord(Power(m, n)), {}, w)
    BY <1>0, <1>3, <1>m, <1>n DEF FsAnswer, fs_pow, Strict
  <2>2. NumberMeaning(op, a.val, b.val, w) = Fit(Raised(m, n), w)
    BY <1>3 DEF NumberMeaning
  <2>3. Power(m, n) = Raised(m, n) % WordSize /\ Raised(m, n) \in Nat
    BY <1>m, <1>n, PowerRight, RaisedNat
  <2>4. Fit(Power(m, n), w) = Fit(Raised(m, n), w)
    BY <2>3, FitModulo
  <2> QED
    BY <2>1, <2>2, <2>4
<1>4. CASE op = "spow"
  <2>1. CASE sn < 0
    <3>1. FsAnswer(op, a, b, w) = fs_make({}, {}, w)
      BY <1>0, <1>4, <2>1 DEF FsAnswer, fs_spow
    <3>2. NumberMeaning(op, a.val, b.val, w) = {}
      BY <1>4, <1>n, <2>1 DEF NumberMeaning
    <3>3. Fit(0, w) = {} /\ fs_make(ToWord(0), {}, w) = fs_make({}, {}, w)
      <4>1. Fit(0, w) = {}
        BY NumEmpty, FitNum
      <4> QED
        BY <4>1 DEF Fit, fs_make
    <3> QED
      BY <3>1, <3>2, <3>3
  <2>2. CASE ~(sn < 0)
    <3>1. sn \in Nat /\ sn < WordSize
      <4>1. WordSize \in Nat /\ 2^w \in Nat
        BY WordBitsAssumption, TwoPositive DEF WordSize
      <4> QED
        BY <1>n, <2>2, <4>1
    <3>2. FsAnswer(op, a, b, w) = fs_make(ToWord(Power(m, sn)), {}, w)
      BY <1>0, <1>4, <1>m, <2>2 DEF FsAnswer, fs_spow
    <3>3. NumberMeaning(op, a.val, b.val, w) = Fit(Raised(m, sn), w)
      BY <1>4, <1>n, <2>2 DEF NumberMeaning
    <3>4. Power(m, sn) = Raised(m, sn) % WordSize /\ Raised(m, sn) \in Nat
      BY <1>m, <3>1, PowerRight, RaisedNat
    <3>5. Fit(Power(m, sn), w) = Fit(Raised(m, sn), w)
      BY <3>4, FitModulo
    <3> QED
      BY <3>2, <3>3, <3>5
  <2> QED
    BY <2>1, <2>2
<1>5. CASE op \in {"sdiv", "smod"}
  <2>1. sn # 0
    BY <1>5, ZeroIsEmpty DEF Divisions
  <2>2. Truncated(sm, sn) = Quotient(sm, sn)
    BY <1>m, <1>n, <2>1, TruncatedIs
  <2>3. CASE op = "sdiv"
    <3>1. FsAnswer(op, a, b, w) = fs_make(ToWord(Quotient(sm, sn)), {}, w)
      BY <1>0, <2>1, <2>3 DEF FsAnswer, fs_sdiv
    <3>2. NumberMeaning(op, a.val, b.val, w) = Fit(Truncated(sm, sn), w)
      BY <1>m, <1>n, <2>3 DEF NumberMeaning
    <3> QED
      BY <2>2, <3>1, <3>2
  <2>4. CASE op = "smod"
    <3>1. FsAnswer(op, a, b, w) = fs_make(ToWord(sm - sn * Quotient(sm, sn)), {}, w)
      BY <1>0, <2>1, <2>4 DEF FsAnswer, fs_smod
    <3>2. NumberMeaning(op, a.val, b.val, w) = Fit(sm - sn * Truncated(sm, sn), w)
      BY <1>m, <1>n, <2>4 DEF NumberMeaning
    <3> QED
      BY <2>2, <3>1, <3>2
  <2> QED
    BY <1>5, <2>3, <2>4
<1> QED
  BY <1>1, <1>2, <1>3, <1>4, <1>5 DEF FsStrict, Divisions

LEMMA StrictRight ==
  ASSUME NEW op \in FsStrict, NEW w \in 1..WordBits, NEW a \in Fs(w), NEW b \in Fs(w)
  PROVE  RightFor(FsAnswer(op, a, b, w), NumberMeanings(op, a, b, w))
<1> DEFINE M == NumberMeanings(op, a, b, w)
<1>0. op # "sext"
  BY DEF FsStrict, Comparisons, Divisions
<1>1. CASE a.xz \cup b.xz # {}
  <2>1. \A m \in M : m \subseteq fs_mask(WidthOf(op, w))
    BY NumbersMeant, MeaningFits
  <2> QED
    BY <1>1, <2>1, StrictUnknown, AllUnknownRight
<1>2. CASE a.xz \cup b.xz = {} /\ (op \in Divisions => b.val # {})
  <2>1. a.xz = {} /\ b.xz = {}
    BY <1>2
  <2>2. Completions(a) = {a.val} /\ Completions(b) = {b.val}
    BY <2>1, KnownWord
  <2>3. \A m \in M : m = NumberMeaning(op, a.val, b.val, w)
    BY <1>0, <2>2, NumbersMeant DEF Seconds
  <2>4. CASE op \in Comparisons
    <3>1. PICK p \in BOOLEAN : /\ FsAnswer(op, a, b, w) = Bool(p)
                               /\ NumberMeaning(op, a.val, b.val, w) = Truth(p)
      BY <2>1, <2>4, ComparisonRight
    <3> QED
      BY <2>3, <3>1, TruthRight
  <2>5. CASE op \notin Comparisons
    <3>1. PICK n : /\ FsAnswer(op, a, b, w) = fs_make(ToWord(n), {}, w)
                   /\ NumberMeaning(op, a.val, b.val, w) = Fit(n, w)
      BY <1>2, <2>1, <2>5, NumberRight
    <3> QED
      BY <2>3, <3>1, FittingRight
  <2> QED
    BY <2>4, <2>5
<1>3. CASE a.xz \cup b.xz = {} /\ op \in Divisions /\ b.val = {}
  <2>1. b.xz = {}
    BY <1>3
  <2>2. Completions(b) = {{}}
    BY <1>3, <2>1, KnownWord
  <2>3. M = {}
    BY <1>0, <1>3, <2>2, NumbersMeant DEF Seconds
  <2> QED
    BY <2>3 DEF RightFor
<1> QED
  BY <1>1, <1>2, <1>3

-----------------------------------------------------------------------------
(* Shifts and the extension of the sign: the bits that integers give.      *)

\* The numbers of a word as the first operand and of a word as a count.
LEMMA ShiftedNumbers ==
  ASSUME NEW w \in 1..WordBits, NEW x, x \subseteq fs_mask(w), NEW n \in Nat
  PROVE  /\ Fit(Num(x) * 2^n, w) = {i \in fs_mask(w) : i - n \in x}
         /\ Fit(Num(x) \div 2^n, w) = {i \in fs_mask(w) : n + i \in x}
         /\ Fit(SignedNum(x, w) \div 2^n, w)
              = {i \in fs_mask(w) : IF n + i < w THEN n + i \in x ELSE w - 1 \in x}
<1>1. /\ x \in FiniteWords /\ Num(x) \in Nat /\ Num(x) \in Int /\ SignedNum(x, w) \in Int
      /\ w \in Nat /\ fs_mask(w) = 0..(w - 1)
  BY MaskBits, SignIs
<1>2. Fit(Num(x) * 2^n, w) = {i \in fs_mask(w) : i - n \in x}
  <2>1. Raise(x, n) \in FiniteWords /\ Num(Raise(x, n)) = 2^n * Num(x)
    BY <1>1, NumRaise
  <2>2. 2^n * Num(x) = Num(x) * 2^n
    BY <1>1, TwoPositive
  <2>3. Fit(Num(x) * 2^n, w) = Raise(x, n) \cap fs_mask(w)
    BY <2>1, <2>2, FitNum
  <2> QED
    BY <1>1, <2>3 DEF Raise
<1>3. ASSUME NEW i \in fs_mask(w) PROVE Digit(Num(x) \div 2^n, i) <=> n + i \in x
  <2>1. i \in Nat /\ n + i \in Nat
    BY <1>1
  <2>2. Digit(Num(x) \div 2^n, i) <=> Digit(Num(x), n + i)
    BY <1>1, <2>1, DigitOfQuotient
  <2> QED
    BY <1>1, <2>1, <2>2, NumDigit
<1>4. ASSUME NEW i \in fs_mask(w)
      PROVE  Digit(SignedNum(x, w) \div 2^n, i) <=> IF n + i < w THEN n + i \in x ELSE w - 1 \in x
  <2>1. i \in Nat /\ n + i \in Nat
    BY <1>1
  <2>2. Digit(SignedNum(x, w) \div 2^n, i) <=> Digit(SignedNum(x, w), n + i)
    BY <1>1, <2>1, DigitOfQuotient
  <2> QED
    BY <2>1, <2>2, SignDigit
<1> QED
  BY <1>2, <1>3, <1>4, FitDigits

\* The width of a sign extension: at least that of its operand.
LEMMA TopWidth ==
  ASSUME NEW w \in 1..WordBits
  PROVE  Top(w) \in w..WordBits /\ Top(w) \in 1..WordBits /\ fs_mask(w) \subseteq fs_mask(Top(w))
BY WordBitsAssumption DEF Top, fs_mask, Bits

LEMMA ExtendedNumber ==
  ASSUME NEW w \in 1..WordBits, NEW x, x \subseteq fs_mask(w)
  PROVE  Fit(SignedNum(x, w), Top(w))
           = {i \in fs_mask(Top(w)) : IF i < w THEN i \in x ELSE w - 1 \in x}
<1>1. \A i \in fs_mask(Top(w)) : i \in Nat
  BY WordBitsAssumption DEF fs_mask, Bits
<1> QED
  BY <1>1, SignDigit, FitDigits

\* An answer is right bit by bit.
LEMMA BitsRight ==
  ASSUME NEW r, NEW M, NEW mask, r.val \subseteq mask, \A m \in M : m \subseteq mask,
         \A m \in M : \A i \in mask : i \notin r.xz => (i \in m <=> i \in r.val)
  PROVE  RightFor(r, M)
BY DEF RightFor

\* A shift to the left, by a known count.
LEMMA ShlRight ==
  ASSUME NEW w \in 1..WordBits, NEW a \in Fs(w), NEW b \in Fs(w), b.xz = {},
         NEW x \in Completions(a), NEW i \in fs_mask(w), i \notin fs_shl(a, b, w).xz
  PROVE  i \in Fit(Num(x) * 2^Num(b.val), w) <=> i \in fs_shl(a, b, w).val
<1> DEFINE n == Num(b.val)
<1>1. n \in Nat /\ w \in Nat /\ fs_mask(w) = 0..(w - 1) /\ fs_mask(w) \subseteq Bits
  BY OperandNumbers, MaskBits
<1>2. x \subseteq fs_mask(w) /\ \A j : j \notin a.xz => (j \in x <=> j \in a.val)
  BY WordCompletions
<1>3. i \in Fit(Num(x) * 2^n, w) <=> i - n \in x
  BY <1>1, <1>2, ShiftedNumbers
<1> HIDE DEF n
<1>4. CASE n >= w
  <2>1. fs_shl(a, b, w) = fs_make({}, {}, w)
    BY <1>4 DEF fs_shl, n
  <2>2. i - n \notin x
    BY <1>1, <1>2, <1>4
  <2> QED
    BY <1>3, <2>1, <2>2 DEF fs_make, n
<1>5. CASE ~(n >= w)
  <2>1. fs_shl(a, b, w) = fs_make(Left(a.val, n), Left(a.xz, n), w)
    BY <1>5 DEF fs_shl, n
  <2>2. i \in Bits
    BY <1>1
  <2>3. i - n \notin a.xz /\ (i \in fs_shl(a, b, w).val <=> i - n \in a.val)
    BY <2>1, <2>2 DEF fs_make, Left
  <2> QED
    BY <1>2, <1>3, <2>3 DEF n
<1> QED
  BY <1>4, <1>5

\* A shift to the right.
LEMMA ShrRight ==
  ASSUME NEW w \in 1..WordBits, NEW a \in Fs(w), NEW b \in Fs(w), b.xz = {},
         NEW x \in Completions(a), NEW i \in fs_mask(w), i \notin fs_shr(a, b, w).xz
  PROVE  i \in Fit(Num(x) \div 2^Num(b.val), w) <=> i \in fs_shr(a, b, w).val
<1> DEFINE n == Num(b.val)
<1>1. n \in Nat /\ w \in Nat /\ fs_mask(w) = 0..(w - 1) /\ fs_mask(w) \subseteq Bits
  BY OperandNumbers, MaskBits
<1>2. x \subseteq fs_mask(w) /\ \A j : j \notin a.xz => (j \in x <=> j \in a.val)
  BY WordCompletions
<1>3. i \in Fit(Num(x) \div 2^n, w) <=> i + n \in x
  <2>1. i \in Fit(Num(x) \div 2^n, w) <=> n + i \in x
    BY <1>1, <1>2, ShiftedNumbers
  <2>2. n + i = i + n
    BY <1>1
  <2> QED
    BY <2>1, <2>2
<1> HIDE DEF n
<1>4. CASE n >= w
  <2>1. fs_shr(a, b, w) = fs_make({}, {}, w)
    BY <1>4 DEF fs_shr, n
  <2>2. i + n \notin x
    BY <1>1, <1>2, <1>4
  <2> QED
    BY <1>3, <2>1, <2>2 DEF fs_make, n
<1>5. CASE ~(n >= w)
  <2>1. fs_shr(a, b, w) = fs_make(Right(a.val, n), Right(a.xz, n), w)
    BY <1>5 DEF fs_shr, n
  <2>2. i \in Bits
    BY <1>1
  <2>3. i + n \notin a.xz /\ (i \in fs_shr(a, b, w).val <=> i + n \in a.val)
    BY <2>1, <2>2 DEF fs_make, Right
  <2> QED
    BY <1>2, <1>3, <2>3 DEF n
<1> QED
  BY <1>4, <1>5

\* A shift to the right that keeps the sign, which is known.
LEMMA SarRight ==
  ASSUME NEW w \in 1..WordBits, NEW a \in Fs(w), NEW b \in Fs(w), b.xz = {}, w - 1 \notin a.xz,
         NEW x \in Completions(a), NEW i \in fs_mask(w), i \notin fs_sar(a, b, w).xz
  PROVE  i \in Fit(SignedNum(x, w) \div 2^Num(b.val), w) <=> i \in fs_sar(a, b, w).val
<1> DEFINE n == Num(b.val)
           sign == IF w - 1 \in a.val THEN fs_mask(w) ELSE {}
           fill == {j \in Bits : j >= w - n}
<1>1. n \in Nat /\ w \in Nat /\ fs_mask(w) = 0..(w - 1) /\ fs_mask(w) \subseteq Bits
  BY OperandNumbers, MaskBits
<1>2. x \subseteq fs_mask(w) /\ \A j : j \notin a.xz => (j \in x <=> j \in a.val)
  BY WordCompletions
<1>3. i \in Fit(SignedNum(x, w) \div 2^n, w) <=> IF i + n < w THEN i + n \in x
      ELSE w - 1 \in a.val
  <2>1. i \in Fit(SignedNum(x, w) \div 2^n, w) <=> IF n + i < w THEN n + i \in x ELSE w - 1 \in x
    BY <1>1, <1>2, ShiftedNumbers
  <2>2. n + i = i + n
    BY <1>1
  <2>3. w - 1 \in x <=> w - 1 \in a.val
    BY <1>2
  <2> QED
    BY <2>1, <2>2, <2>3
<1>4. i \in sign <=> w - 1 \in a.val
  OBVIOUS
<1>5. i \in fill <=> ~(i + n < w)
  BY <1>1
<1>6. a.val \subseteq fs_mask(w)
  BY Planes
<1> HIDE DEF n
<1>7. CASE n >= w
  <2>1. fs_sar(a, b, w) = fs_make(sign, {}, w)
    BY <1>7 DEF fs_sar, n
  <2>2. ~(i + n < w)
    BY <1>1, <1>7
  <2> QED
    BY <1>3, <1>4, <2>1, <2>2 DEF fs_make, n
<1>8. CASE ~(n >= w)
  <2>1. fs_sar(a, b, w) = fs_make(Right(a.val, n) \cup (sign \cap fill), Right(a.xz, n), w)
    BY <1>8 DEF fs_sar, n
  <2> HIDE DEF sign, fill
  <2>2. i \in Bits
    BY <1>1
  <2>3. /\ i + n \notin a.xz
        /\ i \in fs_sar(a, b, w).val <=> i + n \in a.val \/ (i \in sign /\ i \in fill)
    BY <2>1, <2>2 DEF fs_make, Right
  <2>4. ~(i + n < w) => i + n \notin a.val
    BY <1>1, <1>6
  <2> QED
    BY <1>2, <1>3, <1>4, <1>5, <2>3, <2>4 DEF n
<1> QED
  BY <1>7, <1>8

\* The extension of the sign: an unknown sign extends as unknown bits.
LEMMA SextRight ==
  ASSUME NEW w \in 1..WordBits, NEW a \in Fs(w), NEW x \in Completions(a),
         NEW i \in fs_mask(Top(w)), i \notin fs_sext(a, w, Top(w)).xz
  PROVE  i \in Fit(SignedNum(x, w), Top(w)) <=> i \in fs_sext(a, w, Top(w)).val
<1> DEFINE t == Top(w)  ext == fs_mask(t) \ fs_mask(w)
           Extended(v) == IF w - 1 \in v THEN v \cup ext ELSE v
<1>1. w \in Nat /\ w # 0 /\ t \in Nat /\ t >= w /\ fs_mask(w) = 0..(w - 1) /\ i \in Nat
      /\ fs_mask(w) \subseteq fs_mask(t)
  BY WordBitsAssumption, TopWidth, MaskBits
<1>2. x \subseteq fs_mask(w) /\ \A j : j \notin a.xz => (j \in x <=> j \in a.val)
  BY WordCompletions
<1>3. i \in Fit(SignedNum(x, w), t) <=> IF i < w THEN i \in x ELSE w - 1 \in x
  BY <1>2, ExtendedNumber
<1>4. a.val \subseteq fs_mask(w) /\ a.xz \subseteq fs_mask(w)
  BY Planes
<1>5. i < w <=> i \in fs_mask(w)
  BY <1>1
<1> HIDE DEF t
<1>6. CASE t <= w
  <2>1. fs_sext(a, w, t) = fs_make(a.val, a.xz, t)
    BY <1>1, <1>6 DEF fs_sext
  <2>2. t = w
    BY <1>1, <1>6
  <2>3. i \in fs_mask(w)
    BY <2>2 DEF t
  <2>4. i \notin a.xz /\ (i \in fs_sext(a, w, t).val <=> i \in a.val)
    BY <2>1, <2>2, <2>3 DEF fs_make, t
  <2> QED
    BY <1>2, <1>3, <1>5, <2>3, <2>4 DEF t
<1>7. CASE ~(t <= w)
  <2>1. fs_make(a.val, a.xz, w) = [val |-> a.val, xz |-> a.xz]
    BY <1>4 DEF fs_make
  <2>2. fs_sext(a, w, t) = fs_make(Extended(a.val), Extended(a.xz), t)
    BY <1>1, <1>7, <2>1 DEF fs_sext
  <2>3. i \in fs_mask(t)
    BY DEF t
  <2>4. i \notin Extended(a.xz) /\ (i \in fs_sext(a, w, t).val <=> i \in Extended(a.val))
    BY <2>2, <2>3 DEF fs_make, t
  <2>5. CASE i < w
    <3>1. i \notin ext
      BY <1>5, <2>5
    <3> QED
      BY <1>2, <1>3, <2>4, <2>5, <3>1 DEF t
  <2>6. CASE ~(i < w)
    <3>1. i \in ext /\ i \notin a.val
      BY <1>4, <1>5, <2>3, <2>6
    <3>2. w - 1 \notin a.xz
      BY <2>4, <3>1
    <3> QED
      BY <1>2, <1>3, <2>4, <2>6, <3>1, <3>2 DEF t
  <2> QED
    BY <2>5, <2>6
<1> QED
  BY <1>6, <1>7

LEMMA ShiftsExact ==
  ASSUME NEW op \in Shifts, NEW w \in 1..WordBits, NEW a \in Fs(w), NEW b \in Fs(w)
  PROVE  RightFor(FsAnswer(op, a, b, w), NumberMeanings(op, a, b, w))
<1> DEFINE M == NumberMeanings(op, a, b, w)  r == FsAnswer(op, a, b, w)
<1>0. op \in {"shl", "shr", "sar"} /\ op # "sext" /\ op \notin Divisions
  BY DEF Shifts, Divisions
<1>1. \A m \in M : m \subseteq fs_mask(w)
  <2>1. \A n : Fit(n, w) \subseteq fs_mask(w)
    BY DEF Fit
  <2>2. \A x, y : NumberMeaning(op, x, y, w) \subseteq fs_mask(w)
    BY <1>0, <2>1 DEF NumberMeaning
  <2> QED
    BY <2>2, NumbersMeant
<1>2. CASE b.xz # {} \/ (op = "sar" /\ w - 1 \in a.xz)
  <2>1. r = fs_allx(w)
    BY <1>0, <1>2 DEF FsAnswer, fs_shl, fs_shr, fs_sar
  <2> QED
    BY <1>1, <2>1, AllUnknownRight
<1>3. CASE b.xz = {} /\ ~(op = "sar" /\ w - 1 \in a.xz)
  <2>1. Completions(b) = {b.val}
    BY <1>3, KnownWord
  <2>2. \A m \in M : \E x \in Completions(a) : m = NumberMeaning(op, x, b.val, w)
    BY <1>0, <2>1, NumbersMeant DEF Seconds
  <2>3. r \in Fs(w)
    BY <1>0, VectorsFit
  <2>4. ASSUME NEW x \in Completions(a), NEW i \in fs_mask(w), i \notin r.xz
        PROVE  i \in NumberMeaning(op, x, b.val, w) <=> i \in r.val
    <3>1. CASE op = "shl"
      BY <1>3, <2>4, <3>1, ShlRight DEF FsAnswer, NumberMeaning
    <3>2. CASE op = "shr"
      BY <1>3, <2>4, <3>2, ShrRight DEF FsAnswer, NumberMeaning
    <3>3. CASE op = "sar"
      BY <1>3, <2>4, <3>3, SarRight DEF FsAnswer, NumberMeaning
    <3> QED
      BY <1>0, <3>1, <3>2, <3>3
  <2>5. r.val \subseteq fs_mask(w)
    BY <2>3, Planes
  <2> HIDE DEF r, M
  <2>6. \A m \in M : \A i \in fs_mask(w) : i \notin r.xz => (i \in m <=> i \in r.val)
    BY <2>2, <2>4
  <2>7. RightFor(r, M)
    BY <1>1, <2>5, <2>6, BitsRight
  <2> QED
    BY <2>7 DEF r, M
<1> QED
  BY <1>2, <1>3

LEMMA ExtensionRight ==
  ASSUME NEW op, op = "sext", NEW w \in 1..WordBits, NEW a \in Fs(w), NEW b
  PROVE  RightFor(FsAnswer(op, a, b, w), NumberMeanings(op, a, b, w))
<1> DEFINE M == NumberMeanings(op, a, b, w)  r == FsAnswer(op, a, b, w)
<1>1. r = fs_sext(a, w, Top(w))
  BY DEF FsAnswer
<1>2. \A m \in M : \E x \in Completions(a) : m = Fit(SignedNum(x, w), Top(w))
  BY NumbersMeant DEF NumberMeaning
<1>3. \A m \in M : m \subseteq fs_mask(Top(w))
  BY <1>2 DEF Fit
<1>4. r.val \subseteq fs_mask(Top(w))
  BY <1>1 DEF fs_sext, fs_make
<1> HIDE DEF r, M
<1>5. \A m \in M : \A i \in fs_mask(Top(w)) : i \notin r.xz => (i \in m <=> i \in r.val)
  BY <1>1, <1>2, SextRight
<1>6. RightFor(r, M)
  BY <1>3, <1>4, <1>5, BitsRight
<1> QED
  BY <1>6 DEF r, M

-----------------------------------------------------------------------------
(* Unknown answers.                                                        *)

LEMMA UnknownNeeded ==
  ASSUME NEW op \in NumberOps, NEW w \in 1..WordBits, NEW a \in Fs(w), NEW b \in Fs(w),
         FsAnswer(op, a, b, w).xz # {}
  PROVE  \/ a.xz # {}
         \/ op # "sext" /\ b.xz # {}
         \/ op \in Divisions /\ b.val = {}
<1> SUFFICES ASSUME a.xz = {}, op # "sext" => b.xz = {}, op \in Divisions => b.val # {}
             PROVE  FsAnswer(op, a, b, w).xz = {}
  OBVIOUS
<1>0. \A v, W : fs_make(v, {}, W).xz = {}
  BY DEF fs_make
<1>1. CASE op \in Comparisons
  <2>1. PICK p \in BOOLEAN : FsAnswer(op, a, b, w) = Bool(p)
    BY <1>1, ComparisonRight DEF Comparisons
  <2> QED
    BY <2>1 DEF Bool
<1>2. CASE op \in FsStrict \ Comparisons
  <2>1. b.xz = {}
    BY <1>2 DEF FsStrict, Divisions
  <2>2. PICK n : FsAnswer(op, a, b, w) = fs_make(ToWord(n), {}, w)
    BY <1>2, <2>1, NumberRight
  <2> QED
    BY <1>0, <2>2
<1>3. CASE op \in Shifts
  <2>1. b.xz = {}
    BY <1>3 DEF Shifts
  <2>2. \A n : Left({}, n) = {} /\ Right({}, n) = {}
    BY DEF Left, Right
  <2> QED
    BY <1>0, <1>3, <2>1, <2>2 DEF Shifts, FsAnswer, fs_shl, fs_shr, fs_sar
<1>4. CASE op = "sext"
  BY <1>4 DEF FsAnswer, fs_sext, fs_make
<1> QED
  BY <1>1, <1>2, <1>3, <1>4 DEF NumberOps, Shifts

-----------------------------------------------------------------------------
(* The operators on numbers.                                               *)

\* On words of any size and operands of any width, every arithmetic operator,
\* comparison, shift and sign extension gives the bits of the integer result, for all
\* values of the unknown bits, and an unknown bit only when an operand has one or a
\* divisor is zero (gpga_4state.h).
THEOREM NumberOperatorsAreExact == FsSpec => []NumbersExact
<1>1. CallInv => NumbersExact
  <2> SUFFICES ASSUME CallInv, answer # <<>>, call.op \in NumberOps PROVE NumbersExact
    BY DEF NumbersExact, AnswerOf
  <2>1. PICK w \in FsWidths : call \in Calls(w)
    BY DEF CallInv
  <2>2. /\ call.width = w /\ w \in 1..WordBits
        /\ call.a \in Fs(w) /\ call.b \in Fs(w)
    BY <2>1, Operands
  <2>3. Result = FsAnswer(call.op, call.a, call.b, w)
    BY <2>2 DEF CallInv, Result
  <2>4. Result \in Fs(WidthOf(call.op, w))
    <3>1. call.op \in FsOps \ FsMatches
      BY DEF FsOps, FsMatches, NumberOps, FsStrict, Comparisons, Divisions
    <3> QED
      BY <2>3, <3>1, AnswersFit
  <2>5. RightFor(Result, NumberMeanings(call.op, call.a, call.b, w))
    <3>1. call.op \in FsStrict \/ call.op \in Shifts \/ call.op = "sext"
      BY DEF NumberOps, Shifts
    <3> QED
      BY <2>2, <2>3, <3>1, StrictRight, ShiftsExact, ExtensionRight
  <2>6. Result.xz # {} => \/ call.a.xz # {}
                          \/ call.op # "sext" /\ call.b.xz # {}
                          \/ call.op \in Divisions /\ call.b.val = {}
    BY <2>2, <2>3, UnknownNeeded
  <2> QED
    BY <2>2, <2>4, <2>5, <2>6 DEF NumbersExact
<1> QED
  BY <1>1, CallInvHolds, PTL
=============================================================================
