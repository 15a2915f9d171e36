------------------------------ MODULE Netlist ------------------------------
(***************************************************************************)
(* The flat module the elaboration leaves (nets and continuous assigns)    *)
(* and the net update the generator emits for it: the order of the         *)
(* assigns, the drivers of a net and their resolution.                     *)
(*                                                                         *)
(* A name is a sequence of segments: the source's `u__i` is <<"u", "i">>,  *)
(* and a prefix that ends in `__` is a prefix of the sequence.  A value is *)
(* a sequence of bits, lowest first.  The bits of an expression are "0",   *)
(* "1", "x" (unknown) and "z" (unknown and not driven: the third word the  *)
(* generator carries); a net stores no "z".                                *)
(***************************************************************************)
EXTENDS Integers, Sequences, SequencesExt, FiniteSetsExt

CONSTANT UnsizedWidth          \* the width of an unsized number and of an unknown name

ASSUME UnsizedWidthIsPositive == UnsizedWidth \in Nat \ {0}

Id(n)         == [op |-> "id", name |-> n]
Sel(e, h, l)  == [op |-> "sel", base |-> e, hi |-> h, lo |-> l]
Cat(parts)    == [op |-> "cat", parts |-> parts]           \* highest part first
Lit(bits)     == [op |-> "lit", bits |-> bits]
Num(k)        == [op |-> "num", n |-> k]
Not(e)        == [op |-> "not", arg |-> e]
Cond(c, e, f) == [op |-> "cond", if |-> c, then |-> e, else |-> f]

Larger(i, j) == IF i > j THEN i ELSE j

RECURSIVE Names(_)
Names(e) ==
    CASE e.op = "id"   -> {e.name}
      [] e.op = "sel"  -> Names(e.base)
      [] e.op = "cat"  -> UNION {Names(e.parts[i]) : i \in DOMAIN e.parts}
      [] e.op = "not"  -> Names(e.arg)
      [] e.op = "cond" -> Names(e.if) \cup Names(e.then) \cup Names(e.else)
      [] OTHER         -> {}

SignalWidth(nets, n) == IF n \in DOMAIN nets THEN nets[n].width ELSE UnsizedWidth

RECURSIVE ExprWidth(_, _)
ExprWidth(nets, e) ==
    CASE e.op = "id"   -> SignalWidth(nets, e.name)
      [] e.op = "sel"  -> e.hi - e.lo + 1
      [] e.op = "cat"  -> FoldLeft(LAMBDA sum, part : sum + ExprWidth(nets, part), 0, e.parts)
      [] e.op = "lit"  -> Len(e.bits)
      [] e.op = "num"  -> UnsizedWidth
      [] e.op = "not"  -> ExprWidth(nets, e.arg)
      [] e.op = "cond" -> Larger(ExprWidth(nets, e.then), ExprWidth(nets, e.else))

-----------------------------------------------------------------------------
(* The value of an expression.                                             *)

RECURSIVE BitsOf(_, _)
BitsOf(k, width) ==
    IF width = 0 THEN <<>>
    ELSE <<IF k % 2 = 1 THEN "1" ELSE "0">> \o BitsOf(k \div 2, width - 1)

Extended(v, width) == [i \in 1 .. width |-> IF i <= Len(v) THEN v[i] ELSE "0"]

Inverted(b) == CASE b = "0" -> "1" [] b = "1" -> "0" [] OTHER -> "x"

Merged(v, u) == [i \in DOMAIN v |-> IF v[i] = u[i] THEN v[i] ELSE "x"]

\* An operand keeps its own width; only the result is extended to the target.
RECURSIVE Value(_, _)
Value(e, net) ==
    CASE e.op = "id"   -> net[e.name]
      [] e.op = "sel"  -> LET v == Value(e.base, net)
                          IN [i \in 1 .. e.hi - e.lo + 1 |->
                                 IF e.lo + i <= Len(v) THEN v[e.lo + i] ELSE "0"]
      [] e.op = "cat"  -> FoldLeft(LAMBDA low, part : Value(part, net) \o low, <<>>, e.parts)
      [] e.op = "lit"  -> e.bits
      [] e.op = "num"  -> BitsOf(e.n, UnsizedWidth)
      [] e.op = "not"  -> LET v == Value(e.arg, net) IN [i \in DOMAIN v |-> Inverted(v[i])]
      [] e.op = "cond" ->
            LET c == Value(e.if, net)
                t == Value(e.then, net)
                f == Value(e.else, net)
                w == Larger(Len(t), Len(f))
            IN  IF \E i \in DOMAIN c : c[i] \in {"x", "z"}
                THEN Merged(Extended(t, w), Extended(f, w))
                ELSE Extended(IF \E i \in DOMAIN c : c[i] = "1" THEN t ELSE f, w)

-----------------------------------------------------------------------------
(* Continuous assigns: [lhs, range, rhs, s0, s1]; range is <<>> or         *)
(* <<hi, lo>>, s0 and s1 the ranks of the strengths, 0 (highz) to 4.       *)

Low(range)  == IF range[1] < range[2] THEN range[1] ELSE range[2]
High(range) == Larger(range[1], range[2])

DriversOf(m, n) == {i \in DOMAIN m.assigns : m.assigns[i].lhs = n}
MultiDriven(m, n) == Cardinality(DriversOf(m, n)) > 1
\* A lone assign to a part of a net is emitted after all the others.
Late(m, i) == m.assigns[i].range # <<>> /\ ~MultiDriven(m, m.assigns[i].lhs)
LatePartials(m) == {i \in DOMAIN m.assigns : Late(m, i)}

DependsOn(m, i) == LET names == Names(m.assigns[i].rhs) \ {m.assigns[i].lhs}
                   IN {j \in DOMAIN m.assigns : m.assigns[j].lhs \in names}

RECURSIVE OrderFrom(_, _)
OrderFrom(m, ordered) ==
    LET rest  == DOMAIN m.assigns \ ToSet(ordered)
        ready == {i \in rest : DependsOn(m, i) \subseteq ToSet(ordered)}
    IN  IF ready = {} THEN ordered \o SetToSortSeq(rest, <)     \* done, or a cycle
        ELSE OrderFrom(m, Append(ordered, Min(ready)))
OrderAssigns(m) == OrderFrom(m, <<>>)

\* What assign a puts on its net: nothing outside its range.
Driver(m, a, net) ==
    LET width == SignalWidth(m.nets, a.lhs)
    IN  IF a.range = <<>> THEN Extended(Value(a.rhs, net), width)
        ELSE LET part == Extended(Value(a.rhs, net), High(a.range) - Low(a.range) + 1)
             IN [i \in 1 .. width |-> IF i - 1 \in Low(a.range) .. High(a.range)
                                      THEN part[i - Low(a.range)] ELSE "z"]

Strongest(ranks) == Max({0} \cup ranks)

\* Drivers of one bit: a set of [bit, s0, s1].
ResolvedBit(type, drivers) ==
    LET driven == {d.bit : d \in drivers} \ {"z"}
        best0  == Strongest({d.s0 : d \in {e \in drivers : e.bit = "0"}})
        best1  == Strongest({d.s1 : d \in {e \in drivers : e.bit = "1"}})
        bestx  == Strongest({Larger(d.s0, d.s1) : d \in {e \in drivers : e.bit = "x"}})
        dominant == IF type = "wand" THEN "0" ELSE "1"
    IN  IF type \in {"wand", "wor"}
        THEN CASE driven = {}          -> "x"
               [] dominant \in driven  -> dominant
               [] "x" \in driven       -> "x"
               [] OTHER                -> Inverted(dominant)
        ELSE CASE bestx >= Larger(best0, best1) -> "x"
               [] best0 > best1                 -> "0"
               [] best1 > best0                 -> "1"
               [] OTHER                         -> "x"

Resolved(m, n, out) ==
    [i \in 1 .. SignalWidth(m.nets, n) |->
        ResolvedBit(m.nets[n].type,
                    {[bit |-> out[j][i], s0 |-> m.assigns[j].s0, s1 |-> m.assigns[j].s1] :
                        j \in DriversOf(m, n)})]

Stored(v) == FoldLeft(LAMBDA w, b : Append(w, IF b = "z" THEN "x" ELSE b), <<>>, v)

\* One emitted assign; `out` holds the drivers of the nets not resolved yet.
Emitted(m, u, i) ==
    LET a   == m.assigns[i]
        out == [u.out EXCEPT ![i] = Driver(m, a, u.net)]
        store(v) == [u.net EXCEPT ![a.lhs] = Stored(v)]
    IN  CASE Late(m, i) -> u
          [] ~MultiDriven(m, a.lhs) ->
                [u EXCEPT !.net = store(Extended(Value(a.rhs, @), Len(@[a.lhs])))]
          [] \E j \in DriversOf(m, a.lhs) \ {i} : out[j] = <<>> -> [u EXCEPT !.out = out]
          [] OTHER -> [net |-> store(Resolved(m, a.lhs, out)), out |-> out]

\* The bits a lone partial assign does not name become 0.
EmittedPartial(m, net, i) ==
    LET v == Driver(m, m.assigns[i], net)
        inRange(k) == k - 1 \in Low(m.assigns[i].range) .. High(m.assigns[i].range)
    IN  [net EXCEPT ![m.assigns[i].lhs] =
            [k \in DOMAIN @ |-> IF inRange(k) THEN Stored(v)[k] ELSE "0"]]

\* The nets after one update; `order` is that of OrderAssigns, `late` that of the lone
\* partial assigns (a hash table's).
NetUpdate(m, order, net, late) ==
    LET start == [net |-> net, out |-> [i \in DOMAIN m.assigns |-> <<>>]]
        u == FoldLeft(LAMBDA v, i : Emitted(m, v, i), start, order)
    IN  FoldLeft(LAMBDA n, i : EmittedPartial(m, n, i), u.net, late)
=============================================================================
