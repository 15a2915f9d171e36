----------------------------- MODULE Hierarchy -----------------------------
(***************************************************************************)
(* What a program means, without flattening it: the scopes its instances   *)
(* open, the nets of each scope, the drivers of every bit and the values   *)
(* the nets settle to.  This is the reference for Elaboration and Netlist: *)
(* it is written from the language the program is in, scope by scope and   *)
(* bit by bit, and takes only the syntax from them.                        *)
(***************************************************************************)
EXTENDS Elaboration

Numbers(i, j) == IF i <= j THEN [k \in 1 .. j - i + 1 |-> i + k - 1]
                 ELSE [k \in 1 .. i - j + 1 |-> i - k + 1]

RangeSize(w) == Cardinality(ElementsOf(Numbers(w - 1, 0)))

\* The steps an instance adds to a path, left to right in its range.
StepsOf(inst, env) ==
    IF inst.array = <<>> THEN <<[name |-> inst.name, index |-> <<>>]>>
    ELSE LET is == Numbers(ConstValue(inst.array[1], env), ConstValue(inst.array[2], env))
         IN  [k \in DOMAIN is |-> [name |-> inst.name, index |-> <<is[k]>>]]

\* A parameter has the value of the last defparam that names it, else that of its
\* override, else its default.
ParamsOf(m, inst, outer, targeted) ==
    LET given(p) == {k \in DOMAIN targeted : targeted[k].param = p.name}
        over(p)  == OverrideOf(m, inst.overrides, p)
    IN  FoldLeft(LAMBDA env, p :
                     p.name :> (CASE given(p) # {}   -> targeted[Max(given(p))].value
                                  [] over(p) # <<>>  -> ConstValue(over(p)[1], outer)
                                  [] OTHER           -> ConstValue(p.value, env)) @@ env,
                 <<>>, m.params)

\* Instance `inst` of a scope may be opened; `defs` are the defparams in its sight.
WellFormedInstance(prog, inst, env, defs) ==
    LET m == FindModule(prog, inst.of)
        aimed == {d \in ElementsOf(defs) : Len(d.path) = 1 /\ d.path[1].name = inst.name}
        open == {p.name : p \in {q \in ElementsOf(m.params) : ~q.local}}
    IN  /\ HasModule(prog, inst.of)
        /\ ~OverridesRefused(m, inst.overrides)
        /\ \A o \in ElementsOf(inst.overrides) : Evaluable(o.value, env)
        /\ \A d \in aimed : d.param \in open /\ Positional(inst.overrides) = <<>>
        /\ ~ConnectionsRefused(m, inst.conns)
        /\ \A k \in DOMAIN inst.conns :
              PortOf(m, inst.conns, k)[1].dir = "output" /\ inst.conns[k].expr # <<>>
              => \A t \in ElementsOf(Targets(inst.conns[k].expr[1])) : IsTarget(t)

\* A scope: [path, mod, env, defs, above, inst, slot, count, ok].
WellFormed(prog, m, env, defs, above) ==
    /\ m.name \notin {s.mod.name : s \in above}
    /\ \A i \in ElementsOf(m.insts) : WellFormedInstance(prog, i, env, defs)
    /\ \A d \in ElementsOf(defs) :
          /\ d.path # <<>>
          /\ \E i \in ElementsOf(m.insts) : d.path[1] \in ElementsOf(StepsOf(i, env))

OwnDefs(m, env) == [k \in DOMAIN m.defparams |->
                       [m.defparams[k] EXCEPT !.value = ConstValue(@, env)]]

Opened(prog, scope, inst, step) ==
    LET m == FindModule(prog, inst.of)
        steps == StepsOf(inst, scope.env)
        below == SelectSeq(scope.defs, LAMBDA d : d.path[1] = step)
        inside == [k \in DOMAIN below |-> [below[k] EXCEPT !.path = Tail(@)]]
        env == ParamsOf(m, inst, scope.env, SelectSeq(inside, LAMBDA d : d.path = <<>>))
        defs == OwnDefs(m, env) \o SelectSeq(inside, LAMBDA d : d.path # <<>>)
        above == scope.above \cup {[path |-> scope.path, mod |-> scope.mod]}
    IN  [path |-> Append(scope.path, step), mod |-> m, env |-> env, defs |-> defs,
         above |-> above, inst |-> inst, slot |-> CHOOSE k \in DOMAIN steps : steps[k] = step,
         count |-> Len(steps), ok |-> WellFormed(prog, m, env, defs, above)]

RECURSIVE ScopesFrom(_, _)
ScopesFrom(prog, scope) ==
    {scope} \cup
    (IF ~scope.ok THEN {}
     ELSE UNION {UNION {ScopesFrom(prog, Opened(prog, scope, i, st)) :
                            st \in ElementsOf(StepsOf(i, scope.env))} :
                     i \in ElementsOf(scope.mod.insts)})

\* A test with an initial block comes before one without it, and so on.
TopRank(m) == (IF m.initial THEN 0 ELSE 2) + (IF m.test THEN 0 ELSE 1)
Uninstantiated(prog) == {k \in DOMAIN prog :
                            ~\E m \in ElementsOf(prog) : \E i \in ElementsOf(m.insts) :
                                i.of = prog[k].name}
TopOf(prog) == prog[CHOOSE k \in Uninstantiated(prog) : \A j \in Uninstantiated(prog) :
                        \/ TopRank(prog[k]) < TopRank(prog[j])
                        \/ TopRank(prog[k]) = TopRank(prog[j]) /\ k <= j]

TopScope(prog) ==
    LET m == TopOf(prog)
        env == ParamsOf(m, [overrides |-> <<>>], <<>>, <<>>)
    IN  [path |-> <<>>, mod |-> m, env |-> env, defs |-> OwnDefs(m, env), above |-> {},
         inst |-> <<>>, slot |-> 1, count |-> 1,
         ok |-> WellFormed(prog, m, env, OwnDefs(m, env), {})]

-----------------------------------------------------------------------------
(* Nets and drivers.  A net is <<path, name>>.                             *)

NetsIn(scope) == LET m == scope.mod
                 IN  {d.name : d \in ElementsOf(m.ports)} \cup {d.name : d \in ElementsOf(m.nets)}

WidthIn(scope, n) ==
    LET d == CHOOSE x \in ElementsOf(scope.mod.ports) \cup ElementsOf(scope.mod.nets) : x.name = n
    IN  RangeSize(ConstValue(d.width, scope.env))

TypeIn(scope, n) == IF \E d \in ElementsOf(scope.mod.nets) : d.name = n
                    THEN (CHOOSE d \in ElementsOf(scope.mod.nets) : d.name = n).type ELSE "wire"

NetsOf(scopes) == [net \in UNION {{<<s.path, n>> : n \in NetsIn(s)} : s \in scopes} |->
                      LET s == CHOOSE t \in scopes : t.path = net[1]
                      IN  [width |-> WidthIn(s, net[2]), type |-> TypeIn(s, net[2])]]

\* The name the flat module has for a net.
FlatName(net) ==
    FlattenSeq([k \in DOMAIN net[1] |-> net[1][k].name \o
                   (IF net[1][k].index = <<>> THEN <<>> ELSE <<ToString(net[1][k].index[1])>>)])
    \o net[2]

\* Expressions inside a scope; the bounds of a select are constants of the scope.
RECURSIVE WidthOf(_, _)
WidthOf(e, scope) ==
    CASE e.op = "id"   -> WidthIn(scope, e.name)
      [] e.op = "sel"  -> ConstValue(e.hi, scope.env) - ConstValue(e.lo, scope.env) + 1
      [] e.op = "cat"  -> FoldLeft(LAMBDA sum, p : sum + WidthOf(p, scope), 0, e.parts)
      [] e.op = "lit"  -> Len(e.bits)
      [] e.op = "not"  -> WidthOf(e.arg, scope)
      [] e.op = "cond" -> Larger(WidthOf(e.then, scope), WidthOf(e.else, scope))
      [] OTHER         -> UnsizedWidth

\* The part of a concatenation bit k lies in, and its place there.
PartAt(e, k, scope) ==
    LET above(i) == WidthOf(Cat(SubSeq(e.parts, i + 1, Len(e.parts))), scope)
        i == CHOOSE j \in DOMAIN e.parts : above(j) <= k /\ k < above(j) + WidthOf(e.parts[j], scope)
    IN  <<e.parts[i], k - above(i)>>

\* The net and bit that bit k of a target stands for.
RECURSIVE TargetBit(_, _, _)
TargetBit(e, k, scope) ==
    CASE e.op = "id"  -> <<<<scope.path, e.name>>, k>>
      [] e.op = "sel" -> <<<<scope.path, e.base.name>>, ConstValue(e.lo, scope.env) + k>>
      [] e.op = "cat" -> LET p == PartAt(e, k, scope) IN TargetBit(p[1], p[2], scope)

\* Bit k of an expression as a term over the bits of the nets; operands are as wide as
\* their context.
RECURSIVE BitOf(_, _, _)
BitOf(e, k, scope) ==
    CASE e.op = "id"   -> IF k < WidthIn(scope, e.name)
                          THEN [op |-> "bit", net |-> <<scope.path, e.name>>, k |-> k]
                          ELSE [op |-> "is", bit |-> "0"]
      [] e.op = "sel"  -> BitOf(e.base, ConstValue(e.lo, scope.env) + k, scope)
      [] e.op = "cat"  -> LET p == PartAt(e, k, scope) IN BitOf(p[1], p[2], scope)
      [] e.op = "lit"  -> [op |-> "is", bit |-> IF k < Len(e.bits) THEN e.bits[k + 1] ELSE "0"]
      [] e.op = "not"  -> [op |-> "not", arg |-> BitOf(e.arg, k, scope)]
      [] e.op = "cond" -> [op |-> "cond",
                           if |-> {BitOf(e.if, j, scope) : j \in 0 .. WidthOf(e.if, scope) - 1},
                           then |-> BitOf(e.then, k, scope), else |-> BitOf(e.else, k, scope)]
      [] OTHER         -> [op |-> "is", bit |-> BitsOf(ConstValue(e, scope.env), UnsizedWidth)[k + 1]]

\* A driver: bit `at` of expr in a scope drives bit `bit` of net `to`.
Drives(to, bit, expr, scope, at, s0, s1) ==
    [to |-> to, bit |-> bit, term |-> BitOf(expr, at, scope), s0 |-> s0, s1 |-> s1]

AssignDrivers(s) ==
    UNION {LET net == <<s.path, a.lhs>>
               range == IF a.range = <<>> THEN <<WidthIn(s, a.lhs) - 1, 0>> ELSE a.range
               lo == Min(ElementsOf(range))
           IN  {Drives(net, k, a.rhs, s, k - lo, a.s0, a.s1) : k \in lo .. Max(ElementsOf(range))} :
               a \in ElementsOf(s.mod.assigns)}

ConnectionOf(s, p) == LET ks == {k \in DOMAIN s.inst.conns :
                                    /\ PortOf(s.mod, s.inst.conns, k)[1] = p
                                    /\ s.inst.conns[k].expr # <<>>}
                      IN  IF ks = {} THEN <<>> ELSE s.inst.conns[Min(ks)].expr

\* An array shares out a connection as wide as all its elements, leftmost highest; any
\* other connection is an assignment, the narrower side padded or cut.
PortDrivers(s, outer, p) ==
    LET bits == 0 .. WidthIn(s, p.name) - 1
        conn == ConnectionOf(s, p)
        shared == s.count > 1 /\ WidthOf(conn[1], outer) = s.count * WidthIn(s, p.name)
        sinks == IF shared THEN bits ELSE 0 .. WidthOf(conn[1], outer) - 1
        from == IF shared THEN (s.count - s.slot) * WidthIn(s, p.name) ELSE 0
        net  == <<s.path, p.name>>
        pull == outer.mod.pull
    IN  IF conn # <<>>
        THEN IF p.dir = "input"
             THEN {Drives(net, k, conn[1], outer, from + k, 3, 3) : k \in bits}
             ELSE {LET t == TargetBit(conn[1], from + k, outer)
                   IN  Drives(t[1], t[2], Id(p.name), s, k, 3, 3) : k \in sinks}
        ELSE IF p.dir = "input" /\ pull # "none"
             THEN {Drives(net, k, Lit(<<IF pull = "pull1" THEN "1" ELSE "0">>), s, 0, 2, 2) : k \in bits}
             ELSE {}

DriversIn(scopes) ==
    UNION {AssignDrivers(s) \cup
           (IF s.path = <<>> THEN {}
            ELSE LET outer == CHOOSE t \in scopes : t.path = Front(s.path)
                 IN  UNION {PortDrivers(s, outer, p) : p \in ElementsOf(s.mod.ports)}) : s \in scopes}

-----------------------------------------------------------------------------
(* Values.                                                                 *)

RECURSIVE BitNow(_, _)
BitNow(term, vals) ==
    CASE term.op = "is"   -> term.bit
      [] term.op = "bit"  -> vals[term.net][term.k + 1]
      [] term.op = "not"  -> Inverted(BitNow(term.arg, vals))
      [] term.op = "cond" ->
            LET c == {BitNow(t, vals) : t \in term.if}
                t == BitNow(term.then, vals)
                f == BitNow(term.else, vals)
            IN  IF c \cap {"x", "z"} # {} THEN IF t = f THEN t ELSE "x"
                ELSE IF "1" \in c THEN t ELSE f

\* What definite drivers settle to; a bit nobody drives is "z".
Settled(type, drivers) ==
    LET s(b) == Max({0} \cup {IF b = "0" THEN d.s0 ELSE d.s1 : d \in {e \in drivers : e.bit = b}})
    IN  CASE s("0") = 0 /\ s("1") = 0        -> "z"
          [] type = "wand" /\ s("0") > 0     -> "0"
          [] type = "wor" /\ s("1") > 0      -> "1"
          [] s("0") > s("1")                 -> "0"
          [] s("1") > s("0")                 -> "1"
          [] OTHER                           -> "x"

\* An unknown driver may be either: the bit is known when that makes no difference.
SettledBit(type, drivers) ==
    LET unknown == {d \in drivers : d.bit = "x"}
        known   == {d \in drivers : d.bit \in {"0", "1"}}
        outcomes == {Settled(type, known \cup {[d EXCEPT !.bit = c[d]] : d \in unknown}) :
                        c \in [unknown -> {"0", "1"}]}
    IN  IF Cardinality(outcomes) = 1 THEN CHOOSE b \in outcomes : TRUE ELSE "x"

\* The tree of a program, computed once.
Meaning(prog) ==
    IF Uninstantiated(prog) = {} THEN [scopes |-> {}, nets |-> <<>>, drivers |-> <<>>]
    ELSE LET scopes == ScopesFrom(prog, TopScope(prog))
             nets == NetsOf(scopes)
             all == DriversIn(scopes)
         IN  IF \E s \in scopes : ~s.ok THEN [scopes |-> scopes, nets |-> <<>>, drivers |-> <<>>]
             ELSE [scopes |-> scopes, nets |-> nets,
                   drivers |-> [n \in DOMAIN nets |->
                                   [k \in 1 .. nets[n].width |->
                                       {[term |-> d.term, s0 |-> d.s0, s1 |-> d.s1] :
                                            d \in {e \in all : e.to = n /\ e.bit = k - 1}}]]]

Written(tree) == UNION {{<<s.path, n>> : n \in s.mod.writes} : s \in tree.scopes}

\* Every path is a scope, every name a net of its own, and no process writes a net that
\* something drives.
Legal(tree) ==
    /\ tree.scopes # {}
    /\ \A s \in tree.scopes : s.ok
    /\ \A n, o \in DOMAIN tree.nets : n # o => FlatName(n) # FlatName(o)
    /\ \A n \in Written(tree) : \A k \in DOMAIN tree.drivers[n] : tree.drivers[n][k] = {}

Round(tree, vals) ==
    [n \in DOMAIN tree.nets |->
        IF n \in Written(tree) THEN vals[n]
        ELSE [k \in 1 .. tree.nets[n].width |->
                 SettledBit(tree.nets[n].type,
                     {[bit |-> BitNow(d.term, vals), s0 |-> d.s0, s1 |-> d.s1] :
                          d \in tree.drivers[n][k]})]]

RECURSIVE Rounds(_, _)
Rounds(tree, vals) == LET next == Round(tree, vals)
                      IN  IF next = vals THEN vals ELSE Rounds(tree, next)

\* The values all nets settle to when the written ones have the values of `given`.
Settle(tree, given) ==
    Rounds(tree, [n \in DOMAIN tree.nets |->
                     IF n \in Written(tree) THEN given[n]
                     ELSE [k \in 1 .. tree.nets[n].width |-> "x"]])
=============================================================================
