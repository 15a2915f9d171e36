---------------------------- MODULE Elaboration ----------------------------
(***************************************************************************)
(* elaboration.cc: a program (a sequence of modules) becomes one flat      *)
(* module of nets and continuous assigns, or is rejected.                  *)
(*                                                                         *)
(* A module is                                                             *)
(*   [name, ports, params, nets, assigns, insts, defparams, writes, pull,  *)
(*    initial, test]                                                       *)
(* ports: [name, dir, width]; params: [name, value, local]; nets: [name,   *)
(* type, width]; insts: [name, of, array, overrides, conns], array is <<>> *)
(* or <<msb, lsb>>, an override is [name, value] with name "" when it is   *)
(* positional, a connection [port, expr]; defparams: [path, param, value], *)
(* where a step of the path is [name, index], index <<>> or <<i>>; writes: *)
(* the names its processes assign; pull: "none", "pull0" or "pull1".       *)
(* Widths, overrides and array bounds are constant expressions over the    *)
(* parameters; a width w stands for the range [w-1:0].  The top module is  *)
(* a testbench without ports.  Left out: functions, arrays of words,       *)
(* switches, tasks, events, generate labels and hierarchical references.   *)
(***************************************************************************)
EXTENDS Netlist, TLC

Par(p)     == [op |-> "par", name |-> p]
Sum(e, f)  == [op |-> "sum", a |-> e, b |-> f]

ElementsOf(s) == {s[i] : i \in DOMAIN s}

-----------------------------------------------------------------------------
(* Parameters.                                                             *)

RECURSIVE Evaluable(_, _)
Evaluable(e, env) ==
    CASE e.op = "num" -> TRUE
      [] e.op = "par" -> e.name \in DOMAIN env
      [] e.op = "sum" -> Evaluable(e.a, env) /\ Evaluable(e.b, env)
      [] OTHER        -> FALSE

RECURSIVE ConstValue(_, _)
ConstValue(e, env) ==
    CASE e.op = "num" -> e.n
      [] e.op = "par" -> env[e.name]
      [] e.op = "sum" -> ConstValue(e.a, env) + ConstValue(e.b, env)

OpenParams(m) == SelectSeq(m.params, LAMBDA p : ~p.local)
Positional(overrides) == SelectSeq(overrides, LAMBDA o : o.name = "")
Named(overrides) == SelectSeq(overrides, LAMBDA o : o.name # "")

OverridesRefused(m, overrides) ==
    LET named == Named(overrides)
    IN  \/ named # <<>> /\ Positional(overrides) # <<>>
        \/ Len(Positional(overrides)) > Len(OpenParams(m))
        \/ \E i, j \in DOMAIN named : i # j /\ named[i].name = named[j].name
        \/ \E o \in ElementsOf(named) : o.name \notin {p.name : p \in ElementsOf(OpenParams(m))}

\* The override of p: <<>> or its expression.
OverrideOf(m, overrides, p) ==
    LET named == SelectSeq(overrides, LAMBDA o : o.name = p.name)
        open  == OpenParams(m)
        place == {i \in DOMAIN open \cap DOMAIN Positional(overrides) : open[i] = p}
    IN  IF named # <<>> THEN <<named[1].value>>
        ELSE IF place # {} THEN <<Positional(overrides)[Min(place)].value>>
        ELSE <<>>

\* Overrides are evaluated outside, defaults over the parameters before them; a
\* parameter without a value stays out of the result.
BuildParamBindings(m, overrides, outer) ==
    FoldLeft(LAMBDA env, p :
                 LET over  == OverrideOf(m, overrides, p)
                     expr  == IF over = <<>> THEN p.value ELSE over[1]
                     scope == IF over = <<>> THEN env ELSE outer
                 IN  IF Evaluable(expr, scope)
                     THEN p.name :> ConstValue(expr, scope) @@ env ELSE env,
             <<>>, m.params)

ParamsBound(m, env) == \A p \in ElementsOf(m.params) : p.name \in DOMAIN env

RangeWidth(w) == IF w >= 1 THEN w ELSE 2 - w       \* [w-1:0], whichever bound is larger

-----------------------------------------------------------------------------
(* Defparams.  A path is matched against instance names by its flat form.  *)

HasModule(prog, name) == \E m \in ElementsOf(prog) : m.name = name
FindModule(prog, name) == CHOOSE m \in ElementsOf(prog) : m.name = name

\* The parser writes an index into the name: u[0] is u__0.
ConsumeHierIdentifier(path) ==
    [k \in DOMAIN path |-> path[k].name \o (IF path[k].index = <<>> THEN <<>>
                                            ELSE <<ToString(path[k].index[1])>>)]

\* The defparams of a module as the parser leaves them.
Parsed(m) == [i \in DOMAIN m.defparams |->
                 [m.defparams[i] EXCEPT !.path = ConsumeHierIdentifier(@)]]

MatchesUpTo(path, instance) == {k \in DOMAIN path : FlattenSeq(SubSeq(path, 1, k)) = instance}
MatchDefparamInstance(path, instance) == MatchesUpTo(path, instance) # {}
TailAfter(path, instance) == SubSeq(path, Min(MatchesUpTo(path, instance)) + 1, Len(path))

\* The first identifier of the path is also a segment of an instance and a module.
Ambiguous(prog, m, d) ==
    /\ d.path # <<>>
    /\ Len(d.path[1]) = 1
    /\ HasModule(prog, d.path[1][1])
    /\ \E i \in ElementsOf(m.insts) : d.path[1][1] \in ElementsOf(i.name)

DefparamsRefused(prog, m, defparams) ==
    \E d \in ElementsOf(defparams) :
        \/ Ambiguous(prog, m, d)
        \/ ~\E i \in ElementsOf(m.insts) : MatchDefparamInstance(d.path, i.name)

Targeting(defparams, instance) ==
    SelectSeq(defparams, LAMBDA d : MatchDefparamInstance(d.path, instance)
                                    /\ TailAfter(d.path, instance) = <<>>)

PositionalTargeted(defparams, instance, overrides) ==
    Positional(overrides) # <<>> /\ Targeting(defparams, instance) # <<>>

\* Mutant of ApplyDefparams: an override that is there already stays.
KeepOverrides(defparams, instance, overrides) ==
    FoldLeft(LAMBDA os, d :
                 IF \E i \in DOMAIN os : os[i].name = d.param THEN os
                 ELSE Append(os, [name |-> d.param, value |-> d.value]),
             overrides, Targeting(defparams, instance))

\* A later defparam replaces an earlier one, and the override in the instance.
ApplyDefparams(defparams, instance, overrides) ==
    FoldLeft(LAMBDA os, d :
                 LET o == [name |-> d.param, value |-> d.value]
                     at == {i \in DOMAIN os : os[i].name = d.param}
                 IN  IF at = {} THEN Append(os, o) ELSE [os EXCEPT ![Min(at)] = o],
             overrides, Targeting(defparams, instance))

\* The defparams that go on into the instance, their values unevaluated.
ChildDefparams(defparams, instance) ==
    LET deep == SelectSeq(defparams, LAMBDA d : MatchDefparamInstance(d.path, instance)
                                                /\ TailAfter(d.path, instance) # <<>>)
    IN  [i \in DOMAIN deep |-> [deep[i] EXCEPT !.path = TailAfter(@, instance)]]

-----------------------------------------------------------------------------
(* The flat module under construction: [ok, nets, hier, assigns, writes].  *)

Refused(st) == [st EXCEPT !.ok = FALSE]
EmptyFlat == [ok |-> TRUE, nets |-> <<>>, hier |-> <<>>, assigns |-> <<>>, writes |-> {}]

\* Mutant of AddFlatNet: nets of one name are merged, whatever their paths.
MergeFlatNet(st, name, width, type, hier) ==
    IF name \in DOMAIN st.nets THEN st
    ELSE [st EXCEPT !.nets = name :> [width |-> width, type |-> type] @@ @,
                    !.hier = name :> hier @@ @]

\* A name taken by another hierarchical path is refused, a second declaration of the
\* same path is dropped.
AddFlatNet(st, name, width, type, hier) ==
    IF name \notin DOMAIN st.nets
    THEN [st EXCEPT !.nets = name :> [width |-> width, type |-> type] @@ @,
                    !.hier = name :> hier @@ @]
    ELSE IF st.hier[name] = hier THEN st ELSE Refused(st)

DeclaredType(m, name) ==
    LET same == SelectSeq(m.nets, LAMBDA n : n.name = name)
    IN  IF same = <<>> THEN "wire" ELSE same[1].type

RECURSIVE Cloned(_, _, _)
Cloned(e, prefix, env) ==          \* names get the prefix, parameters their value
    CASE e.op = "id"   -> Id(prefix \o e.name)
      [] e.op = "sel"  -> Sel(Cloned(e.base, prefix, env), ConstValue(e.hi, env),
                              ConstValue(e.lo, env))
      [] e.op = "cat"  -> Cat([i \in DOMAIN e.parts |-> Cloned(e.parts[i], prefix, env)])
      [] e.op = "not"  -> Not(Cloned(e.arg, prefix, env))
      [] e.op = "cond" -> Cond(Cloned(e.if, prefix, env), Cloned(e.then, prefix, env),
                               Cloned(e.else, prefix, env))
      [] e.op = "lit"  -> e
      [] OTHER         -> Num(ConstValue(e, env))

\* A select of one bit is an index in the source, which is not simplified.
RECURSIVE SimplifyExpr(_, _)
SimplifyExpr(nets, e) ==
    CASE e.op = "sel"  -> LET base == SimplifyExpr(nets, e.base)
                          IN  IF e.hi > e.lo /\ e.lo = 0 /\ e.hi = ExprWidth(nets, base) - 1
                              THEN base ELSE Sel(base, e.hi, e.lo)
      [] e.op = "cat"  -> LET parts == [i \in DOMAIN e.parts |-> SimplifyExpr(nets, e.parts[i])]
                          IN  IF Len(parts) = 1 THEN parts[1] ELSE Cat(parts)
      [] e.op = "not"  -> Not(SimplifyExpr(nets, e.arg))
      [] e.op = "cond" -> Cond(SimplifyExpr(nets, e.if), SimplifyExpr(nets, e.then),
                               SimplifyExpr(nets, e.else))
      [] OTHER         -> e

\* Bits hi to lo of a concatenation, as a concatenation of the parts they lie in.
SliceConcat(nets, e, hi, lo) ==
    LET above(i) == ExprWidth(nets, Cat(SubSeq(e.parts, i + 1, Len(e.parts))))   \* its low bit
        width(i) == ExprWidth(nets, e.parts[i])
        from(i)  == Larger(lo, above(i)) - above(i)
        to(i)    == (IF hi < above(i) + width(i) THEN hi ELSE above(i) + width(i) - 1) - above(i)
        inside   == SelectSeq([i \in DOMAIN e.parts |-> i], LAMBDA i : from(i) <= to(i))
        part(i)  == IF from(i) = 0 /\ to(i) = width(i) - 1 THEN e.parts[i]
                    ELSE Sel(e.parts[i], to(i), from(i))
    IN  Cat([k \in DOMAIN inside |-> part(inside[k])])

\* Mutant of ResolveConnection: the first element gets the lowest bits.
ResolveFromBelow(nets, e, width, slot, count) ==
    LET r  == SimplifyExpr(nets, e)
        lo == slot * width
    IN  CASE count > 1 /\ r.op = "cat" /\ Len(r.parts) = count -> r.parts[slot + 1]
          [] count > 1 /\ ExprWidth(nets, r) = count * width ->
                SimplifyExpr(nets, IF r.op = "cat" THEN SliceConcat(nets, r, lo + width - 1, lo)
                                   ELSE Sel(r, lo + width - 1, lo))
          [] OTHER -> r

\* The slice of connection e that element `slot` of `count` gets for a port.
ResolveConnection(nets, e, width, slot, count) ==
    LET r  == SimplifyExpr(nets, e)
        hi == count * width - 1 - slot * width
        lo == hi - width + 1
    IN  CASE count > 1 /\ r.op = "cat" /\ Len(r.parts) = count -> r.parts[slot + 1]
          [] count > 1 /\ ExprWidth(nets, r) = count * width ->
                SimplifyExpr(nets, IF r.op = "cat" THEN SliceConcat(nets, r, hi, lo)
                                   ELSE Sel(r, hi, lo))
          [] OTHER -> r

Implicit(lhs, range, rhs) == [lhs |-> lhs, range |-> range, rhs |-> rhs, s0 |-> 3, s1 |-> 3]

-----------------------------------------------------------------------------
(* Port connections.                                                       *)

\* The width the parser knew: 1 for a range that needs a parameter.
DeclaredWidth(m, name) ==
    LET same == SelectSeq(m.ports \o m.nets, LAMBDA d : d.name = name)
    IN  CASE same = <<>>                -> UnsizedWidth
          [] same[1].width.op = "num"   -> RangeWidth(same[1].width.n)
          [] OTHER                      -> 1

IsTarget(e) == e.op = "id" \/ (e.op = "sel" /\ e.base.op = "id")
TargetName(e) == IF e.op = "id" THEN e.name ELSE e.base.name
TargetRange(e) == IF e.op = "id" THEN <<>> ELSE <<e.hi, e.lo>>
\* The names are flat already, the module is not.
TargetWidth(m, e) == IF e.op = "id" THEN DeclaredWidth(m, e.name) ELSE e.hi - e.lo + 1

RECURSIVE Targets(_)
Targets(e) == IF e.op # "cat" THEN <<e>>
              ELSE FoldLeft(LAMBDA ts, part : ts \o Targets(part), <<>>, e.parts)

\* A conditional with a constant condition, which the parameters have been put into
\* already, stands for the branch it takes; unknown bits of the constant count as 0.
Taken(e) == IF e.op = "cond" /\ Names(e.if) = {}
            THEN IF "1" \in ElementsOf(Value(e.if, <<>>)) THEN e.then ELSE e.else
            ELSE e

ConnectOutput(st, m, connection, signal) ==
    LET e  == Taken(connection)
        ts == Targets(e)
        above(k) == FoldLeft(LAMBDA sum, t : sum + TargetWidth(m, t), 0,
                             SubSeq(ts, k, Len(ts)))
        drive(k) == Implicit(TargetName(ts[k]), TargetRange(ts[k]),
                             IF e.op = "cat"
                             THEN Sel(Id(signal), above(k) - 1, above(k) - TargetWidth(m, ts[k]))
                             ELSE Id(signal))
    IN  IF \E t \in ElementsOf(ts) : ~IsTarget(t) THEN Refused(st)
        ELSE [st EXCEPT !.assigns = @ \o [k \in DOMAIN ts |-> drive(k)]]

PortWidth(port, env) == RangeWidth(ConstValue(port.width, env))

\* The port of connection k: connections are all by name or all by position.
PortOf(child, conns, k) ==
    IF conns[1].port = <<>>
    THEN IF k <= Len(child.ports) THEN <<child.ports[k]>> ELSE <<>>
    ELSE SelectSeq(child.ports, LAMBDA p : p.name = conns[k].port)

ConnectPort(st, m, prefix, env, port, width, element, e) ==
    LET signal == prefix \o element.name \o port.name
        r == ResolveConnection(st.nets, Cloned(e, prefix, env), width, element.slot,
                               element.count)
    IN  IF port.dir = "input"
        THEN [st EXCEPT !.assigns = Append(@, Implicit(signal, <<>>, r))]
        ELSE ConnectOutput(st, m, r, signal)

\* The driver of an input without a connection, under `unconnected_drive.
Unconnected(pull, signal, width) ==
    CASE pull = "none"  -> Implicit(signal, <<>>, Lit([i \in 1 .. width |-> "z"]))
      [] pull = "pull0" -> [Implicit(signal, <<>>, Num(0)) EXCEPT !.s0 = 2, !.s1 = 0]
      [] pull = "pull1" -> [Implicit(signal, <<>>, Num(1)) EXCEPT !.s0 = 0, !.s1 = 2]

\* The instances an array stands for, in the order of its range.
Elements(inst, env) ==
    IF inst.array = <<>> THEN <<[name |-> inst.name, slot |-> 0, count |-> 1]>>
    ELSE LET msb == ConstValue(inst.array[1], env)
             lsb == ConstValue(inst.array[2], env)
             count == IF msb <= lsb THEN lsb - msb + 1 ELSE msb - lsb + 1
         IN  [k \in 1 .. count |->
                 [name  |-> Append(inst.name, ToString(IF msb <= lsb THEN msb + k - 1
                                                       ELSE msb - k + 1)),
                  slot  |-> k - 1,
                  count |-> count]]

ConnectionsRefused(child, conns) ==
    \/ \E k \in DOMAIN conns : PortOf(child, conns, k) = <<>>
    \/ \E j, k \in DOMAIN conns : j # k /\ PortOf(child, conns, j) = PortOf(child, conns, k)

ConnectPorts(st, m, prefix, path, env, child, cenv, element, conns) ==
    LET port(k) == PortOf(child, conns, k)[1]
        connect(s, k) == IF conns[k].expr = <<>> THEN s
                         ELSE ConnectPort(s, m, prefix, env, port(k), PortWidth(port(k), cenv),
                                          element, conns[k].expr[1])
        connected == {port(k) : k \in {j \in DOMAIN conns : conns[j].expr # <<>>}}
        declare(s, p) ==
            LET signal == prefix \o element.name \o p.name
                added == AddFlatNet(s, signal, PortWidth(p, cenv), DeclaredType(child, p.name),
                                    path \o <<element.name, p.name>>)
            IN  IF p \in connected \/ p.dir = "output" \/ ~added.ok THEN added
                ELSE [added EXCEPT !.assigns =
                         Append(@, Unconnected(m.pull, signal, PortWidth(p, cenv)))]
    IN  IF ConnectionsRefused(child, conns) THEN Refused(st)
        ELSE FoldLeft(LAMBDA s, p : IF s.ok THEN declare(s, p) ELSE s,
                      FoldLeft(LAMBDA s, k : IF s.ok THEN connect(s, k) ELSE s,
                               st, [k \in DOMAIN conns |-> k]),
                      child.ports)

-----------------------------------------------------------------------------
(* Inlining, from the top module down.                                     *)

DeclareNets(st, m, prefix, path, env) ==
    FoldLeft(LAMBDA s, n : IF s.ok
                           THEN AddFlatNet(s, prefix \o n.name,
                                           RangeWidth(ConstValue(n.width, env)), n.type,
                                           Append(path, n.name))
                           ELSE s,
             st, m.nets)

FlatAssigns(st, m, prefix, env) ==
    [k \in DOMAIN m.assigns |->
        [m.assigns[k] EXCEPT !.lhs = prefix \o @,
                             !.rhs = SimplifyExpr(st.nets, Cloned(@, prefix, env))]]

AddBody(st, m, prefix, env) ==
    [st EXCEPT !.assigns = @ \o FlatAssigns(st, m, prefix, env),
               !.writes = @ \cup {prefix \o n : n \in m.writes}]

\* A scope is [mod, prefix, path, env, defs, stack]: the module, where it is in the flat
\* and in the hierarchical name space, its parameters, the defparams from above that reach
\* into it, and the modules it is inside of.
RECURSIVE InlineModule(_, _, _), InlineInstance(_, _, _, _, _)
InlineInstance(prog, st, scope, inst, element) ==
    LET own == Parsed(scope.mod)
        child == FindModule(prog, inst.of)
        overrides == ApplyDefparams(scope.defs, element.name,
                                    ApplyDefparams(own, element.name, inst.overrides))
        cenv == BuildParamBindings(child, overrides, scope.env)
        below == [mod    |-> child,
                  prefix |-> scope.prefix \o element.name,
                  path   |-> Append(scope.path, element.name),
                  env    |-> cenv,
                  defs   |-> ChildDefparams(own \o scope.defs, element.name),
                  stack  |-> scope.stack \cup {scope.mod.name}]
    IN  IF \/ ~HasModule(prog, inst.of)
           \/ PositionalTargeted(own \o scope.defs, element.name, inst.overrides)
           \/ OverridesRefused(child, overrides)
           \/ ~ParamsBound(child, cenv)
        THEN Refused(st)
        ELSE InlineModule(prog,
                          ConnectPorts(st, scope.mod, scope.prefix, scope.path, scope.env, child,
                                       cenv, element, inst.conns),
                          below)

InlineModule(prog, st, scope) ==
    LET m == scope.mod
        elements(s, inst) ==
            FoldLeft(LAMBDA t, e : IF t.ok THEN InlineInstance(prog, t, scope, inst, e) ELSE t,
                     s, Elements(inst, scope.env))
        body == AddBody(DeclareNets(st, m, scope.prefix, scope.path, scope.env),
                        m, scope.prefix, scope.env)
    IN  IF \/ ~st.ok
           \/ m.name \in scope.stack
           \/ DefparamsRefused(prog, m, Parsed(m))
           \/ DefparamsRefused(prog, m, scope.defs)
        THEN Refused(st)
        ELSE FoldLeft(LAMBDA s, i : IF s.ok THEN elements(s, i) ELSE s, body, m.insts)

Roots(prog) == SelectSeq(prog, LAMBDA m : \A p \in ElementsOf(prog) :
                                              \A i \in ElementsOf(p.insts) : i.of # m.name)

\* Of several roots: a test with an initial block, then any with one, then any test,
\* then the first.
FindTopModule(prog) ==
    LET roots == Roots(prog)
        tests == SelectSeq(roots, LAMBDA m : m.test)
        initials == SelectSeq(roots, LAMBDA m : m.initial)
        both == SelectSeq(tests, LAMBDA m : m.initial)
    IN  (both \o initials \o tests \o roots)[1]

\* A whole-net assign may not follow a partial one, only a wire has several drivers, and
\* what a process writes has no assign.
ValidateSingleDrivers(flat) ==
    LET range(i) == flat.assigns[i].range
        name(i)  == flat.assigns[i].lhs
        wire(i)  == name(i) \notin DOMAIN flat.nets \/ flat.nets[name(i)].type # "reg"
        overlap(i, j) == Low(range(i)) <= High(range(j)) /\ Low(range(j)) <= High(range(i))
        clash(i, j) == IF range(j) = <<>> THEN range(i) # <<>> \/ ~wire(j)
                       ELSE ~wire(j) /\ (range(i) = <<>> \/ overlap(i, j))
    IN  /\ \A j \in DOMAIN flat.assigns : \A i \in 1 .. j - 1 : name(i) = name(j) => ~clash(i, j)
        /\ \A j \in DOMAIN flat.assigns : name(j) \notin flat.writes

Validated(flat) == IF flat.ok /\ ~ValidateSingleDrivers(flat) THEN Refused(flat) ELSE flat

Elaborate(prog) ==
    LET top == FindTopModule(prog)
        env == BuildParamBindings(top, <<>>, <<>>)
        ambiguous == \E m \in ElementsOf(prog) : \E d \in ElementsOf(Parsed(m)) :
                         Ambiguous(prog, m, d)
    IN  IF ambiguous \/ Roots(prog) = <<>> \/ ~ParamsBound(top, env) THEN Refused(EmptyFlat)
        ELSE Validated(InlineModule(prog, EmptyFlat,
                                    [mod |-> top, prefix |-> <<>>, path |-> <<>>, env |-> env,
                                     defs |-> <<>>, stack |-> {}]))
=============================================================================
