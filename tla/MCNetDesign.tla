---------------------------- MODULE MCNetDesign ----------------------------
(***************************************************************************)
(* Programs of three levels: a leaf with a parameter for its width, a      *)
(* module that instantiates it once, twice or as an array, and a top       *)
(* module with one reg.  The designs the README lists under "Other         *)
(* differences" of the elaboration are not among them.                     *)
(***************************************************************************)
EXTENDS NetDesign

N(x) == <<x>>
I(x) == Id(N(x))
Bit(x, k) == Sel(I(x), Num(k), Num(k))
Port(x, d, w) == [name |-> N(x), dir |-> d, width |-> w]
Net(x, t, w) == [name |-> N(x), type |-> t, width |-> w]
Param(x, v) == [name |-> x, value |-> v, local |-> FALSE]
Local(x, v) == [name |-> x, value |-> v, local |-> TRUE]
Give(x, v) == [name |-> x, value |-> v]
To(x, e) == [port |-> N(x), expr |-> <<e>>]
Nth(e) == [port |-> <<>>, expr |-> <<e>>]
Open(x) == [port |-> N(x), expr |-> <<>>]
Inst(x, of, overrides, conns) ==
    [name |-> N(x), of |-> of, array |-> <<>>, overrides |-> overrides, conns |-> conns]
Array(x, of, msb, lsb, overrides, conns) ==
    [Inst(x, of, overrides, conns) EXCEPT !.array = <<Num(msb), Num(lsb)>>]
Defparam(path, p, v) ==
    [path |-> [k \in DOMAIN path |-> [name |-> N(path[k]), index |-> <<>>]],
     param |-> p, value |-> v]
Assign(x, e) == [lhs |-> N(x), range |-> <<>>, rhs |-> e, s0 |-> 3, s1 |-> 3]
AssignBit(x, k, e) == [Assign(x, e) EXCEPT !.range = <<k, k>>]
Pulling(x, e) == [Assign(x, e) EXCEPT !.s0 = 2, !.s1 = 2]
Module(x) == [name |-> x, ports |-> <<>>, params |-> <<>>, nets |-> <<>>, assigns |-> <<>>,
              insts |-> <<>>, defparams |-> <<>>, writes |-> {}, pull |-> "none",
              initial |-> FALSE, test |-> FALSE]
Z == Lit(<<"z">>)

-----------------------------------------------------------------------------
(* The leaf: an inverter, a wired-and behind it, a bus with a pull.        *)

Inverter ==
    [Module("leaf") EXCEPT
        !.params = <<Param("W", Num(1)), Local("V", Sum(Par("W"), Num(0)))>>,
        !.ports = <<Port("i", "input", Par("W")), Port("o", "output", Par("W"))>>,
        !.assigns = <<Assign("o", Not(I("i")))>>]
WiredAnd ==
    [Inverter EXCEPT
        !.nets = <<Net("n", "wand", Par("V"))>>,
        !.assigns = <<Assign("o", Not(I("n"))), Assign("n", Cond(Bit("i", 0), I("i"), Z)),
                      Assign("n", I("i"))>>]
Bus == [Inverter EXCEPT !.assigns = <<Pulling("o", Not(I("i"))),
                                      Assign("o", Cond(Bit("i", 0), I("i"), Z))>>]

-----------------------------------------------------------------------------
(* The module in the middle: two bits in, two bits out.                    *)

Middle(insts) ==
    [Module("mid") EXCEPT
        !.params = <<Param("W", Num(1)), Param("D", Sum(Par("W"), Num(1)))>>,
        !.ports = <<Port("i", "input", Num(2)), Port("o", "output", Num(2))>>,
        !.insts = insts]
Leaf(overrides, e, t) == Inst("u", "leaf", overrides, <<To("i", e), To("o", t)>>)
Swapped(x) == Cat(<<Bit(x, 0), Bit(x, 1)>>)

Plain == Middle(<<Leaf(<<Give("W", Par("D"))>>, I("i"), I("o"))>>)
Default == Middle(<<Leaf(<<>>, I("i"), I("o"))>>)
Placed == Middle(<<Inst("u", "leaf", <<Give("", Sum(Par("W"), Num(1)))>>,
                        <<Nth(I("i")), Nth(I("o"))>>)>>)
Crossed == Middle(<<Leaf(<<Give("W", Num(2))>>, Swapped("i"), Swapped("o"))>>)
Pair == Middle(<<Inst("v", "leaf", <<>>, <<To("i", Bit("i", 0)), To("o", Bit("o", 1))>>),
                 Inst("u", "leaf", <<>>, <<To("o", Bit("o", 0)), To("i", Bit("i", 1))>>)>>)
Down == Middle(<<Array("u", "leaf", 1, 0, <<>>, <<To("i", I("i")), To("o", I("o"))>>)>>)
Up == Middle(<<Array("u", "leaf", 0, 1, <<>>, <<To("i", Swapped("i")), To("o", I("o"))>>)>>)
Shared == [Middle(<<Array("u", "leaf", 1, 0, <<>>, <<To("i", Bit("i", 1)), To("o", I("o"))>>)>>)
              EXCEPT !.nets = <<Net("o", "wire", Num(2))>>]
Wide == [Middle(<<Array("u", "leaf", 1, 0, <<Give("W", Num(2))>>,
                        <<To("i", Cat(<<Bit("i", 1), I("i"), Bit("i", 0)>>)),
                          To("o", Cat(<<I("n"), I("o")>>))>>)>>)
            EXCEPT !.nets = <<Net("n", "wire", Num(2))>>]
Wired == [Middle(<<Leaf(<<Give("W", Num(2))>>, I("i"), I("o")),
                   Inst("v", "leaf", <<Give("W", Num(2))>>, <<To("i", Swapped("i")), To("o", I("o"))>>)>>)
             EXCEPT !.nets = <<Net("o", "wand", Num(2))>>]
Loose(pull) == [Middle(<<Inst("u", "leaf", <<>>, <<Open("i"), To("o", Bit("o", 0))>>)>>)
                   EXCEPT !.assigns = <<AssignBit("o", 1, Bit("i", 1))>>, !.pull = pull]

Middles == {Plain, Default, Placed, Crossed, Pair, Down, Up, Shared, Wide, Wired,
            Loose("none"), Loose("pull0"), Loose("pull1")}

-----------------------------------------------------------------------------
(* The top module: a reg a, and a net y of the first instance.             *)

Top(overrides, defparams, e, t) ==
    [Module("top") EXCEPT
        !.nets = <<Net("a", "reg", Num(2)), Net("y", "wire", Num(2)), Net("p", "wire", Num(1))>>,
        !.insts = <<Inst("m", "mid", overrides, <<To("i", e), To("o", t)>>)>>,
        !.assigns = <<AssignBit("p", 0, Bit("a", 1))>>,
        !.defparams = defparams, !.writes = {N("a")}, !.initial = TRUE]
Direct == Top(<<>>, <<>>, I("a"), I("y"))
Split == [Top(<<>>, <<>>, Swapped("a"), Cat(<<Bit("y", 0), I("p")>>))
             EXCEPT !.assigns = <<AssignBit("y", 1, I("p"))>>]
Chain == [Direct EXCEPT
             !.nets = @ \o <<Net("q", "wire", Num(2))>>,
             !.insts = <<Inst("n", "mid", <<>>, <<To("i", I("y")), To("o", I("q"))>>)>> \o @]

Programs3(tops, middles, leaves) == {<<l, m, t>> : l \in leaves, m \in middles, t \in tops}

Connections == Programs3({Direct, Split, Chain}, Middles, {Inverter, WiredAnd, Bus})

DefparamLists ==
    LET w(k) == Defparam(<<"m">>, "W", Num(k))
        d(k) == Defparam(<<"m">>, "D", Num(k))
        u(k) == Defparam(<<"m", "u">>, "W", Num(k))
    IN  {<<>>, <<w(2)>>, <<d(1)>>, <<w(0), d(2)>>, <<u(1)>>, <<u(2), u(1)>>, <<u(1), u(2)>>,
         <<d(1), u(2)>>}
Aimed == {[m EXCEPT !.defparams = ds] : m \in {Plain, Default},
              ds \in {<<>>, <<Defparam(<<"u">>, "W", Par("D"))>>, <<Defparam(<<"u">>, "W", Num(1))>>}}
Parameters ==
    Programs3({Top(os, ds, I("a"), I("y")) :
                   os \in {<<>>, <<Give("D", Num(1))>>, <<Give("D", Num(1)), Give("W", Num(2))>>,
                           <<Give("", Num(0))>>, <<Give("", Num(0)), Give("", Num(2))>>},
                   ds \in DefparamLists},
              Aimed, {Inverter})

\* Several roots, in an order that is not the order of preference.
Spare(x, initial, test) == [Module(x) EXCEPT !.initial = initial, !.test = test]
Roots3 == {<<Spare("s", FALSE, s), Plain, Inverter, [Direct EXCEPT !.initial = i, !.test = t],
             Spare("r", r, TRUE)>> : s, i, t, r \in BOOLEAN}

\* Programs with one mistake.
Mistaken(insts) == <<Inverter, Middle(insts), Direct>>
Mistakes ==
    {Mistaken(<<Leaf(os, I("i"), I("o"))>>) :
        os \in {<<Give("X", Num(1))>>, <<Give("V", Num(1))>>, <<Give("W", Num(1)), Give("W", Num(2))>>,
                <<Give("", Num(1)), Give("", Num(2))>>, <<Give("", Num(1)), Give("W", Num(2))>>,
                <<Give("W", Par("Q"))>>}}
    \cup {Mistaken(<<Inst("u", of, <<>>, cs)>>) : of \in {"leaf", "mid", "none"},
             cs \in {<<>>, <<To("k", I("i"))>>, <<To("i", I("i")), Open("i")>>,
                     <<Nth(I("i")), Nth(I("o")), Nth(I("i"))>>, <<To("o", Not(I("o")))>>,
                     <<To("o", Cat(<<Bit("o", 1), Num(0)>>))>>}}
    \cup {<<Inverter, m, Top(<<>>, <<d>>, I("a"), I("y"))>> : m \in {Plain, Placed},
             d \in {Defparam(<<>>, "W", Num(1)), Defparam(<<"k">>, "W", Num(1)),
                    Defparam(<<"m", "k">>, "W", Num(1)), Defparam(<<"m", "u", "k">>, "W", Num(1)),
                    Defparam(<<"m">>, "X", Num(1)), Defparam(<<"m", "u">>, "V", Num(1)),
                    Defparam(<<"m", "u">>, "W", Num(1))}}
    \cup {<<Inverter, [Plain EXCEPT !.nets = <<[name |-> <<"u", "i">>, type |-> "wire", width |-> Num(1)]>>],
            Direct>>,
          <<Inverter, Plain, [Direct EXCEPT !.writes = {N("y")}]>>,
          <<Inverter, Plain, [Direct EXCEPT !.insts = @ \o <<[@[1] EXCEPT !.name = <<"m", "u">>]>>]>>,
          <<Inverter, Middle(<<Leaf(<<>>, I("i"), I("o")), Inst("t", "top", <<>>, <<>>)>>), Direct>>}

MCPrograms == Connections \cup Parameters \cup Roots3 \cup Mistakes
=============================================================================
