----------------------------- MODULE NetDesign -----------------------------
(***************************************************************************)
(* From the source of a design to the values of its nets: the elaboration  *)
(* accepts or refuses the program, processes then write the regs of the    *)
(* flat module, and the kernel updates the nets.                           *)
(***************************************************************************)
EXTENDS Hierarchy

CONSTANT Programs              \* the programs that may be read

VARIABLES
    program,                   \* the modules of the source
    stage,                     \* "read", "refused", "written" or "updated"
    flat,                      \* the flat module
    order,                     \* its assigns in the order they are emitted
    net,                       \* the value of every net of the flat module
    tree                       \* what the program means (not part of the code)

vars == <<program, stage, flat, order, net, tree>>

Unknown(width) == [k \in 1 .. width |-> "x"]

Init ==
    /\ program \in Programs
    /\ stage = "read"
    /\ flat = EmptyFlat
    /\ order = <<>>
    /\ net = <<>>
    /\ tree = Meaning(program)

Accept ==
    /\ stage = "read"
    /\ flat' = Elaborate(program)
    /\ flat'.ok
    /\ order' = OrderAssigns(flat')
    /\ net' = [n \in DOMAIN flat'.nets |-> Unknown(flat'.nets[n].width)]
    /\ stage' = "written"
    /\ UNCHANGED <<program, tree>>

Refuse ==
    /\ stage = "read"
    /\ ~Elaborate(program).ok
    /\ stage' = "refused"
    /\ UNCHANGED <<program, flat, order, net, tree>>

\* A process writes a reg; the nets keep their values until the update.
Write(n, bits) ==
    /\ stage = "updated"
    /\ net' = [net EXCEPT ![n] = bits]
    /\ stage' = "written"
    /\ UNCHANGED <<program, flat, order, tree>>

Update ==
    /\ stage = "written"
    /\ \E late \in SetToSeqs(LatePartials(flat)) : net' = NetUpdate(flat, order, net, late)
    /\ stage' = "updated"
    /\ UNCHANGED <<program, flat, order, tree>>

Next ==
    \/ Accept
    \/ Refuse
    \/ \E n \in flat.writes : \E bits \in [1 .. flat.nets[n].width -> {"0", "1", "x"}] : Write(n, bits)
    \/ Update

Spec == Init /\ [][Next]_vars

-----------------------------------------------------------------------------
(* Properties.                                                             *)

\* LegalIsAccepted: a program is elaborated exactly when it is legal.  A defparam finds
\* its scope however deep it is, an override its parameter, a connection its port; and
\* what is wrong in any scope of the tree is refused (InlineModule's early returns).
LegalIsAccepted ==
    /\ stage = "refused" => ~Legal(tree)
    /\ stage \in {"written", "updated"} => Legal(tree)

\* FlatNetsAreTheNets: the nets of the flat module are the nets of the hierarchy, one for
\* each, with the width its scope's parameters give it (BuildParamBindings,
\* ApplyDefparamsToInstance, AddFlatNet).
FlatNetsAreTheNets ==
    stage \in {"written", "updated"} =>
        flat.nets = [f \in {FlatName(n) : n \in DOMAIN tree.nets} |->
                        tree.nets[CHOOSE n \in DOMAIN tree.nets : FlatName(n) = f]]

\* SettledNetsFollow: one update, in the order of OrderAssigns, brings every net to the
\* value its drivers settle to, whatever it was before; a bit nobody drives reads x.
SettledNetsFollow ==
    stage = "updated" =>
        LET settled == Settle(tree, [n \in Written(tree) |-> net[FlatName(n)]])
        IN  \A n \in DOMAIN tree.nets : net[FlatName(n)] = Stored(settled[n])
=============================================================================
