------------------------------ MODULE MCVmExec ------------------------------
(***************************************************************************)
(* The programs VmExec is checked on: every nesting of two constructs      *)
(* around every leaf, and a few programs of several processes.             *)
(***************************************************************************)
EXTENDS VmExec, FiniteSets

CONSTANT Admit  \* the kinds of known trouble a program may have

Outer == <<"if", "else", "feof", "not_feof", "while", "while_feof", "for", "case1", "case2",
           "default", "nodefault", "repeat0", "repeat2", "repeat3", "repeat", "block", "delay", "named", "edge",
           "wait", "forever", "fork", "task">>
Leaves == <<"blocking", "nonblocking", "delayed", "service", "procedural", "force", "system_task",
            "disable", "disable_outer", "bad_case", "empty">>

A(i) == <<Assign(i, "blocking")>>

\* The construct c with the list b in it; n is the first of its ids.
Wrap(c, n, b) ==
    CASE c = "if" -> If(n, "none", b, A(n + 1))
      [] c = "else" -> If(n, "none", <<>>, b)
      [] c = "feof" -> If(n, "plain", b, <<>>)
      [] c = "not_feof" -> If(n, "inverted", A(n + 1), b)
      [] c = "while" -> While(n, "none", b)
      [] c = "while_feof" -> While(n, "inverted", b)
      [] c = "for" -> For(n, b)
      [] c = "case1" -> Case(n, TRUE, <<b, A(n + 1)>>, A(n + 2))
      [] c = "case2" -> Case(n, TRUE, <<A(n + 1), b>>, <<>>)
      [] c = "default" -> Case(n, TRUE, <<A(n + 1)>>, b)
      [] c = "nodefault" -> Case(n, TRUE, <<b>>, <<>>)
      [] c = "repeat0" -> Repeat(n, 0, b)
      [] c = "repeat2" -> Repeat(n, 2, b)
      [] c = "repeat3" -> Repeat(n, 3, b)
      [] c = "repeat" -> Repeat(n, NotConstant, b)
      [] c = "block" -> Block("inner", b)
      [] c = "delay" -> Delay(n, b)
      [] c = "named" -> Event(n, TRUE, b)
      [] c = "edge" -> Event(n, FALSE, b)
      [] c = "wait" -> Wait(n, b)
      [] c = "forever" -> Forever(<<Delay(n, b)>>)
      [] c = "fork" -> Fork(n, <<Block("first", A(n + 1) \o b), Block("second", <<Disable("first")>>)>>)
      [] c = "task" -> TaskCall("t")

LeafList(l) ==
    CASE l \in {"blocking", "nonblocking", "delayed", "service", "procedural"} -> <<Assign(50, l)>>
      [] l \in {"force", "system_task"} -> <<Leaf(l, 50)>>
      [] l = "disable" -> <<If(50, "none", <<Disable("inner")>>, <<>>)>>
      [] l = "disable_outer" -> <<If(50, "none", <<Disable("outer")>>, <<>>)>>
      [] l = "bad_case" -> <<Case(50, FALSE, <<A(51)>>, <<>>)>>
      [] l = "empty" -> <<>>

Program(c, d, l) ==
    LET core == IF "task" \in {c, d} THEN <<>> ELSE LeafList(l)
    IN  [blocks |-> <<InitialBlock(
            <<Block("outer", <<Wrap(c, 10, <<Wrap(d, 20, core), Assign(30, "nonblocking")>>)>>),
              Leaf("trigger", 40)>>)>>,
         tasks |-> [t |-> LeafList(l) \o <<Leaf("release", 60)>>]]

NoTasks == [t |-> <<>>]
Sensitivities == <<"star", "level", "posedge", "edge_expr", "list", "none">>
Several ==
    [i \in 1..6 |-> [blocks |-> <<AlwaysBlock(1, Sensitivities[i], <<Delay(10, A(11))>>),
                                  InitialBlock(A(20))>>, tasks |-> NoTasks]]
    \o [i \in 1..6 |-> [blocks |-> <<AlwaysBlock(1, Sensitivities[i], A(11)),
                                     InitialBlock(A(20))>>, tasks |-> NoTasks]]
    \o [c \in 1..(Len(Outer) - 1) |->
          [blocks |-> <<InitialBlock(<<Wrap(Outer[c], 10, <<Block("b", A(30) \o <<Delay(31, A(32))>>)>>)>> \o A(33)),
                        InitialBlock(A(40) \o <<Disable("b")>> \o A(41))>>,
           tasks |-> NoTasks]]
    \o << [blocks |-> <<InitialBlock(<<TaskCall("t"), TaskCall("t")>>)>>,
           tasks |-> [t |-> <<Block("b", <<If(10, "none", <<Disable("b")>>, <<>>)>> \o A(11))>>]],
          [blocks |-> <<InitialBlock(<<TaskCall("t")>>)>>, tasks |-> [t |-> <<Delay(10, <<TaskCall("t")>>)>>]],
          [blocks |-> <<InitialBlock(<<While(10, "none", <<Block("b",
              <<Repeat(20, NotConstant, <<If(30, "none", <<Disable("b")>>, <<>>)>>)>>)>>)>>)>>,
           tasks |-> NoTasks] >>

(***************************************************************************)
(* What is known to go wrong: each of these kinds is a difference the      *)
(* documentation of the project lists.                                     *)
(***************************************************************************)
RECURSIVE Occurrences(_, _)
Occurrences(list, l) ==
    LET Count(s) ==
            (IF s.kind = "block" /\ s.label = l THEN 1 ELSE 0) +
            (IF s.kind = "repeat" /\ s.count # NotConstant /\ s.count <= UnrollLimit
             THEN s.count ELSE 1) *
            (IF s.kind = "fork" THEN 0
             ELSE FoldLeft(LAMBDA n, b : n + Occurrences(b, l), 0, Bodies(s)))
    IN  FoldLeft(LAMBDA n, s : n + Count(s), 0, list)

RECURSIVE Statements(_)
Statements(list) ==
    FlattenSeq([i \in DOMAIN list |->
        <<list[i]>> \o FlattenSeq([b \in DOMAIN Bodies(list[i]) |-> Statements(Bodies(list[i])[b])])])

Targets(list) == {s.target : s \in Range(SelectSeq(Statements(list), LAMBDA s : s.kind = "disable"))}
Labels(list)  == {s.label : s \in Range(SelectSeq(Statements(list), LAMBDA s : s.kind = "block"))}
Escapes(list) == Targets(list) \ Labels(list)

Troubles(p, l) ==
    LET bodies == [i \in DOMAIN l.procs |-> l.procs[i].body]
        all == UNION {Range(Statements(bodies[i])) : i \in {j \in DOMAIN bodies : l.procs[j].parent = NoParent}}
        targets == {s.target : s \in {t \in all : t.kind = "disable"}}
        If1(kind, bad) == IF bad THEN {kind} ELSE {}
    IN  If1("scheduled_comb",
            \E i \in DOMAIN p.blocks : /\ p.blocks[i].always /\ p.blocks[i].sens \in {"star", "level"}
                                       /\ NeedsScheduler(p.blocks[i].body))
        \cup If1("late_fallback",
            \E i \in DOMAIN l.code : /\ Len(l.code[i]) > 2
                                          /\ l.code[i][Len(l.code[i]) - 1].op = "call_group")
        \cup If1("label_copies", \E i \in DOMAIN bodies : \E t \in targets : Occurrences(bodies[i], t) > 1)
        \cup If1("repeat_left",
            \E s \in all : /\ s.kind = "repeat" /\ (s.count = NotConstant \/ s.count > UnrollLimit)
                           /\ \/ Escapes(s.body) # {}
                              \/ \E i \in DOMAIN p.blocks :
                                    /\ p.blocks[i].id = 0
                                    /\ Targets(p.blocks[i].body) \cap Labels(s.body) # {}
                                    /\ s \notin Range(Statements(p.blocks[i].body)))
        \cup If1("fork_disable",
            \E s \in all : /\ s.kind = "fork"
                           /\ \E b \in DOMAIN s.branches :
                                  Escapes(<<s.branches[b]>>) \ {"first", "second"} # {})
        \cup If1("fork_labels", ~l.ok)

MCAdmitted(p, l) == Troubles(p, l) \subseteq Admit

MCPrograms ==
    [x \in ((DOMAIN Outer) \X (DOMAIN Outer) \X (DOMAIN Leaves)) \cup {<<0, 0, i>> : i \in DOMAIN Several} |->
        IF x[1] = 0 THEN Several[x[3]] ELSE Program(Outer[x[1]], Outer[x[2]], Leaves[x[3]])]
=============================================================================
