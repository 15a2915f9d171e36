------------------------------ MODULE VmCompile ------------------------------
(***************************************************************************)
(* From the always and initial blocks of a module to the bytecode of its   *)
(* processes: the parser's classification of always blocks, the expansion  *)
(* of user tasks, the numbering of fork branches and block labels, the     *)
(* emitter, and the patching of labels (verilog_parser.cc, msl_codegen.cc, *)
(* scheduler_vm.hh).                                                       *)
(*                                                                         *)
(* A word of bytecode is an instruction [op, arg] or an operand            *)
(* [op |-> "data"].  Process ids count from 1, code addresses from 0, as   *)
(* in the code.  The index a statement or an expression gets in one of the *)
(* tables of the VM is represented by its identity: the tables are keyed   *)
(* by the statement's address, so two statements never share an index.     *)
(***************************************************************************)
EXTENDS Statements

CONSTANT UnrollLimit  \* kSchedulerVmRepeatUnrollLimit: the largest repeat that is unrolled

(***************************************************************************)
(* Blocks.  sens says how the always block is triggered: "star", "level"   *)
(* (one signal), "posedge" (one edge of a signal), "edge_expr" (one edge   *)
(* of an expression), "list" (several), "none" (no event control).         *)
(***************************************************************************)
InitialBlock(b)      == [always |-> FALSE, id |-> 0, sens |-> "none", body |-> b]
AlwaysBlock(i, s, b) == [always |-> TRUE, id |-> i, sens |-> s, body |-> b]

\* What a block means: an always block starts over for ever.
SourceOf(b) ==
    IF ~b.always THEN b.body
    ELSE <<Forever(IF b.sens = "none" THEN b.body ELSE <<Event(b.id, FALSE, b.body)>>)>>

\* The edge and the statements the parser gives a block.
ParseAlwaysBlock(b) ==
    IF ~b.always \/ b.sens \in {"none", "edge_expr", "list"}
    THEN [edge |-> "initial", body |-> SourceOf(b)]
    ELSE [edge |-> IF b.sens = "posedge" THEN "posedge" ELSE "combinational", body |-> b.body]

RECURSIVE NeedsScheduler(_)
NeedsScheduler(list) ==
    \E i \in DOMAIN list :
        LET s == list[i] IN
        \/ s.kind = "assign" /\ s.how \in {"delayed", "service"}
        \/ s.kind \in {"force", "release", "delay", "event", "trigger", "wait", "forever",
                       "fork", "disable", "task", "system_task"}
        \/ s.kind \in {"if", "block", "case", "for", "while", "repeat"}
           /\ \E b \in DOMAIN Bodies(s) : NeedsScheduler(Bodies(s)[b])

(***************************************************************************)
(* Task calls are replaced by the task's body, one copy for each call.  A  *)
(* call of a task that is being expanded is left as it is; a branch of a   *)
(* fork that becomes empty is dropped.                                     *)
(***************************************************************************)
RECURSIVE ExpandTasksInStatements(_, _, _)
ExpandTasksInStatements(list, tasks, stack) ==
    LET Inside(b) == ExpandTasksInStatements(b, tasks, stack)
        AsBranch(b) == IF Len(b) = 1 THEN b[1] ELSE Block(NoLabel, b)
        Expand(s) ==
            CASE s.kind = "task" ->
                    IF s.task \in stack THEN <<s>>
                    ELSE ExpandTasksInStatements(tasks[s.task], tasks, stack \cup {s.task})
              [] s.kind = "if" -> <<[s EXCEPT !.then = Inside(@), !.else = Inside(@)]>>
              [] s.kind = "case" ->
                    <<[s EXCEPT !.items = MapSeq(Inside, @), !.default = Inside(@)]>>
              [] s.kind = "fork" ->
                    <<[s EXCEPT !.branches = MapSeq(AsBranch,
                          SelectSeq(MapSeq(LAMBDA b : Inside(<<b>>), @), LAMBDA b : b # <<>>))]>>
              [] "body" \in DOMAIN s -> <<[s EXCEPT !.body = Inside(@)]>>
              [] OTHER -> <<s>>
    IN  FoldLeft(LAMBDA out, s : out \o Expand(s), <<>>, list)

(***************************************************************************)
(* Processes: the blocks, then the fork branches in the order the fork     *)
(* statements are met, each branch followed by the branches inside it.     *)
(***************************************************************************)
RootBlocks(blocks) ==
    LET Of(edge) == SelectSeq(blocks, LAMBDA b : ParseAlwaysBlock(b).edge = edge)
    IN  Of("initial") \o Of("posedge")
        \o SelectSeq(Of("combinational"), LAMBDA b : NeedsScheduler(b.body))

\* The statements of a block's process.
RootBody(b) ==
    LET parsed == ParseAlwaysBlock(b)
        waiting == <<Event(b.id, FALSE, parsed.body)>>
    IN  CASE parsed.edge = "initial" -> parsed.body
          [] parsed.edge = "posedge" -> <<Forever(waiting)>>
          [] parsed.edge = "combinational" -> waiting

NoParent == 0

\* procs: what each process executes and its parent; children: the processes of
\* a fork statement; named: the process of a labelled branch, by parent.
RECURSIVE CollectForks(_, _, _)
CollectForks(c, list, parent) ==
    LET Branch(d, f, b) ==
            LET child == Len(d.procs) + 1
                s == f.branches[b]
            IN  CollectForks(
                  [procs |-> Append(d.procs, [body |-> <<s>>, parent |-> parent]),
                   children |-> d.children \cup {<<f.id, b, child>>},
                   named |-> IF s.kind = "block" /\ s.label # NoLabel
                             THEN {n \in d.named : n.parent # parent \/ n.label # s.label}
                                  \cup {[parent |-> parent, label |-> s.label, pid |-> child]}
                             ELSE d.named],
                  <<s>>, child)
        Visit(d, s) ==
            IF s.kind = "fork"
            THEN FoldLeft(LAMBDA e, b : Branch(e, s, b), d, [b \in DOMAIN s.branches |-> b])
            ELSE FoldLeft(LAMBDA e, b : CollectForks(e, b, parent), d, Bodies(s))
    IN  FoldLeft(Visit, c, list)

\* The block labels of a process, in the order they are met; the branches of a
\* fork are processes of their own and are visited all the same.
RECURSIVE CollectBlockLabels(_, _)
CollectBlockLabels(seen, list) ==
    LET Visit(found, s) ==
            FoldLeft(CollectBlockLabels,
                     IF s.kind = "block" /\ s.label # NoLabel /\ ~Contains(found, s.label)
                     THEN Append(found, s.label) ELSE found,
                     Bodies(s))
    IN  FoldLeft(Visit, seen, list)

\* The label number of a block name of the process.
LabelOf(name, names) == CHOOSE l \in DOMAIN names : names[l] = name

(***************************************************************************)
(* The emitter: the words so far, the offset every label is bound to, the  *)
(* places where a label's offset is still to be written, the places where  *)
(* an offset of another process is, and whether every statement so far     *)
(* could be compiled.                                                      *)
(***************************************************************************)
Unbound == -1
Instr(op, arg) == [op |-> op, arg |-> arg]
Word(n)        == [op |-> "data", arg |-> n]

NewEmitter(names) ==
    [words |-> <<>>, labels |-> [l \in DOMAIN names |-> Unbound],
     patches |-> <<>>, cross |-> <<>>, ok |-> TRUE]

EmitWords(e, ws) == [e EXCEPT !.words = @ \o ws]
BindLabel(e, l)  == [e EXCEPT !.labels[l] = Len(e.words)]
Patched(e, w, l) ==
    [EmitWords(e, <<w>>) EXCEPT !.patches = Append(@, [at |-> Len(e.words), label |-> l])]

(***************************************************************************)
(* The pieces a statement is assembled from.                               *)
(***************************************************************************)
Emit(op, arg)  == [piece |-> "word", word |-> Instr(op, arg)]
Operand(n)     == [piece |-> "word", word |-> Word(n)]
LabelWord(l)   == [piece |-> "label", word |-> Word(0), label |-> l]
Jump(l)        == [piece |-> "label", word |-> Instr("jump", 0), label |-> l]
Bind(l)        == [piece |-> "bind", label |-> l]
Body(list)     == [piece |-> "body", list |-> list]
CrossWord(p, l) == [piece |-> "cross", pid |-> p, label |-> l]
Unsupported    == [piece |-> "unsupported"]

JumpIf(cond, l) == <<Emit("jump_if", cond), LabelWord(l)>>
CallService(id) == <<Emit("service_call", id), Emit("wait_service", 0)>>

EmitAssign(s) ==
    CASE s.how = "procedural" -> <<Unsupported>>
      [] s.how = "delayed" -> <<Emit("assign_delay", s.id)>>
      [] s.how = "service" -> CallService(s.id) \o <<Emit("service_store", s.id)>>
      [] s.how = "nonblocking" -> <<Emit("assign_nb", s.id)>>
      [] s.how = "blocking" -> <<Emit("assign", s.id)>>

\* A mutant of EmitIf: the else part falls through into the then part.
EmitIfFallsThrough(s, n) ==
    JumpIf(s.id, n) \o <<Body(s.else), Bind(n), Body(s.then), Bind(n + 1)>>

EmitIf(s, n) ==
    LET then == n
        end == n + 1
        else == IF s.else = <<>> THEN end ELSE n + 2
    IN  IF s.call = "none"
        THEN JumpIf(s.id, then) \o
             <<Body(s.else), Jump(end), Bind(then), Body(s.then), Bind(end)>>
        ELSE CallService(s.id) \o
             <<Emit("answer", s.call = "inverted"), LabelWord(then), LabelWord(else)>> \o
             (IF s.else = <<>> THEN <<>> ELSE <<Bind(else), Body(s.else), Jump(end)>>) \o
             <<Bind(then), Body(s.then), Bind(end)>>

\* A mutant of EmitFor: the label of the test is bound after the step.
EmitForBindsLate(s, n) ==
    <<Emit("assign", <<"init", s.id>>)>> \o JumpIf(s.id, n + 1) \o
    <<Jump(n + 2), Bind(n + 1), Body(s.body), Emit("assign", <<"step", s.id>>), Bind(n), Jump(n), Bind(n + 2)>>

EmitFor(s, n) ==
    <<Emit("assign", <<"init", s.id>>), Bind(n)>> \o JumpIf(s.id, n + 1) \o
    <<Jump(n + 2), Bind(n + 1), Body(s.body), Emit("assign", <<"step", s.id>>), Jump(n), Bind(n + 2)>>

EmitWhile(s, n) ==
    <<Bind(n)>> \o
    (IF s.call = "none" THEN Append(JumpIf(s.id, n + 1), Jump(n + 2))
     ELSE CallService(s.id) \o
          <<Emit("answer", s.call = "inverted"), LabelWord(n + 1), LabelWord(n + 2)>>) \o
    <<Bind(n + 1), Body(s.body), Jump(n), Bind(n + 2)>>

EmitCase(s, n) ==
    LET items == DOMAIN s.items
        default == IF s.default = <<>> THEN n ELSE n + Len(s.items) + 1
    IN  IF ~s.table THEN <<Unsupported>>
        ELSE <<Emit("case", s.id), Operand(Len(s.items))>> \o
             [i \in items |-> LabelWord(n + i)] \o <<LabelWord(default)>> \o
             FlattenSeq([i \in items |-> <<Bind(n + i), Body(s.items[i]), Jump(n)>>]) \o
             (IF s.default = <<>> THEN <<>> ELSE <<Bind(default), Body(s.default), Jump(n)>>) \o
             <<Bind(n)>>

EmitRepeat(s, n) ==
    IF s.count # NotConstant /\ s.count <= UnrollLimit
    THEN [i \in 1..s.count |-> Body(s.body)]
    ELSE <<Bind(n), Emit("repeat", <<s.id, s.count>>), LabelWord(n + 1), LabelWord(n + 2),
           Bind(n + 1), Body(s.body), Jump(n), Bind(n + 2)>>

\* A disable is resolved against the blocks of the process, then the branches it
\* forks, then its siblings, then the blocks of any process.
EmitDisable(s, ctx) ==
    LET Child(p) == {n \in ctx.named : n.parent = p /\ n.label = s.target}
        siblings == IF ctx.parent = NoParent THEN {} ELSE Child(ctx.parent)
        child == IF Child(ctx.pid) # {} THEN Child(ctx.pid) ELSE siblings
    IN  IF Contains(ctx.names, s.target)
        THEN <<Emit("disable", "block"), LabelWord(LabelOf(s.target, ctx.names))>>
        ELSE IF child # {}
        THEN <<Emit("disable", "child"), Operand((CHOOSE c \in child : TRUE).pid)>>
        ELSE IF s.target \in DOMAIN ctx.global
        THEN <<Emit("disable", "cross"), Operand(ctx.global[s.target].pid),
               CrossWord(ctx.global[s.target].pid, ctx.global[s.target].label)>>
        ELSE <<Unsupported>>

EmitFork(s, ctx) ==
    <<Emit("fork", Len(s.branches))>> \o
    [b \in DOMAIN s.branches |-> Operand((CHOOSE c \in ctx.children : c[1] = s.id /\ c[2] = b)[3])]

\* How many labels a statement creates.
LabelCount(s) ==
    CASE s.kind = "if" -> IF s.call = "none" \/ s.else = <<>> THEN 2 ELSE 3
      [] s.kind \in {"for", "while"} -> 3
      [] s.kind = "case" -> IF ~s.table THEN 0
                            ELSE Len(s.items) + (IF s.default = <<>> THEN 1 ELSE 2)
      [] s.kind = "repeat" -> IF s.count # NotConstant /\ s.count <= UnrollLimit THEN 0 ELSE 3
      [] s.kind = "forever" -> 1
      [] OTHER -> 0

\* The pieces of a statement whose first new label is n.
Pieces(s, n, ctx) ==
    CASE s.kind = "assign" -> EmitAssign(s)
      [] s.kind = "if" -> EmitIf(s, n)
      [] s.kind = "for" -> EmitFor(s, n)
      [] s.kind = "while" -> EmitWhile(s, n)
      [] s.kind = "case" -> EmitCase(s, n)
      [] s.kind = "repeat" -> EmitRepeat(s, n)
      [] s.kind = "block" ->
            IF s.label = NoLabel THEN <<Body(s.body)>>
            ELSE <<Body(s.body), Bind(LabelOf(s.label, ctx.names))>>
      [] s.kind = "delay" -> <<Emit("wait_time", s.id), Body(s.body)>>
      [] s.kind = "event" ->
            <<Emit(IF s.named THEN "wait_event" ELSE "wait_edge", s.id), Body(s.body)>>
      [] s.kind = "wait" -> <<Emit("wait_cond", s.id), Operand(s.id), Body(s.body)>>
      [] s.kind = "forever" -> <<Bind(n), Body(s.body), Jump(n)>>
      [] s.kind = "disable" -> EmitDisable(s, ctx)
      [] s.kind = "fork" -> EmitFork(s, ctx)
      [] s.kind \in {"force", "release", "trigger"} -> <<Emit(s.kind, s.id)>>
      [] s.kind = "system_task" -> <<Emit("service_call", s.id)>>
      [] s.kind = "task" -> <<Unsupported>>

\* The words of a list of statements are added to the emitter; at the first piece
\* that cannot be compiled the emitter stops, with the words it has.
RECURSIVE EmitSchedulerVmStatements(_, _, _)
EmitSchedulerVmStatements(e, list, ctx) ==
    LET Add(f, p) ==
            IF ~f.ok THEN f
            ELSE CASE p.piece = "word" -> EmitWords(f, <<p.word>>)
                   [] p.piece = "label" -> Patched(f, p.word, p.label)
                   [] p.piece = "bind" -> BindLabel(f, p.label)
                   [] p.piece = "body" -> EmitSchedulerVmStatements(f, p.list, ctx)
                   [] p.piece = "cross" ->
                         [EmitWords(f, <<Word(0)>>) EXCEPT
                            !.cross = Append(@, [at |-> Len(f.words), pid |-> p.pid, label |-> p.label])]
                   [] p.piece = "unsupported" -> [f EXCEPT !.ok = FALSE]
        AddStatement(f, s) ==
            IF ~f.ok THEN f
            ELSE FoldLeft(Add,
                          [f EXCEPT !.labels = @ \o [i \in 1..LabelCount(s) |-> Unbound]],
                          Pieces(s, Len(f.labels) + 1, ctx))
    IN  FoldLeft(AddStatement, e, list)

\* Every place a label is used gets the offset of the label.
PatchLabels(e) ==
    FoldLeft(LAMBDA words, x : [words EXCEPT ![x.at + 1].arg = e.labels[x.label]], e.words, e.patches)

LabelsBound(e) == \A i \in DOMAIN e.patches : e.labels[e.patches[i].label] # Unbound

(***************************************************************************)
(* The layout of a program: [blocks, tasks].                               *)
(***************************************************************************)
Procs(program) ==
    LET blocks == RootBlocks(program.blocks)
        Root(b) == [body |-> ExpandTasksInStatements(RootBody(b), program.tasks, {}),
                    parent |-> NoParent]
        roots == MapSeq(Root, blocks)
    IN  FoldLeft(LAMBDA c, i : CollectForks(c, roots[i].body, i),
                 [procs |-> roots, children |-> {}, named |-> {}], Indices(roots))

\* The process and the label of every block name: the first process that lists it.
GlobalBlockTargets(names) ==
    [l \in UNION {Range(names[p]) : p \in DOMAIN names} |->
        LET p == CHOOSE q \in DOMAIN names : /\ Contains(names[q], l)
                                             /\ \A r \in 1..(q - 1) : ~Contains(names[r], l)
        IN  [pid |-> p, label |-> LabelOf(l, names[p])]]

\* A process that cannot be compiled ends in a call of its group's function.
EmitProc(body, ctx) ==
    LET e == EmitSchedulerVmStatements(NewEmitter(ctx.names), body, ctx)
    IN  IF e.ok THEN EmitWords(e, <<Instr("done", 0)>>)
        ELSE EmitWords(e, <<Instr("call_group", 0), Instr("done", 0)>>)

BuildLayout(program) ==
    LET c == Procs(program)
        pids == Indices(c.procs)
        names == MapSeq(LAMBDA p : CollectBlockLabels(<<>>, p.body), c.procs)
        Ctx(p) == [pid |-> p, parent |-> c.procs[p].parent, names |-> names[p],
                   children |-> c.children, named |-> c.named, global |-> GlobalBlockTargets(names)]
        emitted == MapSeq(LAMBDA p : EmitProc(c.procs[p].body, Ctx(p)), pids)
        Offset(x) == emitted[x.pid].labels[x.label]
        Words(e) ==
            FoldLeft(LAMBDA words, x : [words EXCEPT ![x.at + 1].arg = Offset(x)],
                     IF e.ok THEN PatchLabels(e) ELSE e.words, e.cross)
    IN  [procs |-> c.procs,
         ok |-> \A p \in DOMAIN emitted :
                    /\ emitted[p].ok => LabelsBound(emitted[p])
                    /\ \A x \in Range(emitted[p].cross) : Offset(x) # Unbound,
         code |-> MapSeq(Words, emitted)]

\* Whether the kernel is generated with a group function to call: only the first
\* word of each process is looked at.
VmLayoutNeedsCallGroup(layout) ==
    \E p \in DOMAIN layout.code : layout.code[p][1].op = "call_group"
=============================================================================
