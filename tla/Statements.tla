----------------------------- MODULE Statements -----------------------------
(***************************************************************************)
(* The procedural statements of a module (ast.hh Statement) and what they  *)
(* mean: the order in which a process performs the operations another part *)
(* of the system can see.  This is the reference the bytecode compiler and *)
(* its interpreter (VmCompile, VmExec) are compared with.                  *)
(*                                                                         *)
(* A statement is a record; its expressions are reduced to an identity id, *)
(* for what an expression computes never matters to the order.  The value  *)
(* of a condition, a case selector or a repeat count is chosen by whoever  *)
(* executes the statement.  A block without a label has the label NoLabel. *)
(***************************************************************************)
EXTENDS Integers, Sequences, SequencesExt

NoLabel == "none"
NotConstant == -1

\* The sequence of the images of the elements.
MapSeq(Op(_), s) == FoldLeft(LAMBDA images, x : Append(images, Op(x)), <<>>, s)
Indices(s) == [i \in DOMAIN s |-> i]

Leaf(k, i)   == [kind |-> k, id |-> i]
Assign(i, h) == [kind |-> "assign", id |-> i, how |-> h]
If(i, c, t, e)   == [kind |-> "if", id |-> i, call |-> c, then |-> t, else |-> e]
While(i, c, b)   == [kind |-> "while", id |-> i, call |-> c, body |-> b]
For(i, b)        == [kind |-> "for", id |-> i, body |-> b]
Case(i, t, s, d) == [kind |-> "case", id |-> i, table |-> t, items |-> s, default |-> d]
Repeat(i, n, b)  == [kind |-> "repeat", id |-> i, count |-> n, body |-> b]
Block(l, b)      == [kind |-> "block", label |-> l, body |-> b]
Delay(i, b)      == [kind |-> "delay", id |-> i, body |-> b]
Event(i, n, b)   == [kind |-> "event", id |-> i, named |-> n, body |-> b]
Wait(i, b)       == [kind |-> "wait", id |-> i, body |-> b]
Forever(b)       == [kind |-> "forever", body |-> b]
Fork(i, b)       == [kind |-> "fork", id |-> i, branches |-> b]
Disable(l)       == [kind |-> "disable", target |-> l]
TaskCall(t)      == [kind |-> "task", task |-> t]

\* The statement lists nested directly in a statement, in the order the
\* collectors of the compiler visit them.
Bodies(s) ==
    CASE s.kind = "if" -> <<s.then, s.else>>
      [] s.kind = "case" -> s.items \o <<s.default>>
      [] s.kind = "fork" -> [b \in DOMAIN s.branches |-> <<s.branches[b]>>]
      [] s.kind \in {"while", "for", "repeat", "block", "delay", "event", "wait",
                     "forever"} -> <<s.body>>
      [] OTHER -> <<>>

(***************************************************************************)
(* The source semantics: a continuation is the sequence of what a process  *)
(* still has to do.  Besides statements it holds single operations (do),   *)
(* the end of a labelled block (leave), a loop about to test its condition *)
(* (loop), the branch on an answer (answer) and the copies a repeat has    *)
(* left (times).                                                           *)
(***************************************************************************)
Do(op, arg)  == [kind |-> "do", op |-> op, arg |-> arg]
Leave(l)     == [kind |-> "leave", label |-> l]
Loop(s)      == [kind |-> "loop", of |-> s]
Answer(s)    == [kind |-> "answer", of |-> s]
Times(s, n)  == [kind |-> "times", of |-> s, left |-> n]

Request(s) == <<Do("service_call", s.id), Do("wait_service", 0)>>

\* The operations of an assignment.
AssignOps(s) ==
    CASE s.how = "service" -> Request(s) \o <<Do("service_store", s.id)>>
      [] s.how = "blocking" -> <<Do("assign", s.id)>>
      [] s.how = "nonblocking" -> <<Do("assign_nb", s.id)>>
      [] s.how = "delayed" -> <<Do("assign_delay", s.id)>>
      [] OTHER -> <<Do("procedural", s.id)>>

\* What follows the body of a statement that is not over with it.
AfterBody(s) ==
    CASE s.kind = "for" -> <<Do("assign", <<"step", s.id>>), Loop(s)>>
      [] s.kind \in {"while", "forever"} -> <<s>>
      [] s.kind = "block" -> <<Leave(s.label)>>
      [] OTHER -> <<>>

\* What a statement that is not itself visible stands for.
Meaning(s, tasks) ==
    CASE s.kind = "assign" -> AssignOps(s)
      [] s.kind \in {"force", "release", "trigger"} -> <<Do(s.kind, s.id)>>
      [] s.kind = "system_task" -> <<Do("service_call", s.id)>>
      [] s.kind \in {"block", "forever"} -> s.body \o AfterBody(s)
      [] s.kind = "delay" -> <<Do("wait_time", s.id)>> \o s.body
      [] s.kind = "event" -> <<Do(IF s.named THEN "wait_event" ELSE "wait_edge", s.id)>> \o s.body
      [] s.kind = "wait" -> <<Do("wait_cond", s.id)>> \o s.body
      [] s.kind = "for" -> <<Do("assign", <<"init", s.id>>), Loop(s)>>
      [] s.kind = "while" -> IF s.call = "none" THEN <<Loop(s)>> ELSE Request(s) \o <<Answer(s)>>
      [] s.kind = "if" -> Request(s) \o <<Answer(s)>>
      [] s.kind = "repeat" -> <<Times(s, s.count)>>
      [] s.kind = "times" ->
            IF s.left = 0 THEN <<>> ELSE s.of.body \o <<Times(s.of, s.left - 1)>>
      [] s.kind = "task" -> tasks[s.task]
      [] s.kind = "leave" -> <<>>

\* The statements that are one visible operation as they stand.
Visible(s) ==
    \/ s.kind \in {"do", "loop", "answer", "case", "fork", "disable"}
    \/ s.kind = "if" /\ s.call = "none"
    \/ s.kind = "repeat" /\ s.count = NotConstant

\* A disable of a block the process is in leaves everything up to its end.
LeavesBlock(k) ==
    /\ Head(k).kind = "disable"
    /\ \E i \in 2..Len(k) : k[i].kind = "leave" /\ k[i].label = Head(k).target

AfterLeave(k) ==
    LET ends == {i \in 2..Len(k) : k[i].kind = "leave" /\ k[i].label = Head(k).target}
        first == CHOOSE i \in ends : \A j \in ends : i <= j
    IN  SubSeq(k, first + 1, Len(k))

\* The continuation from the next visible operation on.
RECURSIVE Settle(_, _)
Settle(k, tasks) ==
    IF k = <<>> THEN k
    ELSE IF LeavesBlock(k) THEN Settle(AfterLeave(k), tasks)
    ELSE IF Visible(Head(k)) THEN k
    ELSE Settle(Meaning(Head(k), tasks) \o Tail(k), tasks)

\* The visible operation at the head of a settled continuation.
NextOp(k) ==
    IF k = <<>> THEN <<"done">>
    ELSE LET s == Head(k) IN
         CASE s.kind = "do" -> <<s.op, s.arg>>
           [] s.kind = "if" -> <<"cond", s.id>>
           [] s.kind = "loop" -> <<"cond", s.of.id>>
           [] s.kind = "answer" -> <<"answer">>
           [] s.kind = "case" -> <<"case", s.id>>
           [] s.kind = "repeat" -> <<"count", s.id>>
           [] s.kind = "fork" -> <<"fork", Len(s.branches)>>
           [] s.kind = "disable" -> <<"disable", s.target>>

\* The list a test with the given outcome selects.
Chosen(s, yes) ==
    IF s.kind = "if" THEN (IF yes THEN s.then ELSE s.else)
    ELSE IF yes THEN s.body \o AfterBody(s) ELSE <<>>

\* What is left after the operation at the head has been performed; the outcome
\* is the truth value of a condition or of an answer, the index of the matching
\* case item (0 for none) or the value of a repeat count.
After(k, outcome, tasks) ==
    IF k = <<>> THEN k
    ELSE LET s == Head(k)
             next == CASE s.kind = "if" -> Chosen(s, outcome)
                       [] s.kind = "loop" -> Chosen(s.of, outcome)
                       [] s.kind = "answer" -> Chosen(s.of, outcome # (s.of.call = "inverted"))
                       [] s.kind = "case" -> IF outcome = 0 THEN s.default ELSE s.items[outcome]
                       [] s.kind = "repeat" -> <<Times(s, outcome)>>
                       [] OTHER -> <<>>
         IN  Settle(next \o Tail(k), tasks)

\* What follows a labelled block wherever the list holds it: where a process
\* goes on when another one disables the block it is in.
RECURSIVE Beyond(_, _)
Beyond(list, label) ==
    UNION {LET s == list[i]
               rest == SubSeq(list, i + 1, Len(list))
               inner == IF s.kind = "fork" THEN {} ELSE Range(Bodies(s))
           IN  (IF s.kind = "block" /\ s.label = label THEN {rest} ELSE {})
               \cup {k \o AfterBody(s) \o rest : k \in UNION {Beyond(b, label) : b \in inner}}
           : i \in DOMAIN list}
=============================================================================
