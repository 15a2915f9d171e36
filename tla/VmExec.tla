------------------------------- MODULE VmExec -------------------------------
(***************************************************************************)
(* A process executed by the interpreter of the scheduler kernel           *)
(* (msl_codegen.cc, the body of sched_vm_exec), in step with its source    *)
(* text.  One action is one instruction.  The environment decides what the *)
(* source leaves open: the value of a condition, of an answer, of a case   *)
(* selector and of a repeat count.                                         *)
(*                                                                         *)
(* The walk follows one process at a time.  At a fork it follows the       *)
(* parent or one of the branches, at the disable of a block of another     *)
(* process it follows either of the two; how the processes interleave is   *)
(* the subject of Scheduler.                                               *)
(***************************************************************************)
EXTENDS VmCompile

CONSTANTS Programs,        \* the programs, [blocks, tasks], by name
          Admitted(_, _),  \* which of them are executed, given their layout
          MaxCount         \* the largest count a repeat that is not constant evaluates to

ASSUME VmExecAssumption == MaxCount \in Nat /\ UnrollLimit \in Nat

VARIABLES program,   \* the program that runs
          layout,    \* the buffers the host uploads for it
          pid,       \* the process that is followed
          ip,        \* sched_vm_ip: its next word
          left,      \* sched_repeat_left of the repeats whose sched_repeat_active is set
          status,    \* "ready", "blocked", "done", "error"; "rejected": no layout
          src,       \* what the source text has left to do, settled
          last,      \* the last visible operation: as executed and as the source has it
          quiet      \* the instructions since then

vars == <<program, layout, pid, ip, left, status, src, last, quiet>>
run == <<program, layout>>

Tasks == Programs[program].tasks
Code == layout.code[pid]
SourceOfProc(p) ==
    LET roots == RootBlocks(Programs[program].blocks)
    IN  IF p \in DOMAIN roots THEN SourceOf(roots[p]) ELSE layout.procs[p].body

Nothing == [vm |-> <<"nothing">>, src |-> <<"nothing">>]

Init ==
    /\ program \in DOMAIN Programs
    /\ layout = BuildLayout(Programs[program])
    /\ Admitted(Programs[program], layout)
    /\ pid \in {p \in DOMAIN layout.procs : layout.procs[p].parent = NoParent}
    /\ ip = 0
    /\ left = <<>>
    /\ status = IF layout.ok THEN "ready" ELSE "rejected"
    /\ src = Settle(SourceOfProc(pid), Tasks)
    /\ last = Nothing
    /\ quiet = 0

(***************************************************************************)
(* The instruction at ip.                                                  *)
(***************************************************************************)
Fetch(op) == /\ status = "ready"
             /\ ip < Len(Code)
             /\ Code[ip + 1].op = op

Arg == Code[ip + 1].arg
OperandAt(i) == Code[ip + 1 + i].arg
InCode(target) == target < Len(Code)

\* The visible operation op is performed with an outcome: the source text goes on
\* past the operation it has next.
Perform(op, outcome) ==
    /\ last' = [vm |-> op, src |-> NextOp(src)]
    /\ src' = IF NextOp(src) = op THEN After(src, outcome, Tasks) ELSE <<>>
    /\ quiet' = 0

Silent == quiet' = quiet + 1 /\ UNCHANGED <<src, last>>

\* sched_error: the process ends.
Fail ==
    /\ status' = "error"
    /\ ip' = 0
    /\ last' = [vm |-> <<"error">>, src |-> NextOp(src)]
    /\ quiet' = 0
    /\ UNCHANGED <<run, pid, left, src>>

Goto(target) == ip' = target
Stay == UNCHANGED <<run, pid, left, status>>

(***************************************************************************)
(* Instructions that go on with the next word, and those that block the    *)
(* process at it.                                                          *)
(***************************************************************************)
Immediate == {"assign", "assign_nb", "assign_delay", "force", "release", "trigger",
              "service_call", "service_store"}
Waiting == {"wait_time", "wait_event", "wait_edge", "wait_service"}

ExecImmediate(op) ==
    /\ Fetch(op)
    /\ Perform(<<op, Arg>>, TRUE)
    /\ Goto(ip + 1)
    /\ Stay

ExecWaiting(op) ==
    /\ Fetch(op)
    /\ Perform(<<op, Arg>>, TRUE)
    /\ Goto(ip + 1)
    /\ status' = "blocked"
    /\ UNCHANGED <<run, pid, left>>

\* A condition that holds is not waited for.
ExecWaitCond ==
    /\ Fetch("wait_cond")
    /\ Perform(<<"wait_cond", Arg>>, TRUE)
    /\ Goto(ip + 2)
    /\ \E holds \in BOOLEAN : status' = IF holds THEN "ready" ELSE "blocked"
    /\ UNCHANGED <<run, pid, left>>

\* What the process waited for has happened.
Resume ==
    /\ status = "blocked"
    /\ status' = "ready"
    /\ UNCHANGED <<run, pid, ip, left, src, last, quiet>>

(***************************************************************************)
(* Control flow.                                                           *)
(***************************************************************************)
ExecJump ==
    /\ Fetch("jump")
    /\ IF InCode(Arg) THEN Goto(Arg) /\ Silent /\ Stay ELSE Fail

ExecJumpIf ==
    /\ Fetch("jump_if")
    /\ IF ~InCode(OperandAt(1)) THEN Fail
       ELSE \E take \in BOOLEAN :
              /\ Perform(<<"cond", Arg>>, take)
              /\ Goto(IF take THEN OperandAt(1) ELSE ip + 2)
              /\ Stay

\* The branch on an answer; the argument says whether the source negates it.
ExecAnswer ==
    /\ Fetch("answer")
    /\ IF ~(InCode(OperandAt(1)) /\ InCode(OperandAt(2))) THEN Fail
       ELSE \E answer \in BOOLEAN :
              /\ Perform(<<"answer">>, answer)
              /\ Goto(OperandAt(IF answer # Arg THEN 1 ELSE 2))
              /\ Stay

\* The selector matches one of the items, or none.
ExecCase ==
    /\ Fetch("case")
    /\ LET count == OperandAt(1)
       IN  \E match \in 0..count :
              LET target == OperandAt(1 + (IF match = 0 THEN count + 1 ELSE match))
              IN  IF ~InCode(target) THEN Fail
                  ELSE Perform(<<"case", Arg>>, match) /\ Goto(target) /\ Stay

\* Mutant of RepeatRound: the slot stays active at the end.
RepeatRoundStaysActive(r, n, body, after) ==
    IF n = 0 \/ body = after THEN Goto(after) /\ UNCHANGED left
    ELSE /\ Goto(body)
         /\ left' = [q \in DOMAIN left \cup {r} |-> IF q = r THEN n - 1 ELSE left[q]]

\* One round of the repeat r with n iterations left: its slot is cleared when it is over.
RepeatRound(r, n, body, after) ==
    IF n = 0 \/ body = after
    THEN Goto(after) /\ left' = [q \in DOMAIN left \ {r} |-> left[q]]
    ELSE /\ Goto(body)
         /\ left' = [q \in DOMAIN left \cup {r} |-> IF q = r THEN n - 1 ELSE left[q]]

\* The count is evaluated when the repeat is entered.
ExecRepeat ==
    /\ Fetch("repeat")
    /\ LET body == OperandAt(1)
           after == OperandAt(2)
       IN  IF ~(InCode(body) /\ InCode(after)) THEN Fail
           ELSE /\ IF Arg \in DOMAIN left THEN RepeatRound(Arg, left[Arg], body, after) /\ Silent
                   ELSE IF Arg[2] # NotConstant THEN RepeatRound(Arg, Arg[2], body, after) /\ Silent
                   ELSE \E n \in 0..MaxCount :
                          RepeatRound(Arg, n, body, after) /\ Perform(<<"count", Arg[1]>>, n)
                /\ UNCHANGED <<run, pid, status>>

\* The children start at their first word and the parent waits for them.
ExecFork ==
    /\ Fetch("fork")
    /\ \/ /\ Perform(<<"fork", Arg>>, TRUE)
          /\ Goto(ip + 1 + Arg)
          /\ status' = "blocked"
          /\ UNCHANGED <<run, pid, left>>
       \/ /\ NextOp(src) = <<"fork", Arg>>
          /\ \E c \in 1..Arg :
                /\ pid' = OperandAt(c)
                /\ src' = Settle(<<Head(src).branches[c]>>, Tasks)
          /\ Goto(0)
          /\ left' = <<>>
          /\ last' = Nothing
          /\ quiet' = 0
          /\ UNCHANGED <<run, status>>

(***************************************************************************)
(* disable.                                                                *)
(***************************************************************************)
ExecDisableBlock ==
    /\ Fetch("disable") /\ Arg = "block"
    /\ IF InCode(OperandAt(1)) THEN Goto(OperandAt(1)) /\ Silent /\ Stay ELSE Fail

\* A branch is ended.
ExecDisableChild ==
    /\ Fetch("disable") /\ Arg = "child"
    /\ Perform(<<"disable", layout.procs[OperandAt(1)].body[1].label>>, TRUE)
    /\ Goto(ip + 2)
    /\ Stay

\* A process is taken to the end of one of its blocks.
ExecDisableCross ==
    /\ Fetch("disable") /\ Arg = "cross"
    /\ LET target == OperandAt(1)
           label == NextOp(src)[2]
           beyond == Beyond(SourceOfProc(target), label)
       IN  IF OperandAt(2) >= Len(layout.code[target]) THEN Fail
           ELSE \/ /\ Perform(<<"disable", IF beyond = {} THEN NoLabel ELSE label>>, TRUE)
                   /\ Goto(ip + 3)
                   /\ Stay
                \/ /\ \E k \in beyond : src' = Settle(k, Tasks)
                   /\ pid' = target
                   /\ Goto(OperandAt(2))
                   /\ left' = <<>>
                   /\ last' = Nothing
                   /\ quiet' = 0
                   /\ UNCHANGED <<run, status>>

(***************************************************************************)
(* The end of a process.                                                   *)
(***************************************************************************)
ExecDone ==
    /\ Fetch("done")
    /\ Perform(<<"done">>, TRUE)
    /\ status' = "done"
    /\ Goto(0)
    /\ UNCHANGED <<run, pid, left>>

\* The function of the process group executes the process from its first statement;
\* a kernel generated without one does not know the instruction.
ExecCallGroup ==
    /\ Fetch("call_group")
    /\ IF ~VmLayoutNeedsCallGroup(layout) THEN Fail
       ELSE /\ status' = "done"
            /\ Goto(ip + 1)
            /\ last' = [vm |-> <<"whole process">>,
                        src |-> IF last = Nothing THEN <<"whole process">> ELSE NextOp(src)]
            /\ quiet' = 0
            /\ UNCHANGED <<run, pid, left, src>>

\* Nothing is left to execute.  A process that is ready at a word that is no
\* instruction, or past its last word, has no step: a deadlock.
Stopped == status \in {"done", "error", "rejected"} /\ UNCHANGED vars

Next ==
    \/ \E op \in Immediate : ExecImmediate(op)
    \/ \E op \in Waiting : ExecWaiting(op)
    \/ ExecWaitCond
    \/ Resume
    \/ ExecJump
    \/ ExecJumpIf
    \/ ExecAnswer
    \/ ExecCase
    \/ ExecRepeat
    \/ ExecFork
    \/ ExecDisableBlock
    \/ ExecDisableChild
    \/ ExecDisableCross
    \/ ExecDone
    \/ ExecCallGroup
    \/ Stopped

Spec == Init /\ [][Next]_vars

-----------------------------------------------------------------------------
\* ExecutesTheSource: the operations a process performs - assignments, waits, calls,
\* tests, forks, disables, its end - are those of its source text in the order and
\* with the branches the text gives them; no instruction fails, and every program
\* has a layout.  It relates label placement, unrolling, the else-first layout of
\* branches, the negation of answers, the default of a case, the numbering of
\* branches and the resolution of disable to what the text says.
ExecutesTheSource == status # "rejected" /\ last.vm = last.src

\* NoSilentLoop: between two visible operations a process executes no more
\* instructions than its code has words.  A jump to a wrong label often shows as
\* a loop that never reaches an operation, and the kernel's fetch loop has no bound.
NoSilentLoop == quiet <= Len(Code)

\* NoRepeatLeft: a process that is over has no repeat in progress.  The slots of a
\* repeat are not cleared when a fork starts the process again: a count left behind
\* would be taken for the count of the next entry.
NoRepeatLeft == status = "done" => DOMAIN left = {}

\* CountOnEntry: docs/METAL4_SCHEDULER_VM_PLAN.md, OP_REPEAT: the count is evaluated
\* once on entry.  So where the text enters a repeat its slot has no count yet.
CountOnEntry ==
    status = "ready" /\ ip < Len(Code) /\ Code[ip + 1].op = "repeat"
        /\ NextOp(src) = <<"count", Arg[1]>>
    => Arg \notin DOMAIN left

\* AlwaysNeverEnds: the process of an always block is never over, whatever starts the
\* block.
AlwaysNeverEnds ==
    LET roots == RootBlocks(Programs[program].blocks)
    IN  status = "done" /\ pid \in DOMAIN roots => ~roots[pid].always

\* FallbackRunsWholeProcess: a process the compiler could not translate is executed by
\* the function of its group, once and from its beginning; no instruction fails.
FallbackRunsWholeProcess ==
    /\ status # "error"
    /\ last.vm = <<"whole process">> => last.src = <<"whole process">>
=============================================================================
