--------------------------- MODULE SchedulerProofs ---------------------------
(* Proofs about Scheduler, for every design and every budget that satisfies   *)
(* SchedulerAssumption.                                                       *)
EXTENDS Scheduler, FiniteSetTheorems, TLAPS

\* There are finitely many processes, so a set of them has a size.
LEMMA ProcsFinite ==
  /\ IsFiniteSet(Procs)
  /\ \A S \in SUBSET Procs : IsFiniteSet(S) /\ Cardinality(S) \in Nat
<1>1. 0 \in Int /\ ProcCount - 1 \in Int
  BY SchedulerAssumption
<1>2. IsFiniteSet(Procs)
  BY <1>1, FS_Interval DEF Procs
<1>3. QED
  BY <1>2, FS_Subset, FS_CardinalityType

\* What an instruction of a program holds, by its opcode.
LEMMA InstructionTyped ==
  ASSUME NEW p \in Procs, NEW i \in Program[p]
  PROVE  /\ i \in Statements
         /\ i.op \notin {"ANYWHERE", "WAIT_SERVICE", "NONE"}
         /\ i.op = "ASSIGN" => i.lhs \in Regs /\ i.rhs \in Val \cup Signals
         /\ i.op = "ASSIGN_NB" => i.lhs \in NbTargets /\ i.rhs \in Val \cup Signals
         /\ i.op = "ASSIGN_DELAY" => i \in Delayed
         /\ i.op = "EVENT_TRIGGER" => i.ev \in Events
         /\ i.op = "WAIT_TIME" => i.delay \in Nat
         /\ i.op = "FORK" => \E c \in Procs : Parent[c] = p /\ i.tag = JoinTag[c]
         /\ i.op = "DISABLE_CHILD" => i.pid \in Branches(p)
         /\ i.op = "DISABLE_CROSS" => i.pid \in (0 .. RootCount - 1) \ {p}
<1>1. i \in Statements
  BY DEF Statements
<1>2. i \in Instructions(p)
  BY SchedulerAssumption
<1>3. i \in Delayed => i.op = "ASSIGN_DELAY"
  BY SchedulerAssumption DEF DelayedAssign
<1>4. i.op = "ASSIGN_NB" => i.lhs \in NbTargets
  BY SchedulerAssumption
<1>5. i.op \notin {"ANYWHERE", "WAIT_SERVICE", "NONE"}
  BY <1>2, <1>3 DEF Instructions
<1>6. i.op \in {"ASSIGN", "ASSIGN_NB"} => i.lhs \in Regs /\ i.rhs \in Val \cup Signals
  BY <1>2, <1>3 DEF Instructions
<1>7. /\ i.op = "ASSIGN_DELAY" => i \in Delayed
      /\ i.op = "EVENT_TRIGGER" => i.ev \in Events
      /\ i.op = "WAIT_TIME" => i.delay \in Nat
  BY <1>2, <1>3 DEF Instructions
<1>8. i.op = "FORK" => \E c \in Procs : Parent[c] = p /\ i.tag = JoinTag[c]
  BY <1>2, <1>3 DEF Instructions
<1>9. /\ i.op = "DISABLE_CHILD" => i.pid \in Branches(p)
      /\ i.op = "DISABLE_CROSS" => i.pid \in (0 .. RootCount - 1) \ {p}
  BY <1>2, <1>3 DEF Instructions
<1>10. QED
  BY <1>1, <1>4, <1>5, <1>6, <1>7, <1>8, <1>9


\* What a process may fetch: the rest of a service call, the delayed assignment
\* it came back to, or any instruction of its program.
LEMMA FetchedTyped ==
  ASSUME TypeOK, NEW i \in Fetched
  PROVE  /\ i \in {WaitServiceOp} \cup Statements
         /\ i.op \notin {"ANYWHERE", "NONE"}
         /\ i.op = "ASSIGN" => i.lhs \in Regs /\ i.rhs \in Val \cup Signals
         /\ i.op = "ASSIGN_NB" => i.lhs \in NbTargets /\ i.rhs \in Val \cup Signals
         /\ i.op = "ASSIGN_DELAY" => i \in Delayed \cap Statements
         /\ i.op = "EVENT_TRIGGER" => i.ev \in Events
         /\ i.op = "WAIT_TIME" => i.delay \in Nat
         /\ i.op = "FORK" => \E c \in Procs : Parent[c] = cursor /\ i.tag = JoinTag[c]
         /\ i.op = "DISABLE_CHILD" => i.pid \in Branches(cursor)
         /\ i.op = "DISABLE_CROSS" => i.pid \in (0 .. RootCount - 1) \ {cursor}
<1>1. cursor \in Procs /\ ip[cursor] \in {Anywhere, WaitServiceOp} \cup (Delayed \cap Statements)
  BY DEF TypeOK, ControlTyped, CountersTyped, ProcsTyped
<1>2. CASE ip[cursor] = Anywhere
  BY <1>1, <1>2, InstructionTyped DEF Fetched
<1>3. CASE ip[cursor] # Anywhere /\ ip[cursor] = WaitServiceOp
  BY <1>3 DEF Fetched, WaitServiceOp
<1>4. CASE ip[cursor] \in Delayed \cap Statements
  <2>1. ip[cursor].op = "ASSIGN_DELAY"
    BY <1>4, SchedulerAssumption DEF DelayedAssign
  <2>2. ip[cursor] # Anywhere
    BY <2>1 DEF Anywhere
  <2>3. i = ip[cursor]
    BY <2>2 DEF Fetched
  <2>4. QED
    BY <1>4, <2>1, <2>3
<1>5. QED
  BY <1>1, <1>2, <1>3, <1>4

\* A delayed assignment.
LEMMA DelayedTyped ==
  ASSUME NEW i \in Delayed
  PROVE  /\ i.lhs \in Regs /\ i.rhs \in Val \cup Signals /\ i.delay \in Nat
         /\ i.nb \in BOOLEAN /\ (i.nb => i.lhs \in NbTargets)
BY SchedulerAssumption DEF DelayedAssign

\* An operand has a value.
LEMMA EvalTyped ==
  ASSUME TypeOK, NEW e \in Val \cup Signals
  PROVE  Eval(e) \in Val
BY DEF TypeOK, DataTyped, Eval

\* Settling the nets keeps every signal a value.
LEMMA SettleTyped ==
  ASSUME NEW s \in [Signals -> Val]
  PROVE  Settle(s) \in [Signals -> Val]
BY SchedulerAssumption DEF Settle, Signals

\* Compaction keeps the queue a finite set of entries.
LEMMA CompactedTyped ==
  ASSUME TypeOK, NEW kept \in SUBSET dnba
  PROVE  /\ Compacted(kept) \subseteq
              [slot : Nat, time : Nat, id : {i \in Delayed : i.nb}, val : Val]
         /\ IsFiniteSet(Compacted(kept))
         /\ Cardinality(Compacted(kept)) \in Nat
         /\ \A e \in Compacted(kept) : \E f \in kept :
                e.time = f.time /\ e.id = f.id /\ e.val = f.val
<1>1. IsFiniteSet(kept)
  BY FS_Subset DEF TypeOK, DataTyped
<1>2. \A e \in kept : Cardinality({f \in kept : f.slot < e.slot}) \in Nat
  <2>1. \A e \in kept : {f \in kept : f.slot < e.slot} \in SUBSET kept
    OBVIOUS
  <2>2. QED
    BY <1>1, <2>1, FS_Subset, FS_CardinalityType
<1>3. \A e \in kept : e \in [slot : Nat, time : Nat, id : {i \in Delayed : i.nb}, val : Val]
  BY DEF TypeOK, DataTyped
<1>4. \A e \in Compacted(kept) : \E f \in kept :
          e = [f EXCEPT !.slot = Cardinality({g \in kept : g.slot < f.slot})]
  BY DEF Compacted
<1>5. IsFiniteSet(Compacted(kept))
  <2> DEFINE moved == [e \in kept |-> [e EXCEPT !.slot = Cardinality({f \in kept : f.slot < e.slot})]]
  <2>1. moved \in Surjection(kept, Compacted(kept))
    BY DEF Compacted, Surjection
  <2>2. QED
    BY <1>1, <2>1, FS_Surjection
<1>6. ASSUME NEW e \in Compacted(kept)
      PROVE  /\ e \in [slot : Nat, time : Nat, id : {i \in Delayed : i.nb}, val : Val]
             /\ \E f \in kept : e.time = f.time /\ e.id = f.id /\ e.val = f.val
  <2>1. PICK f \in kept : e = [f EXCEPT !.slot = Cardinality({g \in kept : g.slot < f.slot})]
    BY <1>4
  <2>2. f \in [slot : Nat, time : Nat, id : {i \in Delayed : i.nb}, val : Val]
    BY <1>3
  <2>3. e = [slot |-> Cardinality({g \in kept : g.slot < f.slot}), time |-> f.time,
             id |-> f.id, val |-> f.val]
    BY <2>1, <2>2
  <2>4. QED
    BY <1>2, <2>2, <2>3
<1>7. Cardinality(Compacted(kept)) \in Nat
  BY <1>5, FS_CardinalityType
<1>8. QED
  BY <1>5, <1>6, <1>7

(* Type correctness.                                                          *)

\* Waking processes keeps the two arrays typed.
LEMMA WakeTyped ==
  ASSUME ProcsTyped, NEW W, Wake(W)
  PROVE  /\ state' \in [Procs -> {"READY", "BLOCKED", "DONE"}]
         /\ wait_kind' \in [Procs -> {"NONE", "TIME", "EVENT", "COND", "JOIN",
                                      "DELTA", "EDGE", "SERVICE"}]
BY DEF ProcsTyped, Wake

\* Counting a branch that is over keeps the join arrays typed.
LEMMA CountJoinTyped ==
  ASSUME ProcsTyped, NEW c \in Procs,
         NEW st \in [Procs -> {"READY", "BLOCKED", "DONE"}],
         NEW wk \in [Procs -> {"NONE", "TIME", "EVENT", "COND", "JOIN",
                               "DELTA", "EDGE", "SERVICE"}],
         CountJoin(c, st, wk)
  PROVE  /\ state' \in [Procs -> {"READY", "BLOCKED", "DONE"}]
         /\ wait_kind' \in [Procs -> {"NONE", "TIME", "EVENT", "COND", "JOIN",
                                      "DELTA", "EDGE", "SERVICE"}]
         /\ join_count' \in [Procs -> Nat]
<1>1. Parent[c] # NoParent => Parent[c] \in Procs
  BY SchedulerAssumption
<1>2. Parent[c] \in Procs =>
        (IF join_count[Parent[c]] > 0 THEN join_count[Parent[c]] - 1 ELSE 0) \in Nat
  BY DEF ProcsTyped
<1>3. QED
  BY <1>1, <1>2 DEF ProcsTyped, CountJoin

\* The actions of the host and of sched_step outside the VM.
LEMMA SchedStepTyped ==
  ASSUME TypeOK,
         \/ (\E interrupted \in BOOLEAN : Dispatch(interrupted)) \/ DrainServices
         \/ BeginActive \/ (\E p \in Procs : RunNext(p)) \/ ExecReturns \/ EndPass
         \/ ScanActive \/ CommitNba \/ WakeAfterNba \/ AdvanceTime \/ Quiesce \/ EndStep
  PROVE  TypeOK'
<1> USE DEF TypeOK
<1>1. CASE \E interrupted \in BOOLEAN : Dispatch(interrupted)
  <2>1. PICK interrupted \in BOOLEAN : Dispatch(interrupted)
    BY <1>1
  <2>2. ProcsTyped' /\ DataTyped'
    BY <2>1 DEF Dispatch, procs, waits, data, clock, ProcsTyped, DataTyped
  <2>3. steps' \in Nat
    BY <2>1, SchedulerAssumption DEF Dispatch
  <2>4. QED
    BY <2>1, <2>2, <2>3 DEF Dispatch, clock, ControlTyped, CountersTyped
<1>2. CASE DrainServices
  <2>1. wait_time' \in [Procs -> Nat]
    BY <1>2, SchedulerAssumption DEF DrainServices, ProcsTyped
  <2>2. sig' \in [Signals -> Val]
    BY <1>2, SchedulerAssumption DEF DrainServices, DataTyped
  <2>3. ProcsTyped'
    BY <1>2, <2>1, WakeTyped DEF DrainServices, ProcsTyped
  <2>4. DataTyped'
    BY <1>2, <2>2 DEF DrainServices, DataTyped
  <2>5. ControlTyped'
    BY <1>2 DEF DrainServices, clock, outcome, control, ControlTyped, CountersTyped
  <2>6. QED
    BY <2>3, <2>4, <2>5
<1>3. CASE BeginActive
  <2>1. ProcsTyped'
    BY <1>3 DEF BeginActive, procs, waits, ProcsTyped
  <2>2. NbSnapshot \in [NbTargets -> Val]
    <3>1. \A t \in NbTargets : LastDue(t) \subseteq dnba
      BY DEF LastDue, Due
    <3>2. \A t \in NbTargets : LastDue(t) # {} => (CHOOSE e \in LastDue(t) : TRUE).val \in Val
      BY <3>1 DEF DataTyped
    <3>3. \A t \in NbTargets : sig[t] \in Val
      BY SchedulerAssumption DEF DataTyped, Signals
    <3>4. QED
      BY <3>2, <3>3 DEF NbSnapshot
  <2>3. dnba' \subseteq [slot : Nat, time : Nat, id : {i \in Delayed : i.nb}, val : Val]
        /\ IsFiniteSet(dnba')
    BY <1>3, CompactedTyped DEF BeginActive, DataTyped
  <2>4. sig' \in [Signals -> Val]
    BY <1>3, SettleTyped DEF BeginActive, DataTyped
  <2>5. DataTyped'
    BY <1>3, <2>2, <2>3, <2>4 DEF BeginActive, DataTyped
  <2>6. 0 \in Procs
    BY SchedulerAssumption DEF Procs
  <2>7. ControlTyped'
    BY <1>3, <2>6 DEF BeginActive, outcome, ControlTyped, CountersTyped
  <2>8. QED
    BY <2>1, <2>5, <2>7
<1>4. CASE \E p \in Procs : RunNext(p)
  <2>1. PICK p \in Procs : RunNext(p)
    BY <1>4
  <2>2. ProcsTyped' /\ DataTyped'
    BY <2>1 DEF RunNext, procs, waits, data, ProcsTyped, DataTyped
  <2>3. steps' \in Nat /\ burst' \in 0 .. MaxBurst
    BY <2>1, SchedulerAssumption DEF RunNext, ControlTyped, CountersTyped
  <2>4. QED
    BY <2>1, <2>2, <2>3 DEF RunNext, clock, outcome, ControlTyped, CountersTyped
<1>5. CASE ExecReturns
  <2>1. cursor \in Procs
    BY DEF ControlTyped, CountersTyped
  <2>2. ProcsTyped'
    BY <1>5, <2>1, CountJoinTyped DEF ExecReturns, ProcsTyped
  <2>3. DataTyped' /\ ControlTyped'
    BY <1>5 DEF ExecReturns, data, clock, outcome, DataTyped, ControlTyped, CountersTyped
  <2>4. QED
    BY <2>2, <2>3
<1>6. CASE EndPass
  BY <1>6 DEF StepsLeft, EndPass, procs, waits, data, clock, outcome, ProcsTyped, DataTyped, ControlTyped, CountersTyped
<1>7. CASE ScanActive
  <2>1. ProcsTyped'
    BY <1>7, WakeTyped DEF ScanActive, ProcsTyped
  <2>2. edge_prev' \in [Procs -> [Signals -> Val]]
    BY <1>7 DEF ScanActive, Sampled, DataTyped
  <2>3. DataTyped' /\ ControlTyped'
    BY <1>7, <2>2 DEF StepsLeft, ScanActive, outcome, DataTyped, ControlTyped, CountersTyped
  <2>4. QED
    BY <2>1, <2>3
<1>8. CASE CommitNba
  <2>1. Committed \in [Signals -> Val]
    BY DEF Committed, DataTyped
  <2>2. sig' \in [Signals -> Val]
    BY <1>8, <2>1, SettleTyped DEF CommitNba
  <2>3. ProcsTyped'
    BY <1>8 DEF CommitNba, procs, waits, ProcsTyped
  <2>4. DataTyped' /\ ControlTyped'
    BY <1>8, <2>2 DEF CommitNba, clock, outcome, DataTyped, ControlTyped, CountersTyped
  <2>5. QED
    BY <2>3, <2>4
<1>9. CASE WakeAfterNba
  <2>1. ProcsTyped'
    BY <1>9, WakeTyped DEF WakeAfterNba, ProcsTyped
  <2>2. edge_prev' \in [Procs -> [Signals -> Val]]
    BY <1>9 DEF WakeAfterNba, Sampled, DataTyped
  <2>3. steps' \in Nat
    BY <1>9 DEF WakeAfterNba, StepsLeft, ControlTyped, CountersTyped
  <2>4. DataTyped' /\ ControlTyped'
    BY <1>9, <2>2, <2>3 DEF WakeAfterNba, outcome, DataTyped, ControlTyped, CountersTyped
  <2>5. QED
    BY <2>1, <2>4
<1>10. CASE AdvanceTime
  <2>1. ProcsTyped'
    BY <1>10, WakeTyped DEF AdvanceTime, ProcsTyped
  <2>2. time' \in Nat
    BY <1>10 DEF AdvanceTime, Deadlines, Sleepers, ProcsTyped, DataTyped
  <2>3. DataTyped' /\ ControlTyped'
    BY <1>10, <2>2 DEF StepsLeft, AdvanceTime, data, outcome, DataTyped, ControlTyped, CountersTyped
  <2>4. QED
    BY <2>1, <2>3
<1>11. CASE Quiesce
  BY <1>11 DEF Quiesce, procs, waits, data, clock, ProcsTyped, DataTyped, ControlTyped, CountersTyped
<1>12. CASE EndStep
  <2>1. ProcsTyped' /\ DataTyped'
    BY <1>12 DEF EndStep, procs, waits, data, ProcsTyped, DataTyped
  <2>2. status' \in {"RUNNING", "IDLE", "FINISHED", "STOPPED", "ERROR"}
    BY <1>12 DEF EndStep
  <2>3. QED
    BY <1>12, <2>1, <2>2 DEF EndStep, clock, ControlTyped, CountersTyped
<1>13. QED
  BY <1>1, <1>2, <1>3, <1>4, <1>5, <1>6, <1>7, <1>8, <1>9, <1>10, <1>11, <1>12

\* An instruction that stays in the VM or leaves it keeps the control typed.
LEMMA VmControlTyped ==
  ASSUME TypeOK, Continues \/ Yields, error' \in BOOLEAN
  PROVE  ControlTyped'
<1>1. CASE Continues
  <2>1. burst' \in 0 .. MaxBurst
    BY <1>1, SchedulerAssumption DEF Continues, TypeOK, ControlTyped, CountersTyped
  <2>2. QED
    BY <1>1, <2>1 DEF Continues, clock, TypeOK, ControlTyped, CountersTyped
<1>2. CASE Yields
  <2>1. burst' \in 0 .. MaxBurst
    BY <1>2, SchedulerAssumption DEF Yields, Returns
  <2>2. QED
    BY <1>2, <2>1 DEF Yields, Returns, clock, TypeOK, ControlTyped, CountersTyped
<1>3. QED
  BY <1>1, <1>2

\* Where a process points is an instruction.
LEMMA PointsAtTyped ==
  ASSUME TypeOK, NEW next \in {Anywhere, WaitServiceOp} \cup (Delayed \cap Statements),
         NEW h \in BOOLEAN, PointsAt(next, h)
  PROVE  /\ ip' \in [Procs -> {Anywhere, WaitServiceOp} \cup (Delayed \cap Statements)]
         /\ holding' \in [Procs -> BOOLEAN]
BY DEF TypeOK, ProcsTyped, ControlTyped, CountersTyped, PointsAt

LEMMA MovesOnTyped ==
  ASSUME TypeOK, MovesOn
  PROVE  /\ ip' \in [Procs -> {Anywhere, WaitServiceOp} \cup (Delayed \cap Statements)]
         /\ holding' \in [Procs -> BOOLEAN]
<1>1. holding[cursor] \in BOOLEAN
  BY DEF TypeOK, ProcsTyped, ControlTyped, CountersTyped
<1>2. QED
  BY <1>1, PointsAtTyped DEF MovesOn

\* A wait of the kinds the VM has.
LEMMA BlockTyped ==
  ASSUME TypeOK, NEW i \in {WaitServiceOp} \cup Statements, NEW kind,
         kind \in {"TIME", "EVENT", "COND", "DELTA", "EDGE", "SERVICE"},
         Block(kind, i)
  PROVE  /\ state' \in [Procs -> {"READY", "BLOCKED", "DONE"}]
         /\ wait_kind' \in [Procs -> {"NONE", "TIME", "EVENT", "COND", "JOIN",
                                      "DELTA", "EDGE", "SERVICE"}]
         /\ wait_on' \in [Procs -> {NoWait, WaitServiceOp} \cup Statements]
BY DEF TypeOK, ProcsTyped, Block

\* The instructions that assign.
LEMMA AssignTyped ==
  ASSUME TypeOK, NEW i \in Fetched,
         Assign(i) \/ AssignNb(i) \/ StoreHeld(i) \/ AssignDelay(i) \/ AssignDelayNb(i)
  PROVE  TypeOK'
<1>1. CASE Assign(i)
  <2>1. Eval(i.rhs) \in Val
    BY <1>1, FetchedTyped, EvalTyped DEF Assign
  <2>2. DataTyped'
    BY <1>1, <2>1 DEF Assign, TypeOK, DataTyped
  <2>3. ControlTyped'
    BY <1>1, VmControlTyped DEF Assign, TypeOK, ControlTyped, CountersTyped
  <2>4. ProcsTyped'
    BY <1>1, MovesOnTyped DEF Assign, waits, TypeOK, ProcsTyped
  <2>5. QED
    BY <2>2, <2>3, <2>4 DEF TypeOK
<1>2. CASE AssignNb(i)
  <2>1. Eval(i.rhs) \in Val
    BY <1>2, FetchedTyped, EvalTyped DEF AssignNb
  <2>2. DataTyped'
    BY <1>2, <2>1 DEF AssignNb, TypeOK, DataTyped
  <2>3. ControlTyped'
    BY <1>2, VmControlTyped DEF AssignNb, TypeOK, ControlTyped, CountersTyped
  <2>4. ProcsTyped'
    BY <1>2, MovesOnTyped DEF AssignNb, waits, TypeOK, ProcsTyped
  <2>5. QED
    BY <2>2, <2>3, <2>4 DEF TypeOK
<1>3. CASE StoreHeld(i)
  <2>1. i \in Delayed
    BY <1>3, FetchedTyped DEF StoreHeld
  <2>2. DataTyped'
    BY <1>3, <2>1 DEF StoreHeld, TypeOK, DataTyped
  <2>3. ControlTyped'
    BY <1>3, VmControlTyped DEF StoreHeld, TypeOK, ControlTyped, CountersTyped
  <2>4. ProcsTyped'
    BY <1>3, PointsAtTyped DEF StoreHeld, waits, TypeOK, ProcsTyped
  <2>5. QED
    BY <2>2, <2>3, <2>4 DEF TypeOK
<1>4. CASE AssignDelay(i)
  <2>1. i \in Delayed \cap Statements
    BY <1>4, FetchedTyped DEF AssignDelay
  <2>2. Eval(i.rhs) \in Val /\ i.delay \in Nat
    BY <2>1, DelayedTyped, EvalTyped
  <2>3. DataTyped'
    BY <1>4, <2>1, <2>2 DEF AssignDelay, TypeOK, DataTyped
  <2>4. ControlTyped'
    BY <1>4, VmControlTyped DEF AssignDelay, TypeOK, ControlTyped, CountersTyped
  <2>5. CASE i.delay = 0
    BY <1>4, <2>3, <2>4, <2>5, MovesOnTyped DEF AssignDelay, waits, TypeOK, ProcsTyped
  <2>6. CASE i.delay # 0
    <3>1. Block("TIME", i) /\ PointsAt(i, TRUE)
      BY <1>4, <2>6 DEF AssignDelay
    <3>2. time + i.delay \in Nat
      BY <2>2 DEF TypeOK, ControlTyped, CountersTyped
    <3>3. wait_time' \in [Procs -> Nat] /\ join_count' \in [Procs -> Nat]
      BY <1>4, <2>6, <3>2 DEF AssignDelay, TypeOK, ProcsTyped
    <3>4. ProcsTyped'
      BY <2>1, <3>1, <3>3, BlockTyped, PointsAtTyped DEF ProcsTyped
    <3>5. QED
      BY <2>3, <2>4, <3>4 DEF TypeOK
  <2>7. QED
    BY <2>3, <2>4, <2>5, <2>6 DEF TypeOK
<1>5. CASE AssignDelayNb(i)
  <2>1. i \in Delayed \cap Statements /\ i.nb
    BY <1>5, FetchedTyped DEF AssignDelayNb
  <2>2. Eval(i.rhs) \in Val /\ i.delay \in Nat /\ i.lhs \in NbTargets
    BY <2>1, DelayedTyped, EvalTyped
  <2>3. nb' \in [NbTargets -> Val] /\ error' \in BOOLEAN
    BY <1>5, <2>2 DEF AssignDelayNb, TypeOK, DataTyped, ControlTyped, CountersTyped
  <2>4. /\ dnba' \subseteq [slot : Nat, time : Nat, id : {j \in Delayed : j.nb}, val : Val]
        /\ IsFiniteSet(dnba')
    <3> DEFINE kept == Compacted(dnba \ Cancelled(i))
               entry == [slot |-> Cardinality(kept), time |-> time + i.delay, id |-> i,
                         val |-> IF PulseWithin(i, i.error) THEN "x" ELSE Eval(i.rhs)]
    <3>1. /\ kept \subseteq [slot : Nat, time : Nat, id : {j \in Delayed : j.nb}, val : Val]
          /\ IsFiniteSet(kept) /\ Cardinality(kept) \in Nat
      BY CompactedTyped
    <3>2. entry \in [slot : Nat, time : Nat, id : {j \in Delayed : j.nb}, val : Val]
      <4>1. time + i.delay \in Nat
        BY <2>2 DEF TypeOK, ControlTyped, CountersTyped
      <4>2. (IF PulseWithin(i, i.error) THEN "x" ELSE Eval(i.rhs)) \in Val
        BY <2>2 DEF Val
      <4>3. i \in {j \in Delayed : j.nb}
        BY <2>1
      <4>4. QED
        BY <3>1, <4>1, <4>2, <4>3
    <3>3. dnba' \in {dnba, kept, kept \cup {entry}}
      BY <1>5 DEF AssignDelayNb
    <3>4. IsFiniteSet(kept \cup {entry})
      BY <3>1, FS_AddElement
    <3>5. dnba \subseteq [slot : Nat, time : Nat, id : {j \in Delayed : j.nb}, val : Val]
          /\ IsFiniteSet(dnba)
      BY DEF TypeOK, DataTyped
    <3> HIDE DEF kept, entry
    <3>6. QED
      BY <3>1, <3>2, <3>3, <3>4, <3>5
  <2>5. DataTyped'
    BY <1>5, <2>3, <2>4 DEF AssignDelayNb, TypeOK, DataTyped
  <2>6. ControlTyped'
    BY <1>5, <2>3, VmControlTyped DEF AssignDelayNb
  <2>7. ProcsTyped'
    BY <1>5, MovesOnTyped DEF AssignDelayNb, waits, TypeOK, ProcsTyped
  <2>8. QED
    BY <2>5, <2>6, <2>7 DEF TypeOK
<1>6. QED
  BY <1>1, <1>2, <1>3, <1>4, <1>5

\* The instructions that wait.
LEMMA WaitTyped ==
  ASSUME TypeOK, NEW i \in Fetched,
         WaitTime(i) \/ WaitEvent(i) \/ WaitEdge(i) \/ WaitCond(i) \/ WaitService(i)
  PROVE  TypeOK'
<1> USE DEF TypeOK
<1>1. cursor \in Procs
  BY DEF ControlTyped, CountersTyped
<1>2. CASE WaitTime(i)
  <2>1. i \in {WaitServiceOp} \cup Statements /\ time + i.delay \in Nat
    BY <1>2, FetchedTyped DEF WaitTime, ControlTyped, CountersTyped
  <2>2. wait_time' \in [Procs -> Nat] /\ join_count' \in [Procs -> Nat]
    BY <1>2, <2>1 DEF WaitTime, ProcsTyped
  <2>3. /\ state' \in [Procs -> {"READY", "BLOCKED", "DONE"}]
        /\ wait_kind' \in [Procs -> {"NONE", "TIME", "EVENT", "COND", "JOIN",
                                     "DELTA", "EDGE", "SERVICE"}]
        /\ wait_on' \in [Procs -> {NoWait, WaitServiceOp} \cup Statements]
    BY <1>2, <2>1, BlockTyped DEF WaitTime, ProcsTyped
  <2>4. ProcsTyped'
    BY <1>2, <2>2, <2>3, MovesOnTyped DEF WaitTime, ProcsTyped
  <2>5. DataTyped'
    BY <1>2 DEF WaitTime, data, DataTyped
  <2>6. ControlTyped'
    BY <1>2, VmControlTyped DEF WaitTime, ControlTyped, CountersTyped
  <2>7. QED
    BY <2>4, <2>5, <2>6
<1>3. CASE WaitEvent(i)
  <2>1. ProcsTyped'
    BY <1>3, FetchedTyped, BlockTyped, MovesOnTyped DEF WaitEvent, ProcsTyped
  <2>2. DataTyped'
    BY <1>3 DEF WaitEvent, data, DataTyped
  <2>3. ControlTyped'
    BY <1>3, VmControlTyped DEF WaitEvent, ControlTyped, CountersTyped
  <2>4. QED
    BY <2>1, <2>2, <2>3
<1>4. CASE WaitEdge(i)
  <2>1. ProcsTyped'
    BY <1>4, FetchedTyped, BlockTyped, PointsAtTyped DEF WaitEdge, ProcsTyped
  <2>2. [s \in Signals |-> IF \E item \in i.items : item[1] = s
                           THEN sig[s] ELSE edge_prev[cursor][s]] \in [Signals -> Val]
    BY <1>1 DEF DataTyped
  <2>3. DataTyped'
    BY <1>4, <2>2 DEF WaitEdge, DataTyped
  <2>4. ControlTyped'
    BY <1>4, VmControlTyped DEF WaitEdge, ControlTyped, CountersTyped
  <2>5. QED
    BY <2>1, <2>3, <2>4
<1>5. CASE WaitCond(i)
  <2>1. wait_time' = wait_time /\ join_count' = join_count
    BY <1>5 DEF WaitCond
  <2>2. DataTyped'
    BY <1>5 DEF WaitCond, data, DataTyped
  <2>3. ControlTyped'
    BY <1>5, VmControlTyped DEF WaitCond, ControlTyped, CountersTyped
  <2>4. CASE Continues /\ MovesOn /\ UNCHANGED waits
    BY <2>1, <2>2, <2>3, <2>4, MovesOnTyped DEF waits, ProcsTyped
  <2>5. CASE Yields /\ PointsAt(Anywhere, FALSE) /\ Block("COND", i)
    BY <2>1, <2>2, <2>3, <2>5, FetchedTyped, BlockTyped, PointsAtTyped DEF ProcsTyped
  <2>6. QED
    BY <1>5, <2>4, <2>5 DEF WaitCond
<1>6. CASE WaitService(i)
  <2>1. wait_time' \in [Procs -> Nat] /\ join_count' \in [Procs -> Nat]
    BY <1>6 DEF WaitService, ProcsTyped
  <2>2. ProcsTyped'
    BY <1>6, <2>1, FetchedTyped, BlockTyped, MovesOnTyped DEF WaitService, ProcsTyped
  <2>3. DataTyped'
    BY <1>6 DEF WaitService, data, DataTyped
  <2>4. ControlTyped'
    BY <1>6, VmControlTyped DEF WaitService, ControlTyped, CountersTyped
  <2>5. QED
    BY <2>2, <2>3, <2>4
<1>7. QED
  BY <1>2, <1>3, <1>4, <1>5, <1>6

\* The instructions that start, end or disturb a process, or call the host.
LEMMA ControlFlowTyped ==
  ASSUME TypeOK, NEW i \in Fetched,
         \/ EventTrigger(i) \/ Fork(i) \/ DisableChild(i) \/ DisableCross(i)
         \/ ServiceCall(i) \/ Halt(i) \/ Done(i)
  PROVE  TypeOK'
<1> USE DEF TypeOK
<1>1. cursor \in Procs
  BY DEF ControlTyped, CountersTyped
<1>2. CASE EventTrigger(i)
  <2>1. DataTyped'
    BY <1>2, FetchedTyped DEF EventTrigger, DataTyped
  <2>2. ProcsTyped'
    BY <1>2, MovesOnTyped DEF EventTrigger, waits, ProcsTyped
  <2>3. ControlTyped'
    BY <1>2, VmControlTyped DEF EventTrigger, ControlTyped, CountersTyped
  <2>4. QED
    BY <2>1, <2>2, <2>3
<1>3. CASE Fork(i)
  <2> DEFINE kids == Children(cursor, i.tag)
  <2>1. Cardinality(kids) \in Nat
    BY ProcsFinite DEF Children
  <2>2. i \in Statements
    BY <1>3, FetchedTyped DEF Fork, WaitServiceOp
  <2> HIDE DEF kids
  <2>3. /\ state' \in [Procs -> {"READY", "BLOCKED", "DONE"}]
        /\ wait_kind' \in [Procs -> {"NONE", "TIME", "EVENT", "COND", "JOIN",
                                     "DELTA", "EDGE", "SERVICE"}]
        /\ wait_on' \in [Procs -> {NoWait, WaitServiceOp} \cup Statements]
    BY <1>3, <2>2 DEF Fork, ProcsTyped
  <2>4. wait_time' \in [Procs -> Nat] /\ join_count' \in [Procs -> Nat]
    BY <1>3, <2>1 DEF Fork, ProcsTyped, kids
  <2>5. /\ ip' \in [Procs -> {Anywhere, WaitServiceOp} \cup (Delayed \cap Statements)]
        /\ holding' \in [Procs -> BOOLEAN]
    BY <1>3 DEF Fork, ClearHold, ProcsTyped
  <2>6. ProcsTyped'
    BY <2>3, <2>4, <2>5 DEF ProcsTyped
  <2>7. DataTyped'
    BY <1>3 DEF Fork, data, DataTyped
  <2>8. ControlTyped'
    BY <1>3, VmControlTyped DEF Fork, ControlTyped, CountersTyped
  <2>9. QED
    BY <2>6, <2>7, <2>8
<1>4. CASE DisableChild(i)
  <2>1. i.pid \in Procs
    BY <1>4, FetchedTyped DEF DisableChild, Branches
  <2>2. /\ state' \in [Procs -> {"READY", "BLOCKED", "DONE"}]
        /\ wait_kind' \in [Procs -> {"NONE", "TIME", "EVENT", "COND", "JOIN",
                                     "DELTA", "EDGE", "SERVICE"}]
        /\ join_count' \in [Procs -> Nat]
    <3>1. CASE state[i.pid] = "DONE"
      BY <1>4, <3>1 DEF DisableChild, ProcsTyped
    <3>2. CASE state[i.pid] # "DONE"
      <4>1. CountJoin(i.pid, [state EXCEPT ![i.pid] = "DONE"],
                             [wait_kind EXCEPT ![i.pid] = "NONE"])
        BY <1>4, <3>2 DEF DisableChild
      <4>2. /\ [state EXCEPT ![i.pid] = "DONE"] \in [Procs -> {"READY", "BLOCKED", "DONE"}]
            /\ [wait_kind EXCEPT ![i.pid] = "NONE"] \in
                   [Procs -> {"NONE", "TIME", "EVENT", "COND", "JOIN",
                              "DELTA", "EDGE", "SERVICE"}]
        BY <2>1 DEF ProcsTyped
      <4>3. QED
        BY <2>1, <4>1, <4>2, CountJoinTyped
    <3>3. QED
      BY <3>1, <3>2
  <2>3. ip' \in [Procs -> {Anywhere, WaitServiceOp} \cup (Delayed \cap Statements)]
    BY <1>4, <2>1 DEF DisableChild, ProcsTyped
  <2>4. ProcsTyped'
    BY <1>4, <2>2, <2>3 DEF DisableChild, ProcsTyped
  <2>5. DataTyped'
    BY <1>4 DEF DisableChild, data, DataTyped
  <2>6. ControlTyped'
    BY <1>4, VmControlTyped DEF DisableChild, ControlTyped, CountersTyped
  <2>7. QED
    BY <2>4, <2>5, <2>6
<1>5. CASE DisableCross(i)
  <2>1. ProcsTyped'
    BY <1>5 DEF DisableCross, ProcsTyped
  <2>2. DataTyped'
    BY <1>5 DEF DisableCross, data, DataTyped
  <2>3. ControlTyped'
    BY <1>5, VmControlTyped DEF DisableCross, ControlTyped, CountersTyped
  <2>4. QED
    BY <2>1, <2>2, <2>3
<1>6. CASE ServiceCall(i)
  <2>1. holding[cursor] \in BOOLEAN
    BY <1>1 DEF ProcsTyped
  <2>2. ProcsTyped'
    BY <1>6, <2>1, PointsAtTyped DEF ServiceCall, waits, ProcsTyped
  <2>3. DataTyped'
    BY <1>1, <1>6 DEF ServiceCall, DataTyped
  <2>4. ControlTyped'
    BY <1>6, VmControlTyped DEF ServiceCall, ControlTyped, CountersTyped
  <2>5. QED
    BY <2>2, <2>3, <2>4
<1>7. CASE Halt(i)
  <2>1. state' \in [Procs -> {"READY", "BLOCKED", "DONE"}]
    BY <1>7 DEF Halt, ProcsTyped
  <2>2. ProcsTyped'
    BY <1>7, <2>1, MovesOnTyped DEF Halt, ProcsTyped
  <2>3. DataTyped'
    BY <1>7 DEF Halt, DataTyped
  <2>4. burst' \in 0 .. MaxBurst
    BY <1>7, SchedulerAssumption DEF Halt, Returns
  <2>5. ControlTyped'
    BY <1>7, <2>4 DEF Halt, Returns, clock, ControlTyped, CountersTyped
  <2>6. QED
    BY <2>2, <2>3, <2>5
<1>8. CASE Done(i)
  <2>1. ProcsTyped'
    BY <1>8, MovesOnTyped DEF Done, ProcsTyped
  <2>2. DataTyped'
    BY <1>8 DEF Done, data, DataTyped
  <2>3. ControlTyped'
    BY <1>8, VmControlTyped DEF Done, ControlTyped, CountersTyped
  <2>4. QED
    BY <2>1, <2>2, <2>3
<1>9. QED
  BY <1>2, <1>3, <1>4, <1>5, <1>6, <1>7, <1>8

\* The scheduler is type correct: in particular the join counts never go below
\* zero and the queue of delayed `<=` holds delayed `<=` only.
THEOREM SchedulerTyped == Spec => []TypeOK
<1>1. Init => TypeOK
  <2> SUFFICES ASSUME Init PROVE TypeOK
    OBVIOUS
  <2>1. 0 \in Procs /\ 0 \in 0 .. MaxBurst
    BY SchedulerAssumption DEF Procs
  <2>2. ProcsTyped
    BY DEF Init, ProcsTyped
  <2>3. DataTyped
    BY FS_EmptySet DEF Init, DataTyped, Val
  <2>4. ControlTyped
    BY <2>1 DEF Init, ControlTyped, CountersTyped
  <2>5. QED
    BY <2>2, <2>3, <2>4 DEF TypeOK
<1>2. TypeOK /\ [Next]_vars => TypeOK'
  <2> SUFFICES ASSUME TypeOK, [Next]_vars PROVE TypeOK'
    OBVIOUS
  <2>1. CASE UNCHANGED vars
    <3>1. ProcsTyped'
      BY <2>1 DEF vars, procs, waits, TypeOK, ProcsTyped
    <3>2. DataTyped'
      BY <2>1 DEF vars, data, TypeOK, DataTyped
    <3>3. ControlTyped'
      BY <2>1 DEF vars, clock, outcome, control, TypeOK, ControlTyped, CountersTyped
    <3>4. QED
      BY <3>1, <3>2, <3>3 DEF TypeOK
  <2>2. ASSUME NEW i \in Fetched, Exec(i) PROVE TypeOK'
    BY <2>2, AssignTyped, WaitTyped, ControlFlowTyped DEF Exec
  <2>3. CASE ~UNCHANGED vars /\ ~(\E i \in Fetched : Exec(i))
    BY <2>3, SchedStepTyped DEF Next, Kernel, Stopped
  <2>4. QED
    BY <2>1, <2>2, <2>3
<1>3. QED
  BY <1>1, <1>2, PTL DEF Spec

-----------------------------------------------------------------------------
(* Waits, deadlines, joins and delay bits, on top of type correctness, and    *)
(* on top of them the clock, the queue of the delayed `<=` and the NBA        *)
(* buffer.                                                                    *)

(* WaitsMatchStates is not inductive: an instruction that ends or restarts    *)
(* the process at the cursor keeps it only because that process is READY.     *)
RunningIsReady == at = "vm" => state[cursor] = "READY"

WaitInv == WaitsMatchStates /\ RunningIsReady

\* No process is its own branch, and the branches a process may disable are
\* other processes, each with a parent that is not itself.
LEMMA Family ==
  ASSUME NEW p \in Procs
  PROVE  /\ \A tag : p \notin Children(p, tag)
         /\ \A q \in Branches(p) : /\ q \in Procs /\ q # p
                                   /\ Parent[q] # NoParent /\ Parent[q] \in Procs
                                   /\ Parent[q] # q /\ q >= RootCount
<1>1. Parent \in [Procs -> Procs \cup {NoParent}] /\ RootCount \in Nat /\ ProcCount \in Nat
  BY SchedulerAssumption
<1>2. \A q \in Procs : /\ Parent[q] # q /\ (Parent[q] = NoParent <=> q < RootCount)
                       /\ (Parent[q] # NoParent => Parent[q] \in Procs)
  BY <1>1, SchedulerAssumption
<1>3. QED
  BY <1>1, <1>2 DEF Children, Branches, Procs

\* Waking processes that wait, or none, keeps states and waits in agreement.
LEMMA WakeMatches ==
  ASSUME TypeOK, WaitsMatchStates, NEW W, Wake(W)
  PROVE  WaitsMatchStates'
BY DEF WaitsMatchStates, Wake, TypeOK, ProcsTyped

\* So does counting a branch that is over.
LEMMA CountJoinMatches ==
  ASSUME TypeOK, NEW c \in Procs,
         NEW st \in [Procs -> {"READY", "BLOCKED", "DONE"}],
         NEW wk \in [Procs -> {"NONE", "TIME", "EVENT", "COND", "JOIN",
                               "DELTA", "EDGE", "SERVICE"}],
         \A p \in Procs : /\ st[p] = "READY" => wk[p] = "NONE"
                          /\ st[p] = "BLOCKED" /\ wk[p] = "NONE" => p >= RootCount
                          /\ wk[p] # "NONE" => st[p] = "BLOCKED",
         CountJoin(c, st, wk)
  PROVE  WaitsMatchStates'
BY DEF WaitsMatchStates, CountJoin

\* The host and the scheduler loop keep states and waits in agreement.
LEMMA SchedStepMatches ==
  ASSUME TypeOK, WaitInv,
         \/ (\E interrupted \in BOOLEAN : Dispatch(interrupted)) \/ DrainServices
         \/ BeginActive \/ (\E p \in Procs : RunNext(p)) \/ ExecReturns \/ EndPass
         \/ ScanActive \/ CommitNba \/ WakeAfterNba \/ AdvanceTime \/ Quiesce \/ EndStep
  PROVE  WaitInv'
<1> USE DEF WaitInv
<1>1. CASE \E interrupted \in BOOLEAN : Dispatch(interrupted)
  BY <1>1 DEF Dispatch, procs, waits, WaitsMatchStates, RunningIsReady
<1>2. CASE DrainServices
  BY <1>2, WakeMatches DEF DrainServices, control, RunningIsReady
<1>3. CASE BeginActive
  BY <1>3 DEF BeginActive, procs, waits, WaitsMatchStates, RunningIsReady
<1>4. CASE \E p \in Procs : RunNext(p)
  BY <1>4 DEF RunNext, Runnable, procs, waits, WaitsMatchStates, RunningIsReady
<1>5. CASE ExecReturns
  <2>1. CASE state[cursor] = "DONE"
    <3>1. CountJoin(cursor, state, wait_kind)
      BY <1>5, <2>1 DEF ExecReturns
    <3>2. WaitsMatchStates'
      BY <3>1, CountJoinMatches DEF WaitsMatchStates, TypeOK, ProcsTyped, ControlTyped, CountersTyped
    <3>3. QED
      BY <1>5, <3>2 DEF ExecReturns, RunningIsReady
  <2>2. CASE state[cursor] # "DONE"
    BY <1>5, <2>2 DEF ExecReturns, WaitsMatchStates, RunningIsReady
  <2>3. QED
    BY <2>1, <2>2
<1>6. CASE EndPass
  BY <1>6 DEF EndPass, procs, waits, WaitsMatchStates, RunningIsReady
<1>7. CASE ScanActive
  BY <1>7, WakeMatches DEF ScanActive, RunningIsReady
<1>8. CASE CommitNba
  BY <1>8 DEF CommitNba, procs, waits, WaitsMatchStates, RunningIsReady
<1>9. CASE WakeAfterNba
  BY <1>9, WakeMatches DEF WakeAfterNba, RunningIsReady
<1>10. CASE AdvanceTime
  BY <1>10, WakeMatches DEF AdvanceTime, RunningIsReady
<1>11. CASE Quiesce
  BY <1>11 DEF Quiesce, procs, waits, WaitsMatchStates, RunningIsReady
<1>12. CASE EndStep
  BY <1>12 DEF EndStep, procs, waits, WaitsMatchStates, RunningIsReady
<1>13. QED
  BY <1>1, <1>2, <1>3, <1>4, <1>5, <1>6, <1>7, <1>8, <1>9, <1>10, <1>11, <1>12

\* An instruction leaves the other processes alone, or stops or restarts them.
LEMMA ExecMatches ==
  ASSUME TypeOK, WaitInv, NEW i \in Fetched, Exec(i)
  PROVE  WaitInv'
<1> USE DEF WaitInv
<1>1. /\ cursor \in Procs /\ at = "vm" /\ state[cursor] = "READY"
      /\ wait_kind[cursor] = "NONE"
  <2>1. at = "vm"
    BY DEF Exec, Assign, AssignNb, StoreHeld, AssignDelay, AssignDelayNb, EventTrigger,
           WaitTime, WaitEvent, WaitEdge, WaitCond, Fork, DisableChild, DisableCross,
           ServiceCall, WaitService, Halt, Done, Continues, Yields, Returns
  <2>2. QED
    BY <2>1 DEF RunningIsReady, WaitsMatchStates, TypeOK, ControlTyped, CountersTyped
<1>2. Continues => at' = at /\ cursor' = cursor
  BY DEF Continues
<1>3. Yields => at' = "after"
  BY DEF Yields, Returns
<1>4. CASE Assign(i) \/ AssignNb(i) \/ StoreHeld(i) \/ AssignDelayNb(i) \/ EventTrigger(i)
  BY <1>1, <1>2, <1>4 DEF Assign, AssignNb, StoreHeld, AssignDelayNb, EventTrigger,
                          waits, WaitsMatchStates, RunningIsReady
<1>5. ASSUME NEW kind, kind # "NONE", Block(kind, i)
      PROVE  WaitsMatchStates'
  BY <1>5 DEF Block, WaitsMatchStates, TypeOK, ProcsTyped
<1>6. CASE AssignDelay(i)
  <2>1. CASE i.delay = 0
    BY <1>1, <1>2, <1>6, <2>1 DEF AssignDelay, waits, WaitsMatchStates, RunningIsReady
  <2>2. CASE i.delay # 0
    BY <1>3, <1>5, <1>6, <2>2 DEF AssignDelay, RunningIsReady
  <2>3. QED
    BY <2>1, <2>2
<1>7. CASE WaitTime(i)
  <2>1. CASE error
    BY <1>1, <1>3, <1>7, <2>1 DEF WaitTime, WaitsMatchStates, RunningIsReady, TypeOK, ProcsTyped
  <2>2. CASE ~error
    <3>1. Block(IF i.delay = 0 THEN "DELTA" ELSE "TIME", i)
      BY <1>7, <2>2 DEF WaitTime
    <3>2. (IF i.delay = 0 THEN "DELTA" ELSE "TIME") # "NONE"
      OBVIOUS
    <3>3. QED
      BY <1>3, <1>5, <1>7, <3>1, <3>2 DEF WaitTime, RunningIsReady
  <2>3. QED
    BY <2>1, <2>2
<1>8. CASE WaitEvent(i) \/ WaitEdge(i) \/ WaitService(i)
  BY <1>3, <1>5, <1>8 DEF WaitEvent, WaitEdge, WaitService, RunningIsReady
<1>9. CASE WaitCond(i)
  <2>1. CASE Continues /\ UNCHANGED waits
    BY <1>1, <1>2, <2>1 DEF waits, WaitsMatchStates, RunningIsReady
  <2>2. CASE Yields /\ Block("COND", i)
    BY <1>3, <1>5, <2>2 DEF RunningIsReady
  <2>3. QED
    BY <1>9, <2>1, <2>2 DEF WaitCond
<1>10. CASE Fork(i)
  BY <1>3, <1>10 DEF Fork, WaitsMatchStates, RunningIsReady
<1>11. CASE DisableChild(i)
  <2>1. i.pid \in Branches(cursor)
    BY <1>11, FetchedTyped DEF DisableChild
  <2>2. i.pid \in Procs /\ i.pid # cursor /\ i.pid >= RootCount
    BY <1>1, <2>1, Family
  <2>3. CASE state[i.pid] = "DONE"
    BY <1>1, <1>2, <1>11, <2>3 DEF DisableChild, WaitsMatchStates, RunningIsReady
  <2>4. CASE state[i.pid] # "DONE"
    <3> DEFINE st == [state EXCEPT ![i.pid] = "DONE"]
               wk == [wait_kind EXCEPT ![i.pid] = "NONE"]
    <3>1. CountJoin(i.pid, st, wk)
      BY <1>11, <2>4 DEF DisableChild
    <3>2. /\ st \in [Procs -> {"READY", "BLOCKED", "DONE"}]
          /\ wk \in [Procs -> {"NONE", "TIME", "EVENT", "COND", "JOIN",
                               "DELTA", "EDGE", "SERVICE"}]
      BY <2>2 DEF TypeOK, ProcsTyped
    <3>3. \A p \in Procs : /\ st[p] = "READY" => wk[p] = "NONE"
                           /\ st[p] = "BLOCKED" /\ wk[p] = "NONE" => p >= RootCount
                           /\ wk[p] # "NONE" => st[p] = "BLOCKED"
      BY <2>2 DEF WaitsMatchStates, TypeOK, ProcsTyped
    <3>4. st[cursor] = "READY"
      BY <1>1, <2>2 DEF TypeOK, ProcsTyped
    <3> HIDE DEF st, wk
    <3>5. WaitsMatchStates'
      BY <2>2, <3>1, <3>2, <3>3, CountJoinMatches
    <3>6. state'[cursor] = "READY"
      BY <1>1, <3>1, <3>2, <3>4 DEF CountJoin
    <3>7. QED
      BY <1>2, <1>11, <3>5, <3>6 DEF DisableChild, RunningIsReady
  <2>5. QED
    BY <2>3, <2>4
<1>12. CASE DisableCross(i)
  BY <1>1, <1>2, <1>12 DEF DisableCross, WaitsMatchStates, RunningIsReady, TypeOK, ProcsTyped
<1>13. CASE ServiceCall(i)
  BY <1>1, <1>2, <1>3, <1>13 DEF ServiceCall, waits, WaitsMatchStates, RunningIsReady
<1>14. CASE Halt(i)
  BY <1>1, <1>14 DEF Halt, Returns, WaitsMatchStates, RunningIsReady, TypeOK, ProcsTyped
<1>15. CASE Done(i)
  BY <1>1, <1>3, <1>15 DEF Done, WaitsMatchStates, RunningIsReady, TypeOK, ProcsTyped
<1>16. QED
  BY <1>4, <1>6, <1>7, <1>8, <1>9, <1>10, <1>11, <1>12, <1>13, <1>14, <1>15 DEF Exec

\* Every step keeps the strengthened invariant.
LEMMA WaitsStep ==
  ASSUME TypeOK, WaitInv, [Next]_vars
  PROVE  WaitInv'
<1>1. CASE UNCHANGED vars
  BY <1>1 DEF vars, procs, waits, control, WaitInv, WaitsMatchStates, RunningIsReady
<1>2. ASSUME NEW i \in Fetched, Exec(i) PROVE WaitInv'
  BY <1>2, ExecMatches
<1>3. CASE ~UNCHANGED vars /\ ~(\E i \in Fetched : Exec(i))
  BY <1>3, SchedStepMatches DEF Next, Kernel, Stopped
<1>4. QED
  BY <1>1, <1>2, <1>3

\* A process in a wait is BLOCKED and a READY one is in none, whatever forks,
\* joins, disables, wakeups and host answers happen in whatever order.
THEOREM WaitsMatch == Spec => []WaitsMatchStates
<1>1. Init => WaitInv
  BY SchedulerAssumption DEF Init, WaitInv, WaitsMatchStates, RunningIsReady, Procs
<1>2. TypeOK /\ WaitInv /\ [Next]_vars => WaitInv'
  BY WaitsStep
<1>3. QED
  BY <1>1, <1>2, SchedulerTyped, PTL DEF Spec, WaitInv

(* Time.  NoOversleep is inductive: the entries that are due leave the queue  *)
(* when the delta starts, and time moves to the earliest deadline only.       *)

\* Every step outside the VM keeps the deadlines ahead of time.
LEMMA SchedStepOnTime ==
  ASSUME TypeOK, NoOversleep,
         \/ (\E interrupted \in BOOLEAN : Dispatch(interrupted)) \/ DrainServices
         \/ BeginActive \/ (\E p \in Procs : RunNext(p)) \/ ExecReturns \/ EndPass
         \/ ScanActive \/ CommitNba \/ WakeAfterNba \/ AdvanceTime \/ Quiesce \/ EndStep
  PROVE  NoOversleep'
<1>1. CASE DrainServices
  BY <1>1 DEF DrainServices, Wake, Answered, clock, NoOversleep, TypeOK, ProcsTyped
<1>2. CASE BeginActive
  <2>1. UNCHANGED <<wait_kind, wait_time, time>> /\ active_init' = FALSE
    BY <1>2 DEF BeginActive, procs, waits
  <2>2. ASSUME NEW e \in dnba' PROVE e.time > time
    <3>1. CASE active_init
      <4>1. e \in Compacted(dnba \ Due)
        BY <1>2, <3>1 DEF BeginActive
      <4>2. \E f \in dnba \ Due : e.time = f.time
        BY <4>1, CompactedTyped
      <4>3. QED
        BY <4>2 DEF Due, TypeOK, DataTyped, ControlTyped, CountersTyped
    <3>2. CASE ~active_init
      BY <1>2, <3>2 DEF BeginActive, NoOversleep
    <3>3. QED
      BY <3>1, <3>2
  <2>3. QED
    BY <2>1, <2>2 DEF NoOversleep
<1>3. CASE ExecReturns
  BY <1>3 DEF ExecReturns, CountJoin, data, clock, NoOversleep, TypeOK, ProcsTyped
<1>4. CASE ScanActive
  BY <1>4 DEF ScanActive, Wake, NoOversleep
<1>5. CASE WakeAfterNba
  <2>1. UNCHANGED <<time, dnba, wait_time>> /\ (active_init' = active_init \/ active_init' = TRUE)
    BY <1>5 DEF WakeAfterNba
  <2>2. \A p \in Procs : wait_kind'[p] = "TIME" => wait_kind[p] = "TIME"
    BY <1>5 DEF WakeAfterNba, Wake
  <2>3. QED
    BY <2>1, <2>2 DEF NoOversleep
<1>6. CASE AdvanceTime
  <2>1. PICK next \in Deadlines :
            /\ \A t \in Deadlines : next <= t
            /\ time' = next
            /\ Wake({p \in Sleepers : wait_time[p] = next})
    BY <1>6 DEF AdvanceTime
  <2>2. next \in Nat /\ \A t \in Deadlines : t \in Nat /\ next <= t
    <3>1. Deadlines \subseteq Nat
      BY DEF Deadlines, Sleepers, TypeOK, ProcsTyped, DataTyped
    <3>2. QED
      BY <2>1, <3>1
  <2>3. wait_time' = wait_time /\ dnba' = dnba /\ active_init' = TRUE
    BY <1>6 DEF AdvanceTime, data
  <2>4. ASSUME NEW p \in Procs, wait_kind'[p] = "TIME"
        PROVE  wait_time[p] > next
    <3>1. p \in Sleepers /\ wait_time[p] # next
      BY <2>1, <2>4 DEF Wake, Sleepers
    <3>2. wait_time[p] \in Deadlines
      BY <3>1 DEF Deadlines
    <3>3. wait_time[p] \in Nat /\ next <= wait_time[p]
      BY <2>2, <3>2
    <3>4. QED
      BY <2>2, <3>1, <3>3
  <2>5. ASSUME NEW e \in dnba PROVE e.time > next \/ e.time = next
    <3>1. e.time \in Deadlines
      BY DEF Deadlines
    <3>2. e.time \in Nat /\ next <= e.time
      BY <2>2, <3>1
    <3>3. QED
      BY <2>2, <3>2
  <2>6. QED
    BY <2>1, <2>3, <2>4, <2>5 DEF NoOversleep
<1>7. CASE \/ \E interrupted \in BOOLEAN : Dispatch(interrupted)
           \/ \E p \in Procs : RunNext(p)
           \/ EndPass \/ CommitNba \/ Quiesce \/ EndStep
  BY <1>7 DEF Dispatch, RunNext, EndPass, CommitNba, Quiesce, EndStep, procs, waits, data,
              clock, NoOversleep
<1>8. QED
  BY <1>1, <1>2, <1>3, <1>4, <1>5, <1>6, <1>7

\* An instruction sets its deadlines after the current time.
LEMMA ExecOnTime ==
  ASSUME TypeOK, NoOversleep, NEW i \in Fetched, Exec(i)
  PROVE  NoOversleep'
<1>1. UNCHANGED clock
  BY DEF Exec, Assign, AssignNb, StoreHeld, AssignDelay, AssignDelayNb, EventTrigger,
         WaitTime, WaitEvent, WaitEdge, WaitCond, Fork, DisableChild, DisableCross,
         ServiceCall, WaitService, Halt, Done, Continues, Yields, Returns
<1>2. cursor \in Procs /\ time \in Nat /\ wait_time \in [Procs -> Nat]
  BY DEF TypeOK, ControlTyped, CountersTyped, ProcsTyped
<1>3. ASSUME UNCHANGED dnba,
             \A p \in Procs : wait_kind'[p] = "TIME" =>
                 wait_time'[p] > time \/ (wait_kind[p] = "TIME" /\ wait_time'[p] = wait_time[p])
      PROVE  NoOversleep'
  BY <1>1, <1>3 DEF clock, NoOversleep
<1>4. CASE \/ Assign(i) \/ AssignNb(i) \/ StoreHeld(i) \/ EventTrigger(i)
           \/ ServiceCall(i) \/ Halt(i) \/ Done(i)
  BY <1>3, <1>4 DEF Assign, AssignNb, StoreHeld, EventTrigger, ServiceCall, Halt, Done,
                    waits, data
<1>5. CASE AssignDelay(i)
  <2>1. i.delay \in Nat
    BY <1>5, FetchedTyped, DelayedTyped DEF AssignDelay
  <2>2. CASE i.delay = 0
    BY <1>3, <1>5, <2>2 DEF AssignDelay, waits
  <2>3. CASE i.delay # 0
    <3>1. /\ wait_kind' = [wait_kind EXCEPT ![cursor] = "TIME"] /\ dnba' = dnba
          /\ wait_time' = [wait_time EXCEPT ![cursor] = time + i.delay]
      BY <1>5, <2>3 DEF AssignDelay, Block
    <3>2. time + i.delay > time
      BY <1>2, <2>1, <2>3
    <3>3. QED
      BY <1>2, <1>3, <3>1, <3>2 DEF TypeOK, ProcsTyped
  <2>4. QED
    BY <2>2, <2>3
<1>6. CASE AssignDelayNb(i)
  <2>1. i.delay \in Nat /\ UNCHANGED <<wait_kind, wait_time>>
    BY <1>6, FetchedTyped, DelayedTyped DEF AssignDelayNb, waits
  <2>2. ASSUME NEW e \in dnba' PROVE \/ \E f \in dnba : e.time = f.time
                                     \/ i.delay # 0 /\ e.time = time + i.delay
    <3>1. CASE i.delay = 0
      BY <1>6, <3>1 DEF AssignDelayNb
    <3>2. CASE i.delay # 0
      <4> DEFINE kept == Compacted(dnba \ Cancelled(i))
      <4>1. e \in kept \/ e.time = time + i.delay
        BY <1>6, <3>2 DEF AssignDelayNb
      <4>2. e \in kept => \E f \in dnba \ Cancelled(i) : e.time = f.time
        BY CompactedTyped
      <4>3. QED
        BY <3>2, <4>1, <4>2
    <3>3. QED
      BY <3>1, <3>2
  <2>3. \A e \in dnba' : e.time > time \/ (active_init /\ e.time = time)
    BY <1>2, <2>1, <2>2 DEF NoOversleep
  <2>4. QED
    BY <1>1, <2>1, <2>3 DEF clock, NoOversleep
<1>7. CASE WaitTime(i)
  <2>1. i.delay \in Nat
    BY <1>7, FetchedTyped DEF WaitTime
  <2>2. dnba' = dnba
    BY <1>7 DEF WaitTime, data
  <2>3. CASE error
    BY <1>3, <1>7, <2>2, <2>3 DEF WaitTime
  <2>4. CASE ~error
    <3>1. /\ wait_kind' = [wait_kind EXCEPT ![cursor] = IF i.delay = 0 THEN "DELTA" ELSE "TIME"]
          /\ wait_time' = [wait_time EXCEPT ![cursor] = time + i.delay]
      BY <1>7, <2>4 DEF WaitTime, Block
    <3>2. i.delay # 0 => time + i.delay > time
      BY <1>2, <2>1
    <3>3. QED
      BY <1>2, <1>3, <2>2, <3>1, <3>2 DEF TypeOK, ProcsTyped
  <2>5. QED
    BY <2>3, <2>4
<1>8. CASE WaitEvent(i) \/ WaitEdge(i) \/ WaitService(i)
  BY <1>2, <1>3, <1>8 DEF WaitEvent, WaitEdge, WaitService, Block, data, TypeOK, ProcsTyped
<1>9. CASE WaitCond(i)
  BY <1>2, <1>3, <1>9 DEF WaitCond, Block, waits, data, TypeOK, ProcsTyped
<1>10. CASE Fork(i)
  BY <1>3, <1>10 DEF Fork, data
<1>11. CASE DisableChild(i)
  BY <1>3, <1>11 DEF DisableChild, CountJoin, data, TypeOK, ProcsTyped
<1>12. CASE DisableCross(i)
  BY <1>3, <1>12 DEF DisableCross, data, TypeOK, ProcsTyped
<1>13. QED
  BY <1>4, <1>5, <1>6, <1>7, <1>8, <1>9, <1>10, <1>11, <1>12 DEF Exec

\* Time passes no sleeper and no delayed `<=`: both are woken at equality only.
THEOREM NeverOversleeps == Spec => []NoOversleep
<1>1. Init => NoOversleep
  BY DEF Init, NoOversleep
<1>2. TypeOK /\ NoOversleep /\ [Next]_vars => NoOversleep'
  <2> SUFFICES ASSUME TypeOK, NoOversleep, [Next]_vars PROVE NoOversleep'
    OBVIOUS
  <2>1. CASE UNCHANGED vars
    BY <2>1 DEF vars, procs, waits, data, clock, NoOversleep
  <2>2. ASSUME NEW i \in Fetched, Exec(i) PROVE NoOversleep'
    BY <2>2, ExecOnTime
  <2>3. CASE ~UNCHANGED vars /\ ~(\E i \in Fetched : Exec(i))
    BY <2>3, SchedStepOnTime DEF Next, Kernel, Stopped
  <2>4. QED
    BY <2>1, <2>2, <2>3
<1>3. QED
  BY <1>1, <1>2, SchedulerTyped, PTL DEF Spec

(* Fork and join.                                                             *)

\* Whether branch c counts for a join.
Counts(c) == state[c] # "DONE" \/ (at = "after" /\ c = cursor)

\* A step after which no join is new and the same branches count keeps the books.
LEMMA SameBranchesCount ==
  ASSUME JoinAccounting,
         \A p \in Procs : wait_kind'[p] = "JOIN" =>
             /\ wait_kind[p] = "JOIN" /\ wait_on'[p] = wait_on[p]
             /\ join_count'[p] = join_count[p],
         \A c \in Procs : Counts(c)' <=> Counts(c)
  PROVE  JoinAccounting'
<1> SUFFICES ASSUME NEW p \in Procs, wait_kind'[p] = "JOIN"
             PROVE  join_count'[p] > 0 /\ join_count'[p] = Cardinality(Outstanding(p)')
  BY DEF JoinAccounting
<1>1. Outstanding(p)' = Outstanding(p)
  BY DEF Outstanding, Children, Counts
<1>2. QED
  BY <1>1 DEF JoinAccounting

\* A branch c that stops counting is subtracted from the join of its own fork.
LEMMA CountJoinBalances ==
  ASSUME TypeOK, JoinAccounting, NEW c \in Procs, NEW st, NEW wk,
         wk \in [Procs -> {"NONE", "TIME", "EVENT", "COND", "JOIN",
                           "DELTA", "EDGE", "SERVICE"}],
         CountJoin(c, st, wk), wait_on' = wait_on,
         \A p \in Procs : wk[p] = "JOIN" => wait_kind[p] = "JOIN",
         Counts(c),
         \A d \in Procs : Counts(d)' <=> d # c /\ Counts(d)
  PROVE  JoinAccounting'
<1> SUFFICES ASSUME NEW p \in Procs, wait_kind'[p] = "JOIN"
             PROVE  join_count'[p] > 0 /\ join_count'[p] = Cardinality(Outstanding(p)')
  BY DEF JoinAccounting
<1>1. wk[p] = "JOIN"
  BY DEF CountJoin
<1>2. wait_kind[p] = "JOIN" /\ join_count[p] > 0 /\ join_count[p] = Cardinality(Outstanding(p))
  BY <1>1 DEF JoinAccounting
<1>3. join_count \in [Procs -> Nat]
  BY DEF TypeOK, ProcsTyped
<1>4. CASE p = Parent[c] /\ wait_on[p].tag = JoinTag[c]
  <2>1. p # NoParent
    BY SchedulerAssumption DEF Procs, NoParent
  <2> DEFINE left == IF join_count[p] > 0 THEN join_count[p] - 1 ELSE 0
  <2>2. /\ join_count' = [join_count EXCEPT ![p] = left]
        /\ wait_kind' = IF left = 0 THEN [wk EXCEPT ![p] = "NONE"] ELSE wk
    BY <1>2, <1>4, <2>1 DEF CountJoin
  <2>3. left # 0
    BY <2>2
  <2>4. join_count'[p] = join_count[p] - 1 /\ join_count[p] - 1 > 0
    BY <1>2, <1>3, <2>2, <2>3
  <2>5. Outstanding(p)' = Outstanding(p) \ {c}
    BY DEF Outstanding, Children, Counts
  <2>6. c \in Outstanding(p)
    BY <1>4 DEF Outstanding, Children, Counts
  <2>7. Outstanding(p) \in SUBSET Procs
    BY DEF Outstanding, Children
  <2>8. Cardinality(Outstanding(p)') = Cardinality(Outstanding(p)) - 1
    BY <2>5, <2>6, <2>7, ProcsFinite, FS_RemoveElement
  <2>9. QED
    BY <1>2, <2>4, <2>8
<1>5. CASE ~(p = Parent[c] /\ wait_on[p].tag = JoinTag[c])
  <2>1. join_count'[p] = join_count[p]
    BY <1>3, <1>5 DEF CountJoin
  <2>2. c \notin Children(p, wait_on[p].tag)
    BY <1>5 DEF Children
  <2>3. Outstanding(p)' = Outstanding(p)
    BY <2>2 DEF Outstanding, Children, Counts
  <2>4. QED
    BY <1>2, <2>1, <2>3
<1>6. QED
  BY <1>4, <1>5

\* The host and the scheduler loop: only the end of an exec step is counted.
LEMMA SchedStepBalances ==
  ASSUME TypeOK, WaitInv, JoinAccounting,
         \/ (\E interrupted \in BOOLEAN : Dispatch(interrupted)) \/ DrainServices
         \/ BeginActive \/ (\E p \in Procs : RunNext(p)) \/ ExecReturns \/ EndPass
         \/ ScanActive \/ CommitNba \/ WakeAfterNba \/ AdvanceTime \/ Quiesce \/ EndStep
  PROVE  JoinAccounting'
<1>1. cursor \in Procs /\ state \in [Procs -> {"READY", "BLOCKED", "DONE"}]
  BY DEF TypeOK, ProcsTyped, ControlTyped, CountersTyped
<1>2. ASSUME NEW W, Wake(W), \A p \in W \cap Procs : state[p] = "BLOCKED",
             UNCHANGED <<wait_on, join_count>>, at # "after", at' # "after"
      PROVE  JoinAccounting'
  <2>1. \A p \in Procs : wait_kind'[p] = "JOIN" => wait_kind[p] = "JOIN"
    BY <1>2 DEF Wake
  <2>2. \A c \in Procs : Counts(c)' <=> Counts(c)
    BY <1>2 DEF Counts, Wake
  <2>3. QED
    BY <1>2, <2>1, <2>2, SameBranchesCount
<1>3. ASSUME UNCHANGED <<wait_kind, wait_on, join_count, state>>, at # "after", at' # "after"
      PROVE  JoinAccounting'
  <2>1. \A c \in Procs : Counts(c)' <=> Counts(c)
    BY <1>3 DEF Counts
  <2>2. QED
    BY <1>3, <2>1, SameBranchesCount
<1>4. CASE DrainServices
  <2>1. \A p \in Answered \cap Procs : state[p] = "BLOCKED"
    BY DEF Answered, WaitInv, WaitsMatchStates
  <2>2. QED
    BY <1>2, <1>4, <2>1 DEF DrainServices, control
<1>5. CASE ScanActive
  <2>1. \A p \in (Triggered \cup DeltaWaiters) \cap Procs : state[p] = "BLOCKED"
    BY DEF Triggered, DeltaWaiters
  <2>2. QED
    BY <1>2, <1>5, <2>1 DEF ScanActive
<1>6. CASE WakeAfterNba
  <2>1. \A p \in Triggered \cap Procs : state[p] = "BLOCKED"
    BY DEF Triggered
  <2>2. at # "after" /\ at' # "after"
    BY <1>6 DEF WakeAfterNba
  <2>3. QED
    BY <1>2, <1>6, <2>1, <2>2 DEF WakeAfterNba
<1>7. CASE AdvanceTime
  <2>1. PICK next \in Deadlines : Wake({p \in Sleepers : wait_time[p] = next})
    BY <1>7 DEF AdvanceTime
  <2>2. \A p \in {q \in Sleepers : wait_time[q] = next} \cap Procs : state[p] = "BLOCKED"
    BY DEF Sleepers, WaitInv, WaitsMatchStates
  <2>3. QED
    BY <1>2, <1>7, <2>1, <2>2 DEF AdvanceTime
<1>8. CASE ExecReturns
  <2>1. at = "after" /\ at' = "procs" /\ wait_on' = wait_on /\ cursor' = cursor
    BY <1>8 DEF ExecReturns
  <2>2. CASE state[cursor] = "DONE"
    <3>1. CountJoin(cursor, state, wait_kind)
      BY <1>8, <2>2 DEF ExecReturns
    <3>2. Counts(cursor)
      BY <2>1 DEF Counts
    <3>3. \A d \in Procs : state'[d] = "DONE" <=> state[d] = "DONE"
      BY <1>1, <3>1 DEF CountJoin, WaitInv, WaitsMatchStates
    <3>4. \A d \in Procs : Counts(d)' <=> d # cursor /\ Counts(d)
      BY <2>1, <2>2, <3>3 DEF Counts
    <3>5. QED
      BY <1>1, <2>1, <3>1, <3>2, <3>4, CountJoinBalances DEF TypeOK, ProcsTyped
  <2>3. CASE state[cursor] # "DONE"
    <3>1. UNCHANGED <<state, wait_kind, join_count>>
      BY <1>8, <2>3 DEF ExecReturns
    <3>2. \A c \in Procs : Counts(c)' <=> Counts(c)
      BY <2>1, <2>3, <3>1 DEF Counts
    <3>3. QED
      BY <2>1, <3>1, <3>2, SameBranchesCount
  <2>4. QED
    BY <2>2, <2>3
<1>9. CASE \/ \E interrupted \in BOOLEAN : Dispatch(interrupted)
           \/ BeginActive \/ \E p \in Procs : RunNext(p)
           \/ EndPass \/ CommitNba \/ Quiesce \/ EndStep
  <2>1. UNCHANGED <<wait_kind, wait_on, join_count, state>>
    BY <1>9 DEF Dispatch, BeginActive, RunNext, EndPass, CommitNba, Quiesce, EndStep, procs, waits
  <2>2. at # "after" /\ at' # "after"
    BY <1>9 DEF Dispatch, BeginActive, RunNext, EndPass, CommitNba, Quiesce, EndStep
  <2>3. QED
    BY <1>3, <2>1, <2>2
<1>10. QED
  BY <1>4, <1>5, <1>6, <1>7, <1>8, <1>9

\* The VM: an instruction may start a fork or stop a branch; an end of the
\* running process itself is counted when its exec step returns.
LEMMA ExecBalances ==
  ASSUME TypeOK, WaitInv, JoinAccounting, NEW i \in Fetched, Exec(i)
  PROVE  JoinAccounting'
<1>1. /\ cursor \in Procs /\ at = "vm" /\ state[cursor] = "READY"
      /\ wait_kind[cursor] = "NONE" /\ cursor' = cursor
      /\ (Continues \/ at' = "after")
  <2>1. at = "vm" /\ cursor' = cursor /\ (Continues \/ at' = "after")
    BY DEF Exec, Assign, AssignNb, StoreHeld, AssignDelay, AssignDelayNb, EventTrigger,
           WaitTime, WaitEvent, WaitEdge, WaitCond, Fork, DisableChild, DisableCross,
           ServiceCall, WaitService, Halt, Done, Continues, Yields, Returns
  <2>2. QED
    BY <2>1 DEF WaitInv, RunningIsReady, WaitsMatchStates, TypeOK, ControlTyped, CountersTyped
<1>2. Continues => at' = "vm"
  BY <1>1 DEF Continues
<1>3. /\ state \in [Procs -> {"READY", "BLOCKED", "DONE"}]
      /\ wait_kind \in [Procs -> {"NONE", "TIME", "EVENT", "COND", "JOIN",
                                  "DELTA", "EDGE", "SERVICE"}]
      /\ wait_on \in [Procs -> {NoWait, WaitServiceOp} \cup Statements]
      /\ join_count \in [Procs -> Nat]
  BY DEF TypeOK, ProcsTyped
<1>4. ASSUME UNCHANGED <<wait_kind, wait_on, join_count, state>>
      PROVE  JoinAccounting'
  <2>1. \A c \in Procs : Counts(c)' <=> Counts(c)
    BY <1>1, <1>2, <1>4 DEF Counts
  <2>2. QED
    BY <1>4, <2>1, SameBranchesCount
<1>5. ASSUME NEW kind, kind # "JOIN", Block(kind, i), join_count' = join_count, at' = "after"
      PROVE  JoinAccounting'
  <2>1. \A c \in Procs : Counts(c)' <=> Counts(c)
    BY <1>1, <1>3, <1>5 DEF Counts, Block
  <2>2. \A p \in Procs : wait_kind'[p] = "JOIN" =>
             /\ wait_kind[p] = "JOIN" /\ wait_on'[p] = wait_on[p]
             /\ join_count'[p] = join_count[p]
    BY <1>1, <1>3, <1>5 DEF Block
  <2>3. QED
    BY <2>1, <2>2, SameBranchesCount
<1>6. ASSUME NEW st \in {"READY", "DONE"}, state' = [state EXCEPT ![cursor] = st],
             UNCHANGED <<wait_kind, wait_on, join_count>>, at' = "after"
      PROVE  JoinAccounting'
  <2>1. \A c \in Procs : Counts(c)' <=> Counts(c)
    BY <1>1, <1>3, <1>6 DEF Counts
  <2>2. QED
    BY <1>6, <2>1, SameBranchesCount
<1>7. CASE \/ Assign(i) \/ AssignNb(i) \/ StoreHeld(i) \/ AssignDelayNb(i)
           \/ EventTrigger(i) \/ ServiceCall(i)
  BY <1>4, <1>7 DEF Assign, AssignNb, StoreHeld, AssignDelayNb, EventTrigger, ServiceCall, waits
<1>8. CASE AssignDelay(i)
  <2>1. CASE i.delay = 0
    BY <1>4, <1>8, <2>1 DEF AssignDelay, waits
  <2>2. CASE i.delay # 0
    BY <1>5, <1>8, <2>2 DEF AssignDelay, Yields, Returns
  <2>3. QED
    BY <2>1, <2>2
<1>9. CASE WaitTime(i)
  <2>1. at' = "after" /\ join_count' = join_count
    BY <1>9 DEF WaitTime, Yields, Returns
  <2>2. CASE error
    BY <1>6, <1>9, <2>1, <2>2 DEF WaitTime
  <2>3. CASE ~error
    <3>1. Block(IF i.delay = 0 THEN "DELTA" ELSE "TIME", i)
      BY <1>9, <2>3 DEF WaitTime
    <3>2. (IF i.delay = 0 THEN "DELTA" ELSE "TIME") # "JOIN"
      OBVIOUS
    <3>3. QED
      BY <1>5, <2>1, <3>1, <3>2
  <2>4. QED
    BY <2>2, <2>3
<1>10. CASE WaitEvent(i) \/ WaitEdge(i) \/ WaitService(i)
  BY <1>5, <1>10 DEF WaitEvent, WaitEdge, WaitService, Yields, Returns
<1>11. CASE WaitCond(i)
  <2>1. CASE UNCHANGED waits
    BY <1>4, <1>11, <2>1 DEF WaitCond, waits
  <2>2. CASE Yields /\ Block("COND", i)
    BY <1>5, <1>11, <2>2 DEF WaitCond, Yields, Returns
  <2>3. QED
    BY <1>11, <2>1, <2>2 DEF WaitCond
<1>12. CASE Fork(i)
  <2> DEFINE kids == Children(cursor, i.tag)
  <2>1. \E c \in Procs : Parent[c] = cursor /\ i.tag = JoinTag[c]
    BY <1>12, FetchedTyped DEF Fork
  <2>2. kids # {} /\ kids \in SUBSET Procs /\ cursor \notin kids
    BY <1>1, <2>1, Family DEF Children
  <2>3. Cardinality(kids) \in Nat /\ Cardinality(kids) > 0
    BY <2>2, ProcsFinite, FS_EmptySet
  <2>4. at' = "after"
    BY <1>12 DEF Fork, Yields, Returns
  <2>5. \A c \in Procs : state'[c] # "DONE" <=> c \in kids \/ c = cursor \/ state[c] # "DONE"
    BY <1>12 DEF Fork
  <2>6. ASSUME NEW p \in Procs, wait_kind'[p] = "JOIN"
        PROVE  join_count'[p] > 0 /\ join_count'[p] = Cardinality(Outstanding(p)')
    <3>1. CASE p = cursor
      <4>1. join_count'[p] = Cardinality(kids) /\ wait_on'[p] = i
        BY <1>1, <1>12, <3>1 DEF Fork
      <4>2. Outstanding(p)' = kids
        BY <2>5, <3>1, <4>1 DEF Outstanding, Children
      <4>3. QED
        BY <2>3, <4>1, <4>2
    <3>2. CASE p # cursor
      <4>1. p \notin kids /\ wait_kind[p] = "JOIN"
        BY <1>12, <3>2, <2>6 DEF Fork
      <4>2. join_count'[p] = join_count[p] /\ wait_on'[p] = wait_on[p]
        BY <1>12, <3>2, <4>1 DEF Fork
      <4>3. \A c \in Children(p, wait_on[p].tag) : c \notin kids
        BY <3>2 DEF Children
      <4>4. Outstanding(p)' = Outstanding(p)
        BY <1>1, <2>4, <2>5, <4>2, <4>3 DEF Outstanding, Children
      <4>5. QED
        BY <4>1, <4>2, <4>4 DEF JoinAccounting
    <3>3. QED
      BY <3>1, <3>2
  <2>7. QED
    BY <2>6 DEF JoinAccounting
<1>13. CASE DisableChild(i)
  <2>1. i.pid \in Branches(cursor)
    BY <1>13, FetchedTyped DEF DisableChild
  <2>2. i.pid \in Procs /\ i.pid # cursor /\ Parent[i.pid] \in Procs /\ Parent[i.pid] # i.pid
    BY <1>1, <2>1, Family
  <2>3. at' = "vm" /\ wait_on' = wait_on
    BY <1>2, <1>13 DEF DisableChild
  <2>4. CASE state[i.pid] = "DONE"
    BY <1>4, <1>13, <2>4 DEF DisableChild
  <2>5. CASE state[i.pid] # "DONE"
    <3> DEFINE st == [state EXCEPT ![i.pid] = "DONE"]
               wk == [wait_kind EXCEPT ![i.pid] = "NONE"]
    <3>1. CountJoin(i.pid, st, wk)
      BY <1>13, <2>5 DEF DisableChild
    <3>2. /\ wk \in [Procs -> {"NONE", "TIME", "EVENT", "COND", "JOIN",
                               "DELTA", "EDGE", "SERVICE"}]
          /\ \A p \in Procs : wk[p] = "JOIN" => wait_kind[p] = "JOIN"
      BY <1>3, <2>2
    <3>3. \A d \in Procs : st[d] # "DONE" <=> d # i.pid /\ state[d] # "DONE"
      BY <1>3, <2>2
    <3>4. wait_kind[Parent[i.pid]] = "JOIN" => st[Parent[i.pid]] # "DONE"
      BY <2>2, <3>3 DEF WaitInv, WaitsMatchStates
    <3>5. st \in [Procs -> {"READY", "BLOCKED", "DONE"}]
      BY <1>3, <2>2
    <3> HIDE DEF st, wk
    <3>6. \A d \in Procs : state'[d] # "DONE" <=> d # i.pid /\ state[d] # "DONE"
      BY <2>2, <3>1, <3>3, <3>4, <3>5 DEF CountJoin
    <3>7. \A d \in Procs : Counts(d)' <=> d # i.pid /\ Counts(d)
      BY <1>1, <2>3, <3>6 DEF Counts
    <3>8. Counts(i.pid)
      BY <2>5 DEF Counts
    <3>9. QED
      BY <2>2, <2>3, <3>1, <3>2, <3>7, <3>8, CountJoinBalances
  <2>6. QED
    BY <2>4, <2>5
<1>14. CASE DisableCross(i)
  <2>1. i.pid \in 0 .. RootCount - 1 /\ i.pid # cursor
    BY <1>14, FetchedTyped DEF DisableCross
  <2>2. i.pid \in Procs /\ Parent[i.pid] = NoParent
    BY <2>1, SchedulerAssumption DEF Procs
  <2>3. /\ state' = [state EXCEPT ![i.pid] = "READY"]
        /\ wait_kind' = [wait_kind EXCEPT ![i.pid] = "NONE"]
        /\ wait_on' = wait_on /\ join_count' = join_count /\ at' = "vm"
    BY <1>2, <1>14 DEF DisableCross
  <2>4. ASSUME NEW p \in Procs, wait_kind'[p] = "JOIN"
        PROVE  join_count'[p] > 0 /\ join_count'[p] = Cardinality(Outstanding(p)')
    <3>1. wait_kind[p] = "JOIN"
      BY <1>3, <2>3, <2>4
    <3>2. i.pid \notin Children(p, wait_on[p].tag)
      BY <2>2, SchedulerAssumption DEF Children, NoParent, Procs
    <3>3. Outstanding(p)' = Outstanding(p)
      BY <1>1, <1>3, <2>3, <3>2 DEF Outstanding, Children
    <3>4. QED
      BY <2>3, <3>1, <3>3 DEF JoinAccounting
  <2>5. QED
    BY <2>4 DEF JoinAccounting
<1>15. CASE Halt(i) \/ Done(i)
  <2>1. at' = "after" /\ UNCHANGED <<wait_kind, wait_on, join_count>>
    BY <1>15 DEF Halt, Done, Yields, Returns
  <2>2. \/ state' = [state EXCEPT ![cursor] = "READY"]
        \/ state' = [state EXCEPT ![cursor] = "DONE"]
    BY <1>1, <1>3, <1>15 DEF Halt, Done
  <2>3. QED
    BY <1>6, <2>1, <2>2
<1>16. QED
  BY <1>7, <1>8, <1>9, <1>10, <1>11, <1>12, <1>13, <1>14, <1>15 DEF Exec

\* A fork waits for exactly its branches that are not over, however branches end,
\* are disabled by each other, and are started again.
THEOREM JoinsBalance == Spec => []JoinAccounting
<1>1. Init => WaitInv /\ JoinAccounting
  BY SchedulerAssumption DEF Init, WaitInv, WaitsMatchStates, RunningIsReady, Procs, JoinAccounting
<1>2. TypeOK /\ WaitInv /\ [Next]_vars => WaitInv'
  BY WaitsStep
<1>3. TypeOK /\ WaitInv /\ JoinAccounting /\ [Next]_vars => JoinAccounting'
  <2> SUFFICES ASSUME TypeOK, WaitInv, JoinAccounting, [Next]_vars PROVE JoinAccounting'
    OBVIOUS
  <2>1. CASE UNCHANGED vars
    <3>1. UNCHANGED <<wait_kind, wait_on, join_count, state, at, cursor>>
      BY <2>1 DEF vars, procs, waits, control
    <3>2. QED
      BY <3>1, SameBranchesCount DEF Counts
  <2>2. ASSUME NEW i \in Fetched, Exec(i) PROVE JoinAccounting'
    BY <2>2, ExecBalances
  <2>3. CASE ~UNCHANGED vars /\ ~(\E i \in Fetched : Exec(i))
    BY <2>3, SchedStepBalances DEF Next, Kernel, Stopped
  <2>4. QED
    BY <2>1, <2>2, <2>3
<1>4. QED
  BY <1>1, <1>2, <1>3, SchedulerTyped, PTL DEF Spec

-----------------------------------------------------------------------------
(* The delay bit of sched_wait_id.  HoldersComeBack is inductive on top of *)
(* WaitInv: what wakes a process only ever wakes one that is not DONE, and *)
(* a process with the bit set fetches nothing but the statement that       *)
(* clears it.                                                              *)

\* A step that moves no instruction pointer and revives nobody keeps it.
LEMMA NoRevival ==
  ASSUME HoldersComeBack, ip' = ip, holding' = holding,
         \A p \in Procs : state[p] = "DONE" => state'[p] = "DONE"
  PROVE  HoldersComeBack'
BY DEF HoldersComeBack, CrossTargets, Statements

\* Waking processes that wait revives nobody.
LEMMA WakeRevivesNone ==
  ASSUME TypeOK, WaitsMatchStates, NEW W, Wake(W),
         \A p \in W \cap Procs : state[p] = "BLOCKED" \/ wait_kind[p] # "NONE"
  PROVE  \A p \in Procs : state[p] = "DONE" => state'[p] = "DONE"
BY DEF Wake, WaitsMatchStates, TypeOK, ProcsTyped

\* Every step outside the VM keeps the delay bits with their statements.
LEMMA SchedStepHolds ==
  ASSUME TypeOK, WaitInv, HoldersComeBack,
         \/ (\E interrupted \in BOOLEAN : Dispatch(interrupted)) \/ DrainServices
         \/ BeginActive \/ (\E p \in Procs : RunNext(p)) \/ ExecReturns \/ EndPass
         \/ ScanActive \/ CommitNba \/ WakeAfterNba \/ AdvanceTime \/ Quiesce \/ EndStep
  PROVE  HoldersComeBack'
<1>1. WaitsMatchStates
  BY DEF WaitInv
<1>2. ip' = ip /\ holding' = holding
  BY DEF Dispatch, DrainServices, BeginActive, RunNext, ExecReturns, EndPass, ScanActive,
         CommitNba, WakeAfterNba, AdvanceTime, Quiesce, EndStep, procs
<1>3. CASE DrainServices
  BY <1>1, <1>2, <1>3, WakeRevivesNone, NoRevival DEF DrainServices, Answered
<1>4. CASE ScanActive
  <2>1. \A p \in Triggered \cup DeltaWaiters : state[p] = "BLOCKED"
    BY DEF Triggered, DeltaWaiters
  <2>2. QED
    BY <1>1, <1>2, <1>4, <2>1, WakeRevivesNone, NoRevival DEF ScanActive
<1>5. CASE WakeAfterNba
  <2>1. \A p \in Triggered : state[p] = "BLOCKED"
    BY DEF Triggered
  <2>2. QED
    BY <1>1, <1>2, <1>5, <2>1, WakeRevivesNone, NoRevival DEF WakeAfterNba
<1>6. CASE AdvanceTime
  <2>1. PICK next : Wake({p \in Sleepers : wait_time[p] = next})
    BY <1>6 DEF AdvanceTime
  <2>2. QED
    BY <1>1, <1>2, <2>1, WakeRevivesNone, NoRevival DEF Sleepers
<1>7. CASE ExecReturns
  <2>1. \A p \in Procs : state[p] = "DONE" => wait_kind[p] = "NONE"
    BY <1>1 DEF WaitsMatchStates, TypeOK, ProcsTyped
  <2>2. \A p \in Procs : state[p] = "DONE" => state'[p] = "DONE"
    BY <1>7, <2>1 DEF ExecReturns, CountJoin, TypeOK, ProcsTyped
  <2>3. QED
    BY <1>2, <2>2, NoRevival
<1>8. CASE \/ \E interrupted \in BOOLEAN : Dispatch(interrupted)
           \/ BeginActive \/ (\E p \in Procs : RunNext(p))
           \/ EndPass \/ CommitNba \/ Quiesce \/ EndStep
  BY <1>2, <1>8, NoRevival DEF Dispatch, BeginActive, RunNext, EndPass, CommitNba, Quiesce,
                               EndStep, procs, waits
<1>9. QED
  BY <1>3, <1>4, <1>5, <1>6, <1>7, <1>8

\* A process that is no target of a `disable` fetches, with the delay bit set, the
\* delayed `=` it comes back to.
LEMMA HolderFetches ==
  ASSUME TypeOK, WaitInv, HoldersComeBack, at = "vm", NEW i \in Fetched,
         cursor \notin CrossTargets, holding[cursor]
  PROVE  i.op = "ASSIGN_DELAY" /\ ~i.nb
<1>1. cursor \in Procs /\ state[cursor] # "DONE"
  BY DEF WaitInv, RunningIsReady, TypeOK, ControlTyped, CountersTyped
<1>2. ip[cursor] \in Delayed /\ ~ip[cursor].nb
  BY <1>1 DEF HoldersComeBack
<1>3. ip[cursor].op = "ASSIGN_DELAY"
  BY <1>2, SchedulerAssumption DEF DelayedAssign
<1>4. ip[cursor] # Anywhere
  BY <1>3 DEF Anywhere
<1>5. i = ip[cursor]
  BY <1>4 DEF Fetched
<1>6. QED
  BY <1>2, <1>3, <1>5

\* Every instruction keeps the delay bits with their statements.
LEMMA ExecHolds ==
  ASSUME TypeOK, WaitInv, HoldersComeBack, NEW i \in Fetched, Exec(i)
  PROVE  HoldersComeBack'
<1>1. at = "vm" /\ cursor \in Procs /\ state[cursor] = "READY"
  <2>1. at = "vm"
    BY DEF Exec, Assign, AssignNb, StoreHeld, AssignDelay, AssignDelayNb, EventTrigger,
           WaitTime, WaitEvent, WaitEdge, WaitCond, Fork, DisableChild, DisableCross,
           ServiceCall, WaitService, Halt, Done, Continues, Yields, Returns
  <2>2. QED
    BY <2>1 DEF WaitInv, RunningIsReady, TypeOK, ControlTyped, CountersTyped
<1>2. i.op # "ASSIGN_DELAY" /\ cursor \notin CrossTargets => ~holding[cursor]
  BY <1>1, HolderFetches
<1>3. /\ state \in [Procs -> {"READY", "BLOCKED", "DONE"}]
      /\ holding \in [Procs -> BOOLEAN]
      /\ DOMAIN ip = Procs
  BY DEF TypeOK, ProcsTyped
<1>4. CrossTargets' = CrossTargets
  BY DEF CrossTargets, Statements
<1>5. ASSUME NEW next, NEW h \in BOOLEAN, PointsAt(next, h),
             \A p \in Procs \ {cursor} : state'[p] = state[p],
             cursor \notin CrossTargets /\ h => next \in Delayed /\ ~next.nb
      PROVE  HoldersComeBack'
  BY <1>1, <1>3, <1>4, <1>5 DEF PointsAt, HoldersComeBack
<1>6. ASSUME MovesOn, \A p \in Procs \ {cursor} : state'[p] = state[p],
             i.op = "ASSIGN_DELAY" => ~holding[cursor]
      PROVE  HoldersComeBack'
  <2>1. holding[cursor] \in BOOLEAN
    BY <1>1, <1>3
  <2>2. QED
    BY <1>2, <1>5, <1>6, <2>1 DEF MovesOn
<1>7. CASE Assign(i) \/ AssignNb(i) \/ EventTrigger(i) \/ WaitTime(i) \/ WaitEvent(i)
  BY <1>1, <1>3, <1>6, <1>7 DEF Assign, AssignNb, EventTrigger, WaitTime, WaitEvent, Block, waits
<1>8. CASE WaitService(i) \/ Halt(i) \/ Done(i)
  BY <1>1, <1>3, <1>6, <1>8 DEF WaitService, Halt, Done, Block
<1>9. CASE StoreHeld(i) \/ WaitEdge(i)
  BY <1>1, <1>3, <1>5, <1>9 DEF StoreHeld, WaitEdge, Block, waits
<1>10. CASE AssignDelayNb(i)
  BY <1>6, <1>10 DEF AssignDelayNb, waits
<1>11. CASE AssignDelay(i)
  <2>1. i \in Delayed
    BY <1>11, FetchedTyped DEF AssignDelay
  <2>2. CASE i.delay = 0
    BY <1>6, <1>11, <2>2 DEF AssignDelay, waits
  <2>3. CASE i.delay # 0
    BY <1>1, <1>3, <1>5, <1>11, <2>1, <2>3 DEF AssignDelay, Block
  <2>4. QED
    BY <2>2, <2>3
<1>12. CASE WaitCond(i)
  BY <1>1, <1>3, <1>5, <1>6, <1>12 DEF WaitCond, Block, waits
<1>13. CASE ServiceCall(i)
  <2>1. holding[cursor] \in BOOLEAN /\ (cursor \notin CrossTargets => ~holding[cursor])
    BY <1>1, <1>2, <1>3, <1>13 DEF ServiceCall
  <2>2. state' = state
    BY <1>13 DEF ServiceCall, waits
  <2>3. QED
    BY <1>5, <1>13, <2>1, <2>2 DEF ServiceCall
<1>14. CASE Fork(i)
  BY <1>3, <1>4, <1>14 DEF Fork, ClearHold, HoldersComeBack
<1>15. CASE DisableChild(i)
  <2>1. i.pid \in Procs /\ i.pid # cursor
    BY <1>1, <1>15, FetchedTyped, Family DEF DisableChild
  <2>2. holding' = holding /\ (cursor \notin CrossTargets => ~holding[cursor])
    BY <1>2, <1>15 DEF DisableChild
  <2>3. \A p \in Procs \ {cursor} : /\ p # i.pid => ip'[p] = ip[p]
                                    /\ state[p] = "DONE" => state'[p] = "DONE"
                                    /\ p = i.pid => state'[p] = "DONE"
    <3>1. CASE state[i.pid] = "DONE"
      BY <1>3, <1>15, <3>1 DEF DisableChild
    <3>2. CASE state[i.pid] # "DONE"
      <4>1. \A p \in Procs : state[p] = "DONE" => wait_kind[p] = "NONE"
        BY DEF WaitInv, WaitsMatchStates, TypeOK, ProcsTyped
      <4>2. Parent[i.pid] # i.pid
        BY <2>1, SchedulerAssumption
      <4>3. QED
        BY <1>3, <1>15, <2>1, <3>2, <4>1, <4>2 DEF DisableChild, CountJoin, TypeOK, ProcsTyped
    <3>3. QED
      BY <3>1, <3>2
  <2>4. QED
    BY <1>1, <1>4, <2>2, <2>3 DEF HoldersComeBack
<1>16. CASE DisableCross(i)
  <2>1. i \in Statements
    BY <1>16, FetchedTyped DEF DisableCross, WaitServiceOp
  <2>2. i.pid \in CrossTargets
    BY <1>16, <2>1 DEF DisableCross, CrossTargets
  <2>3. QED
    BY <1>1, <1>2, <1>3, <1>4, <1>16, <2>2 DEF DisableCross, HoldersComeBack
<1>17. QED
  BY <1>7, <1>8, <1>9, <1>10, <1>11, <1>12, <1>13, <1>14, <1>15, <1>16 DEF Exec

\* The held value of a delayed `=` is stored by the statement that computed it, in
\* every process that no other process disables.
THEOREM HoldersReturn == Spec => []HoldersComeBack
<1>1. Init => WaitInv /\ HoldersComeBack
  BY SchedulerAssumption DEF Init, WaitInv, WaitsMatchStates, RunningIsReady, HoldersComeBack, Procs
<1>2. TypeOK /\ WaitInv /\ HoldersComeBack /\ [Next]_vars => HoldersComeBack'
  <2> SUFFICES ASSUME TypeOK, WaitInv, HoldersComeBack, [Next]_vars
               PROVE  HoldersComeBack'
    OBVIOUS
  <2>1. CASE UNCHANGED vars
    BY <2>1, NoRevival DEF vars, procs, waits
  <2>2. CASE \E i \in Fetched : Exec(i)
    BY <2>2, ExecHolds
  <2>3. CASE ~UNCHANGED vars /\ ~(\E i \in Fetched : Exec(i))
    BY <2>3, SchedStepHolds DEF Next, Kernel, Stopped
  <2>4. QED
    BY <2>1, <2>2, <2>3
<1>3. TypeOK /\ WaitInv /\ [Next]_vars => WaitInv'
  BY WaitsStep
<1>4. QED
  BY <1>1, <1>2, <1>3, SchedulerTyped, PTL DEF Spec

-----------------------------------------------------------------------------
(* Where the clock may move and where the run may end: an invariant for each  *)
(* value of `at`, the place of sched_step, on top of the invariants about     *)
(* waits, deadlines and joins.                                                *)

\* Processes run in the active phase, after the snapshot of the NBA buffer.
RunsWhenActive == at \in {"procs", "vm", "after", "scan"} => phase = "ACTIVE" /\ ~active_init

\* The NBA phase begins when nobody waits for a delta, and nobody starts to.
NbaBeginsExhausted == phase = "NBA" => ~active_init /\ DeltaWaiters = {}

\* After the commit every `<=` has landed and the nets agree with their drivers.
Landed == at \in {"wake", "advance"} =>
    /\ phase = "NBA" /\ sig = Settle(sig)
    /\ \A t \in NbTargets : nb[t] = sig[t]

\* The scan after the commit found nothing to wake.
NothingToWake == at \in {"advance", "end"} => Runnable = {} /\ Triggered = {}
EndsExhausted == at = "end" => Deadlines = {} /\ DeltaWaiters = {}
EndsServed == at = "end" /\ finished => \A p \in Procs : wait_kind[p] # "SERVICE"

\* $finish leaves no step to the dispatch, so the loop head returns next.
FinishReturns ==
    /\ at \in {"vm", "after"} => did_work
    /\ finished => \/ at \in {"host", "end"}
                   \/ steps = 0 /\ (at \in {"after", "loop"} \/ (at = "procs" /\ did_work))

\* A process in an edge wait is in a WAIT_EDGE.
EdgeWaitsHaveItems == \A p \in Procs : wait_kind[p] = "EDGE" =>
    wait_on[p] \in Statements /\ wait_on[p].op = "WAIT_EDGE"

ClockInv == /\ RunsWhenActive /\ NbaBeginsExhausted /\ Landed /\ NothingToWake
            /\ EndsExhausted /\ EndsServed /\ FinishReturns /\ EdgeWaitsHaveItems

\* A process starts to wait for an edge in a WAIT_EDGE only.
LEMMA ExecEdgeWaits ==
  ASSUME TypeOK, EdgeWaitsHaveItems, NEW i \in Fetched, Exec(i)
  PROVE  EdgeWaitsHaveItems'
<1>1. ASSUME UNCHANGED <<wait_kind, wait_on>> PROVE EdgeWaitsHaveItems'
  BY <1>1 DEF EdgeWaitsHaveItems, Statements
<1>2. ASSUME NEW kind, Block(kind, i),
             kind = "EDGE" => i \in Statements /\ i.op = "WAIT_EDGE"
      PROVE  EdgeWaitsHaveItems'
  BY <1>2 DEF Block, EdgeWaitsHaveItems, Statements, TypeOK, ProcsTyped
<1>3. CASE Assign(i) \/ AssignNb(i) \/ StoreHeld(i) \/ AssignDelayNb(i) \/ EventTrigger(i)
           \/ ServiceCall(i) \/ Halt(i) \/ Done(i)
  BY <1>1, <1>3 DEF Assign, AssignNb, StoreHeld, AssignDelayNb, EventTrigger, ServiceCall,
                    Halt, Done, waits
<1>4. CASE AssignDelay(i)
  BY <1>1, <1>2, <1>4 DEF AssignDelay, waits
<1>5. CASE WaitTime(i)
  BY <1>1, <1>2, <1>5 DEF WaitTime
<1>6. CASE WaitEvent(i) \/ WaitCond(i) \/ WaitService(i)
  BY <1>1, <1>2, <1>6 DEF WaitEvent, WaitCond, WaitService, waits
<1>7. CASE WaitEdge(i)
  <2>1. i \in Statements /\ i.op = "WAIT_EDGE"
    BY <1>7, FetchedTyped DEF WaitEdge, WaitServiceOp
  <2>2. QED
    BY <1>2, <1>7, <2>1 DEF WaitEdge
<1>8. CASE Fork(i)
  BY <1>8 DEF Fork, EdgeWaitsHaveItems, Statements
<1>9. CASE DisableChild(i)
  BY <1>9 DEF DisableChild, CountJoin, EdgeWaitsHaveItems, Statements, TypeOK,
              ProcsTyped
<1>10. CASE DisableCross(i)
  BY <1>10 DEF DisableCross, EdgeWaitsHaveItems, Statements, TypeOK, ProcsTyped
<1>11. QED
  BY <1>3, <1>4, <1>5, <1>6, <1>7, <1>8, <1>9, <1>10 DEF Exec

\* The VM runs in the active phase and returns to the end of the exec step.
LEMMA ExecClock ==
  ASSUME TypeOK, ClockInv, NEW i \in Fetched, Exec(i)
  PROVE  ClockInv'
<1>1. /\ at = "vm" /\ UNCHANGED clock /\ did_work' = did_work
      /\ \/ at' = "vm" /\ finished' = finished
         \/ at' = "after" /\ (finished' = finished \/ steps' = 0)
  BY DEF Exec, Assign, AssignNb, StoreHeld, AssignDelay, AssignDelayNb, EventTrigger,
         WaitTime, WaitEvent, WaitEdge, WaitCond, Fork, DisableChild, DisableCross,
         ServiceCall, WaitService, Halt, Done, Continues, Yields, Returns
<1>2. phase = "ACTIVE" /\ ~active_init /\ did_work /\ ~finished
  BY <1>1 DEF ClockInv, RunsWhenActive, FinishReturns
<1>3. /\ phase' = "ACTIVE" /\ ~active_init' /\ did_work'
      /\ finished' => at' = "after" /\ steps' = 0
  BY <1>1, <1>2 DEF clock
<1>4. RunsWhenActive' /\ NbaBeginsExhausted' /\ FinishReturns'
  BY <1>1, <1>3 DEF RunsWhenActive, NbaBeginsExhausted, FinishReturns
<1>5. Landed' /\ NothingToWake' /\ EndsExhausted' /\ EndsServed'
  BY <1>1 DEF Landed, NothingToWake, EndsExhausted, EndsServed
<1>6. QED
  BY <1>4, <1>5, ExecEdgeWaits DEF ClockInv

\* Settled nets stay settled: no driver is a net.
LEMMA SettleTwice ==
  ASSUME NEW s
  PROVE  /\ Settle(Settle(s)) = Settle(s)
         /\ \A t \in Regs : Settle(s)[t] = s[t]
<1>1. \A x \in Nets : Driver[x] \in Regs \ Nets
  BY SchedulerAssumption
<1>2. Regs \subseteq Signals /\ Regs \cap Nets = {}
  BY SchedulerAssumption DEF Signals
<1>3. QED
  BY <1>1, <1>2 DEF Settle

\* The commit lands every `<=` and settles the nets.
LEMMA CommitLands ==
  ASSUME CommitNba
  PROVE  Landed'
<1>1. nb' = nb /\ phase' = phase /\ phase = "NBA"
  BY DEF CommitNba, clock
<1>2. /\ sig' = Settle(sig')
      /\ \A t \in NbTargets : sig'[t] = nb[t]
  BY SettleTwice, SchedulerAssumption DEF CommitNba, Committed, Signals
<1>3. Settle(sig)' = Settle(sig')
  BY DEF Settle
<1>4. QED
  BY <1>1, <1>2, <1>3 DEF Landed

\* Waking nobody new starts no wait.
LEMMA WakeStartsNothing ==
  ASSUME NEW W, Wake(W), NEW kind, kind # "NONE"
  PROVE  \A p \in Procs : wait_kind'[p] = kind => wait_kind[p] = kind /\ p \notin W
BY DEF Wake

\* The items of an edge wait.
LEMMA EdgeItemsTyped ==
  ASSUME NEW i \in Statements, i.op = "WAIT_EDGE"
  PROVE  i.items \subseteq Signals \X EdgeKinds
<1>1. PICK p \in Procs : i \in Program[p]
  BY DEF Statements
<1>2. i \in Instructions(p)
  BY <1>1, SchedulerAssumption
<1>3. i \notin Delayed
  BY SchedulerAssumption DEF DelayedAssign
<1>4. QED
  BY <1>2, <1>3 DEF Instructions

\* A scan that wakes nobody leaves nothing behind that would wake somebody: its
\* events are consumed, and the edge waits compare with the present values.
LEMMA ScanTakesAll ==
  ASSUME TypeOK, EdgeWaitsHaveItems, Wake(Triggered), Triggered = {},
         edge_prev' = Sampled, pending' = {}, UNCHANGED <<wait_on, sig>>
  PROVE  Triggered' = {} /\ state' = state /\ wait_kind' = wait_kind
<1>1. state' = state /\ wait_kind' = wait_kind
  BY DEF Wake, TypeOK, ProcsTyped
<1>2. ASSUME NEW p \in Procs, state[p] = "BLOCKED", wait_kind[p] = "EDGE",
             NEW item \in wait_on[p].items
      PROVE  ~EdgeFires(item[2], Sampled[p][item[1]], sig[item[1]])
  <2>1. wait_on[p].op = "WAIT_EDGE" /\ item \in Signals \X EdgeKinds
    BY <1>2, EdgeItemsTyped DEF EdgeWaitsHaveItems
  <2>2. item[1] \in Watched(p) /\ item[1] \in Signals /\ item[2] \in EdgeKinds
    BY <2>1 DEF Watched
  <2>3. Sampled[p][item[1]] = sig[item[1]]
    BY <1>2, <2>2 DEF Sampled, EdgeWaiters
  <2>4. QED
    BY <2>2, <2>3 DEF EdgeFires, EdgeKinds
<1>3. ASSUME NEW p \in Procs, state[p] = "BLOCKED", wait_kind[p] = "EDGE"
      PROVE  ~EdgeSeen(p)'
  BY <1>2, <1>3 DEF EdgeSeen
<1>4. QED
  BY <1>1, <1>3 DEF Triggered

\* The loop of sched_step up to the end of the active phase.
LEMMA ActiveStepClock ==
  ASSUME TypeOK, WaitInv, ClockInv,
         \/ BeginActive \/ (\E p \in Procs : RunNext(p)) \/ ExecReturns \/ EndPass \/ ScanActive
  PROVE  ClockInv'
<1> USE DEF ClockInv
<1>1. CASE BeginActive
  <2>1. UNCHANGED <<wait_kind, wait_on, phase, finished, steps>> /\ phase = "ACTIVE"
    BY <1>1 DEF BeginActive, procs, waits, outcome
  <2>2. at' = "procs" /\ active_init' = FALSE /\ steps # 0 /\ at = "loop"
    BY <1>1 DEF BeginActive, TypeOK, ControlTyped, CountersTyped
  <2>3. QED
    BY <2>1, <2>2 DEF RunsWhenActive, NbaBeginsExhausted, Landed, NothingToWake, EndsExhausted,
                      EndsServed, FinishReturns, EdgeWaitsHaveItems, Statements
<1>2. CASE \E p \in Procs : RunNext(p)
  <2>1. UNCHANGED <<wait_kind, wait_on, phase, active_init, finished>>
    BY <1>2 DEF RunNext, procs, waits, clock, outcome
  <2>2. at = "procs" /\ at' = "vm" /\ did_work' = TRUE /\ steps # 0
    BY <1>2 DEF RunNext, TypeOK, ControlTyped, CountersTyped
  <2>3. QED
    BY <2>1, <2>2 DEF RunsWhenActive, NbaBeginsExhausted, Landed, NothingToWake, EndsExhausted,
                      EndsServed, FinishReturns, EdgeWaitsHaveItems, Statements
<1>3. CASE ExecReturns
  <2>1. UNCHANGED <<wait_on, phase, active_init, finished, steps, did_work>>
    BY <1>3 DEF ExecReturns, clock, outcome
  <2>2. at = "after" /\ at' = "procs"
    BY <1>3 DEF ExecReturns
  <2>3. \A p \in Procs : wait_kind'[p] = "EDGE" => wait_kind[p] = "EDGE"
    BY <1>3 DEF ExecReturns, CountJoin, TypeOK, ProcsTyped
  <2>4. QED
    BY <2>1, <2>2, <2>3 DEF RunsWhenActive, NbaBeginsExhausted, Landed, NothingToWake,
                      EndsExhausted, EndsServed, FinishReturns, EdgeWaitsHaveItems, Statements
<1>4. CASE EndPass
  <2>1. UNCHANGED <<wait_kind, wait_on, phase, active_init, finished>>
    BY <1>4 DEF EndPass, procs, waits, clock, outcome
  <2>2. /\ at = "procs" /\ at' \in {"loop", "scan"}
        /\ steps' = steps \/ steps' = 0
        /\ finished => did_work' = TRUE /\ at' = "loop"
    BY <1>4 DEF EndPass, StepsLeft, FinishReturns
  <2>3. QED
    BY <2>1, <2>2 DEF RunsWhenActive, NbaBeginsExhausted, Landed, NothingToWake, EndsExhausted,
                      EndsServed, FinishReturns, EdgeWaitsHaveItems, Statements
<1>5. CASE ScanActive
  <2>1. UNCHANGED <<wait_on, active_init, finished>> /\ at = "scan" /\ at' = "loop"
    BY <1>5 DEF ScanActive, outcome
  <2>2. ~active_init /\ ~finished
    BY <2>1 DEF RunsWhenActive, FinishReturns
  <2>3. phase' = "NBA" => DeltaWaiters' = {}
    BY <1>5 DEF ScanActive, Wake, DeltaWaiters
  <2>4. \A p \in Procs : wait_kind'[p] = "EDGE" => wait_kind[p] = "EDGE"
    BY <1>5 DEF ScanActive, Wake
  <2>5. QED
    BY <2>1, <2>2, <2>3, <2>4 DEF RunsWhenActive, NbaBeginsExhausted, Landed, NothingToWake,
                      EndsExhausted, EndsServed, FinishReturns, EdgeWaitsHaveItems, Statements
<1>6. QED
  BY <1>1, <1>2, <1>3, <1>4, <1>5

\* The NBA phase, the advance of time, and the host.
LEMMA NbaStepClock ==
  ASSUME TypeOK, WaitInv, ClockInv,
         \/ CommitNba \/ WakeAfterNba \/ AdvanceTime \/ Quiesce \/ EndStep
         \/ DrainServices \/ \E interrupted \in BOOLEAN : Dispatch(interrupted)
  PROVE  ClockInv'
<1> USE DEF ClockInv
<1>1. CASE CommitNba
  <2>1. UNCHANGED <<state, wait_kind, wait_on, phase, active_init, finished, steps, nb>>
    BY <1>1 DEF CommitNba, procs, waits, clock, outcome
  <2>2. at = "loop" /\ at' = "wake" /\ phase = "NBA" /\ steps # 0
    BY <1>1 DEF CommitNba, TypeOK, ControlTyped, CountersTyped
  <2>4. DeltaWaiters' = DeltaWaiters
    BY <2>1 DEF DeltaWaiters
  <2>5. Landed'
    BY <1>1, CommitLands
  <2>6. QED
    BY <2>1, <2>2, <2>4, <2>5 DEF RunsWhenActive, NbaBeginsExhausted, NothingToWake,
                      EndsExhausted, EndsServed, FinishReturns, EdgeWaitsHaveItems, Statements
<1>2. CASE WakeAfterNba
  <2>1. UNCHANGED <<wait_on, sig, nb, finished>> /\ at = "wake" /\ at' \in {"loop", "advance"}
    BY <1>2 DEF WakeAfterNba, outcome
  <2>2. ~finished /\ ~active_init /\ phase = "NBA"
    BY <2>1 DEF FinishReturns, Landed, NbaBeginsExhausted
  <2>3. \A p \in Procs : wait_kind'[p] = "EDGE" => wait_kind[p] = "EDGE"
    BY <1>2 DEF WakeAfterNba, Wake
  <2>4. CASE Triggered \cup Runnable = {}
    <3>1. at' = "advance" /\ UNCHANGED <<phase, active_init, steps>>
      BY <1>2, <2>4 DEF WakeAfterNba
    <3>2. Triggered' = {} /\ state' = state /\ wait_kind' = wait_kind
      BY <1>2, <2>1, <2>4, ScanTakesAll DEF WakeAfterNba
    <3>3. Runnable' = {} /\ DeltaWaiters' = DeltaWaiters
      BY <2>4, <3>2 DEF Runnable, DeltaWaiters
    <3>4. Landed'
      <4>1. Settle(sig)' = Settle(sig)
        BY <2>1 DEF Settle
      <4>2. QED
        BY <2>1, <2>2, <3>1, <4>1 DEF Landed
    <3>5. QED
      BY <2>1, <2>2, <2>3, <3>1, <3>2, <3>3, <3>4 DEF RunsWhenActive, NbaBeginsExhausted,
         NothingToWake, EndsExhausted, EndsServed, FinishReturns, EdgeWaitsHaveItems, Statements
  <2>5. CASE Triggered \cup Runnable # {}
    <3>1. at' = "loop" /\ phase' = "ACTIVE"
      BY <1>2, <2>5 DEF WakeAfterNba
    <3>2. QED
      BY <2>1, <2>2, <2>3, <3>1 DEF RunsWhenActive, NbaBeginsExhausted, Landed, NothingToWake,
                      EndsExhausted, EndsServed, FinishReturns, EdgeWaitsHaveItems, Statements
  <2>6. QED
    BY <2>4, <2>5
<1>3. CASE AdvanceTime
  <2>1. /\ UNCHANGED <<wait_on, finished>> /\ at = "advance" /\ at' = "loop"
        /\ phase' = "ACTIVE" /\ ~finished
    BY <1>3 DEF AdvanceTime, outcome, FinishReturns
  <2>2. \A p \in Procs : wait_kind'[p] = "EDGE" => wait_kind[p] = "EDGE"
    BY <1>3 DEF AdvanceTime, Wake
  <2>3. QED
    BY <2>1, <2>2 DEF RunsWhenActive, NbaBeginsExhausted, Landed, NothingToWake,
                      EndsExhausted, EndsServed, FinishReturns, EdgeWaitsHaveItems, Statements
<1>4. CASE Quiesce
  <2>1. /\ UNCHANGED <<procs, data, clock>> /\ at = "advance" /\ at' = "end" /\ Deadlines = {}
        /\ finished' = (finished \/ \A p \in Procs : wait_kind[p] # "SERVICE")
    BY <1>4 DEF Quiesce
  <2>2. UNCHANGED <<state, wait_kind, wait_on, wait_time, sig, pending, edge_prev, dnba, phase,
                    active_init>>
    BY <2>1 DEF procs, waits, data, clock
  <2>3. /\ Triggered' = Triggered /\ Runnable' = Runnable /\ DeltaWaiters' = DeltaWaiters
        /\ Deadlines' = Deadlines
    BY <2>2 DEF Triggered, EdgeSeen, Runnable, DeltaWaiters, Deadlines, Sleepers
  <2>4. ~finished /\ phase = "NBA"
    BY <2>1 DEF FinishReturns, Landed
  <2>5. EndsServed'
    BY <2>1, <2>2, <2>4 DEF EndsServed
  <2>6. QED
    BY <2>1, <2>2, <2>3, <2>4, <2>5 DEF RunsWhenActive, NbaBeginsExhausted, Landed, NothingToWake,
                      EndsExhausted, FinishReturns, EdgeWaitsHaveItems, Statements
<1>5. CASE EndStep
  <2>1. UNCHANGED <<wait_kind, wait_on, state, phase, active_init>> /\ at' = "host"
    BY <1>5 DEF EndStep, procs, waits, clock
  <2>2. DeltaWaiters' = DeltaWaiters
    BY <2>1 DEF DeltaWaiters
  <2>3. QED
    BY <2>1, <2>2 DEF RunsWhenActive, NbaBeginsExhausted, Landed, NothingToWake,
                      EndsExhausted, EndsServed, FinishReturns, EdgeWaitsHaveItems, Statements
<1>6. CASE DrainServices
  <2>1. UNCHANGED <<wait_on, phase, active_init, finished, at>> /\ at = "host"
    BY <1>6 DEF DrainServices, clock, outcome, control
  <2>2. /\ \A p \in Procs : wait_kind'[p] = "EDGE" => wait_kind[p] = "EDGE"
        /\ DeltaWaiters' \subseteq DeltaWaiters
    BY <1>6 DEF DrainServices, Wake, DeltaWaiters
  <2>3. QED
    BY <2>1, <2>2 DEF RunsWhenActive, NbaBeginsExhausted, Landed, NothingToWake,
                      EndsExhausted, EndsServed, FinishReturns, EdgeWaitsHaveItems, Statements
<1>7. CASE \E interrupted \in BOOLEAN : Dispatch(interrupted)
  <2>1. /\ UNCHANGED <<wait_kind, wait_on, state, phase, active_init>>
        /\ at' = "loop" /\ finished' = FALSE
    BY <1>7 DEF Dispatch, procs, waits, clock
  <2>2. DeltaWaiters' = DeltaWaiters
    BY <2>1 DEF DeltaWaiters
  <2>3. QED
    BY <2>1, <2>2 DEF RunsWhenActive, NbaBeginsExhausted, Landed, NothingToWake,
                      EndsExhausted, EndsServed, FinishReturns, EdgeWaitsHaveItems, Statements
<1>8. QED
  BY <1>1, <1>2, <1>3, <1>4, <1>5, <1>6, <1>7

\* Every step keeps it.
LEMMA ClockStep ==
  ASSUME TypeOK, WaitInv, ClockInv, [Next]_vars
  PROVE  ClockInv'
<1>1. CASE UNCHANGED vars
  <2>1. UNCHANGED <<Triggered, Runnable, DeltaWaiters, Deadlines>> /\ Settle(sig)' = Settle(sig)
    BY <1>1 DEF vars, procs, waits, data, Triggered, EdgeSeen, Runnable, DeltaWaiters,
                Deadlines, Sleepers, Settle
  <2>2. QED
    BY <1>1, <2>1 DEF vars, procs, waits, data, clock, outcome, control, ClockInv,
       RunsWhenActive, NbaBeginsExhausted, Landed, NothingToWake, EndsExhausted, EndsServed,
       FinishReturns, EdgeWaitsHaveItems, Statements
<1>2. CASE \E i \in Fetched : Exec(i)
  BY <1>2, ExecClock
<1>3. CASE ~UNCHANGED vars /\ ~(\E i \in Fetched : Exec(i))
  BY <1>3, ActiveStepClock, NbaStepClock DEF Next, Kernel, Stopped
<1>4. QED
  BY <1>1, <1>2, <1>3

\* The clock's invariant holds throughout.
LEMMA ClockInvariant == Spec => []ClockInv
<1>1. Init => ClockInv
  BY DEF Init, ClockInv, RunsWhenActive, NbaBeginsExhausted, Landed, NothingToWake,
         EndsExhausted, EndsServed, FinishReturns, EdgeWaitsHaveItems
<1>2. Init => WaitInv
  BY SchedulerAssumption DEF Init, WaitInv, WaitsMatchStates, RunningIsReady, Procs
<1>3. TypeOK /\ WaitInv /\ [Next]_vars => WaitInv'
  BY WaitsStep
<1>4. TypeOK /\ WaitInv /\ ClockInv /\ [Next]_vars => ClockInv'
  BY ClockStep
<1>5. QED
  BY <1>1, <1>2, <1>3, <1>4, SchedulerTyped, PTL DEF Spec

\* Only AdvanceTime moves the clock.
LEMMA OnlyAdvanceMoves ==
  ASSUME [Next]_vars, time' # time
  PROVE  AdvanceTime
<1>1. ~UNCHANGED time
  OBVIOUS
<1>2. ASSUME NEW i \in Fetched, Exec(i) PROVE FALSE
  BY <1>1, <1>2 DEF Exec, Assign, AssignNb, StoreHeld, AssignDelay, AssignDelayNb, EventTrigger,
         WaitTime, WaitEvent, WaitEdge, WaitCond, Fork, DisableChild, DisableCross,
         ServiceCall, WaitService, Halt, Done, Continues, Yields, Returns, clock
<1>3. ~UNCHANGED clock
  BY <1>1 DEF clock
<1>4. CASE ~(\E i \in Fetched : Exec(i))
  BY <1>1, <1>3, <1>4 DEF Next, Kernel, Dispatch, DrainServices, Stopped, BeginActive, RunNext,
         ExecReturns, EndPass, ScanActive, CommitNba, WakeAfterNba, Quiesce, EndStep, vars
<1>5. QED
  BY <1>2, <1>4

\* The clock moves forward, and only from a time that is exhausted: nobody can run
\* or be woken, every `<=` has landed, and the nets agree with their drivers.
THEOREM TimeIsExhausted == Spec => TimeLeavesNothingBehind
<1> DEFINE Exhausted == time' # time =>
        /\ time' > time
        /\ Runnable = {} /\ DeltaWaiters = {} /\ Triggered = {}
        /\ \A t \in NbTargets : nb[t] = sig[t]
        /\ sig = Settle(sig)
<1>1. TypeOK /\ NoOversleep /\ ClockInv /\ [Next]_vars => [Exhausted]_vars
  <2> SUFFICES ASSUME TypeOK, NoOversleep, ClockInv, [Next]_vars, time' # time
               PROVE  /\ time' > time
                      /\ Runnable = {} /\ DeltaWaiters = {} /\ Triggered = {}
                      /\ \A t \in NbTargets : nb[t] = sig[t]
                      /\ sig = Settle(sig)
    OBVIOUS
  <2>1. AdvanceTime
    BY OnlyAdvanceMoves
  <2>2. at = "advance"
    BY <2>1 DEF AdvanceTime
  <2>3. /\ Runnable = {} /\ Triggered = {} /\ sig = Settle(sig)
        /\ \A t \in NbTargets : nb[t] = sig[t]
        /\ DeltaWaiters = {} /\ ~active_init
    BY <2>2 DEF ClockInv, Landed, NothingToWake, NbaBeginsExhausted
  <2>4. \A t \in Deadlines : t > time
    BY <2>3 DEF Deadlines, Sleepers, NoOversleep
  <2>5. time' \in Deadlines
    BY <2>1 DEF AdvanceTime
  <2>6. QED
    BY <2>3, <2>4, <2>5
<1>2. QED
  BY <1>1, SchedulerTyped, NeverOversleeps, ClockInvariant, PTL DEF Spec, TimeLeavesNothingBehind

\* The scheduler ends a run by itself only when no process can ever run again.
THEOREM OnlyStuckRunsFinish == Spec => []FinishedMeansStuck
<1>1. TypeOK /\ WaitsMatchStates /\ JoinAccounting /\ ClockInv => FinishedMeansStuck
  <2> SUFFICES ASSUME TypeOK, WaitsMatchStates, JoinAccounting, ClockInv, at = "end"
               PROVE  /\ dnba = {} /\ Triggered = {}
                      /\ \A p \in Procs : state[p] # "DONE" =>
                           /\ wait_kind[p] \in {"NONE", "EVENT", "EDGE", "COND", "JOIN", "SERVICE"}
                           /\ wait_kind[p] = "SERVICE" => ~finished
                           /\ wait_kind[p] = "NONE" => state[p] = "BLOCKED"
                           /\ wait_kind[p] = "JOIN" => \E c \in Children(p, wait_on[p].tag) :
                                                           state[c] # "DONE"
    BY DEF FinishedMeansStuck
  <2>1. Runnable = {} /\ Triggered = {} /\ Deadlines = {} /\ DeltaWaiters = {}
    BY DEF ClockInv, NothingToWake, EndsExhausted
  <2>2. dnba = {} /\ Sleepers = {}
    BY <2>1 DEF Deadlines
  <2>3. ASSUME NEW p \in Procs, state[p] # "DONE"
        PROVE  /\ wait_kind[p] \in {"NONE", "EVENT", "EDGE", "COND", "JOIN", "SERVICE"}
               /\ wait_kind[p] = "SERVICE" => ~finished
               /\ wait_kind[p] = "NONE" => state[p] = "BLOCKED"
    <3>1. state[p] = "BLOCKED"
      BY <2>1, <2>3 DEF Runnable, TypeOK, ProcsTyped
    <3>2. wait_kind[p] # "TIME" /\ wait_kind[p] # "DELTA"
      BY <2>1, <2>2, <3>1 DEF Sleepers, DeltaWaiters
    <3>3. QED
      BY <3>1, <3>2 DEF ClockInv, EndsServed, TypeOK, ProcsTyped
  <2>4. ASSUME NEW p \in Procs, wait_kind[p] = "JOIN"
        PROVE  \E c \in Children(p, wait_on[p].tag) : state[c] # "DONE"
    <3>1. Cardinality(Outstanding(p)) > 0
      BY <2>4 DEF JoinAccounting
    <3>2. Outstanding(p) # {}
      BY <3>1, FS_EmptySet
    <3>3. QED
      BY <3>2 DEF Outstanding
  <2>5. QED
    BY <2>1, <2>2, <2>3, <2>4
<1>2. QED
  BY <1>1, SchedulerTyped, WaitsMatch, JoinsBalance, ClockInvariant, PTL

(* The queue of delayed `<=`.  That the slots are dense needs that no two     *)
(* entries share one: then compaction, which gives an entry its rank, maps    *)
(* the entries that stay one to one to as many first slots.                   *)
OneSlotEach == \A e, f \in dnba : e.slot = f.slot => e = f

QueueInv == DnbaSlotsDense /\ OneSlotEach

\* Compaction keeps the number of entries and fills the first slots, one each.
LEMMA CompactedDense ==
  ASSUME TypeOK, OneSlotEach, NEW kept \in SUBSET dnba
  PROVE  /\ Cardinality(Compacted(kept)) = Cardinality(kept)
         /\ Cardinality(kept) \in Nat /\ Cardinality(kept) <= Cardinality(dnba)
         /\ {e.slot : e \in Compacted(kept)} = 0 .. Cardinality(kept) - 1
         /\ \A e, f \in Compacted(kept) : e.slot = f.slot => e = f
<1> DEFINE n == Cardinality(kept)
           below == [e \in kept |-> {f \in kept : f.slot < e.slot}]
           rank == [e \in kept |-> Cardinality(below[e])]
           moved == [e \in kept |-> [e EXCEPT !.slot = rank[e]]]
<1>1. /\ IsFiniteSet(kept) /\ n \in Nat /\ n <= Cardinality(dnba)
      /\ \A e \in kept : e.slot \in Nat /\ e = [slot |-> e.slot, time |-> e.time, id |-> e.id,
                                                val |-> e.val]
  BY FS_Subset, FS_CardinalityType DEF TypeOK, DataTyped
<1>2. ASSUME NEW e \in kept
      PROVE  IsFiniteSet(below[e]) /\ rank[e] \in Nat /\ rank[e] < n
  <2>1. below[e] \in SUBSET kept /\ e \notin below[e]
    BY <1>1
  <2>2. /\ IsFiniteSet(below[e]) /\ Cardinality(below[e]) <= n
        /\ n = Cardinality(below[e]) => kept = below[e]
    BY <1>1, <2>1, FS_Subset
  <2>3. Cardinality(below[e]) \in Nat /\ rank[e] = Cardinality(below[e])
    BY <2>2, FS_CardinalityType
  <2>4. QED
    BY <1>1, <2>1, <2>2, <2>3
<1>3. ASSUME NEW e \in kept, NEW f \in kept, e.slot < f.slot
      PROVE  rank[e] < rank[f]
  <2>1. below[e] \in SUBSET below[f] /\ e \in below[f] /\ e \notin below[e]
    BY <1>1, <1>3
  <2>2. /\ Cardinality(below[e]) <= Cardinality(below[f])
        /\ Cardinality(below[f]) = Cardinality(below[e]) => below[f] = below[e]
    BY <1>2, <2>1, FS_Subset
  <2>3. rank[e] <= rank[f] /\ rank[e] # rank[f]
    BY <2>1, <2>2
  <2>4. rank[e] \in Nat /\ rank[f] \in Nat
    BY <1>2
  <2>5. QED
    BY <2>3, <2>4
<1>4. \A e, f \in kept : rank[e] = rank[f] => e = f
  <2> SUFFICES ASSUME NEW e \in kept, NEW f \in kept, rank[e] = rank[f] PROVE e = f
    OBVIOUS
  <2>1. rank[e] \in Nat /\ rank[f] \in Nat
    BY <1>2
  <2>2. ~(e.slot < f.slot) /\ ~(f.slot < e.slot)
    BY <1>3, <2>1
  <2>3. QED
    BY <1>1, <2>2 DEF OneSlotEach
<1>5. rank = [e \in kept |-> rank[e]]
  OBVIOUS
<1> HIDE DEF rank, n
<1>6. /\ rank \in [kept -> 0 .. n - 1]
      /\ IsFiniteSet(0 .. n - 1) /\ Cardinality(0 .. n - 1) = n
  <2> HIDE DEF below
  <2>1. n \in Nat
    BY <1>1
  <2>2. ASSUME NEW e \in kept PROVE rank[e] \in 0 .. n - 1
    <3>1. rank[e] \in Nat /\ rank[e] < n
      BY <1>2
    <3>2. QED
      BY <2>1, <3>1
  <2>3. rank \in [kept -> 0 .. n - 1]
    BY <1>5, <2>2
  <2>4. QED
    BY <2>1, <2>3, FS_Interval
<1>7. rank \in Surjection(kept, 0 .. n - 1)
  <2>1. rank \in Injection(kept, 0 .. n - 1)
    BY <1>4, <1>6 DEF Injection, IsInjective
  <2>2. QED
    BY <1>6, <2>1, FS_Injection, <1>1 DEF n
<1>8. /\ Compacted(kept) = {moved[e] : e \in kept}
      /\ \A e \in kept : moved[e].slot = rank[e]
  <2>1. \A e \in kept : rank[e] = Cardinality({f \in kept : f.slot < e.slot})
    BY DEF rank
  <2>2. Compacted(kept) = {moved[e] : e \in kept}
    BY <2>1 DEF Compacted
  <2>3. \A e \in kept : moved[e].slot = rank[e]
    BY <1>1 DEF n
  <2>4. QED
    BY <2>2, <2>3
<1> HIDE DEF moved
<1>9. \A e, f \in kept : moved[e].slot = moved[f].slot => moved[e] = moved[f]
  BY <1>4, <1>8
<1>10. Cardinality(Compacted(kept)) = n
  <2>1. moved \in Surjection(kept, Compacted(kept))
    BY <1>8 DEF moved, Surjection
  <2>2. moved \in Injection(kept, Compacted(kept))
    <3>1. \A e, f \in kept : moved[e] = moved[f] => e = f
      BY <1>4, <1>8
    <3>2. moved \in [kept -> Compacted(kept)]
      BY <2>1 DEF Surjection
    <3>3. QED
      BY <3>1, <3>2 DEF Injection, IsInjective
  <2>3. QED
    BY <1>1, <2>1, <2>2, FS_Surjection DEF n
<1>11. {e.slot : e \in Compacted(kept)} = 0 .. n - 1
  <2>1. {e.slot : e \in Compacted(kept)} = {rank[e] : e \in kept}
    BY <1>8
  <2>2. {rank[e] : e \in kept} = 0 .. n - 1
    BY <1>7 DEF Surjection
  <2>3. QED
    BY <2>1, <2>2
<1>12. n \in Nat /\ n <= Cardinality(dnba)
  BY <1>1
<1>13. QED
  BY <1>8, <1>9, <1>10, <1>11, <1>12 DEF n

\* The start of a delta and a delayed `<=` keep the queue dense; nothing else
\* touches it.
LEMMA QueueStep ==
  ASSUME TypeOK, QueueInv, [Next]_vars
  PROVE  QueueInv'
<1> USE DEF QueueInv
<1>1. CASE UNCHANGED dnba
  BY <1>1 DEF DnbaSlotsDense, OneSlotEach
<1>2. Cardinality(dnba) \in Nat /\ MaxDnba \in Nat /\ Cardinality(dnba) <= MaxDnba
  BY FS_CardinalityType, SchedulerAssumption DEF TypeOK, DataTyped, DnbaSlotsDense
<1>3. ASSUME NEW kept \in SUBSET dnba, dnba' = Compacted(kept)
      PROVE  QueueInv'
  <2>1. Cardinality(dnba') = Cardinality(kept) /\ Cardinality(kept) <= MaxDnba
    BY <1>2, <1>3, CompactedDense
  <2>2. QED
    BY <1>3, <2>1, CompactedDense DEF DnbaSlotsDense, OneSlotEach
<1>4. CASE BeginActive
  BY <1>1, <1>3, <1>4 DEF BeginActive
<1>5. ASSUME NEW i \in Fetched, AssignDelayNb(i)
      PROVE  QueueInv'
  <2> DEFINE left == dnba \ Cancelled(i)
             kept == Compacted(left)
             full == Cardinality(kept) >= MaxDnba
             entry == [slot |-> Cardinality(kept), time |-> time + i.delay, id |-> i,
                       val |-> IF PulseWithin(i, i.error) THEN "x" ELSE Eval(i.rhs)]
  <2>1. CASE i.delay = 0
    BY <1>1, <1>5, <2>1 DEF AssignDelayNb
  <2>2. CASE i.delay # 0 /\ (full \/ PulseWithin(i, i.reject))
    BY <1>3, <1>5, <2>2 DEF AssignDelayNb
  <2>3. CASE i.delay # 0 /\ ~full /\ ~PulseWithin(i, i.reject)
    <3>1. dnba' = kept \cup {entry}
      BY <1>5, <2>3 DEF AssignDelayNb
    <3>2. /\ Cardinality(kept) \in Nat
          /\ {e.slot : e \in kept} = 0 .. Cardinality(kept) - 1
          /\ \A e, f \in kept : e.slot = f.slot => e = f
      BY CompactedDense
    <3>3. IsFiniteSet(kept)
      BY CompactedTyped
    <3> HIDE DEF kept
    <3>4. entry.slot = Cardinality(kept) /\ \A e \in kept : e.slot # Cardinality(kept)
      BY <3>2
    <3>5. entry \notin kept
      BY <3>4
    <3>6. Cardinality(dnba') = Cardinality(kept) + 1
      BY <3>1, <3>3, <3>5, FS_AddElement
    <3> HIDE DEF entry
    <3>7. {e.slot : e \in dnba'} = (0 .. Cardinality(kept) - 1) \cup {Cardinality(kept)}
      BY <3>1, <3>2, <3>4
    <3>8. \A e, f \in dnba' : e.slot = f.slot => e = f
      BY <3>1, <3>2, <3>4
    <3>9. Cardinality(kept) < MaxDnba
      BY <1>2, <2>3, <3>2
    <3>10. {e.slot : e \in dnba'} = 0 .. Cardinality(dnba') - 1
      BY <3>2, <3>6, <3>7
    <3>11. QED
      BY <1>2, <3>2, <3>6, <3>8, <3>9, <3>10 DEF DnbaSlotsDense, OneSlotEach
  <2>4. QED
    BY <2>1, <2>2, <2>3
<1>6. ASSUME NEW i \in Fetched, Exec(i), ~AssignDelayNb(i)
      PROVE  UNCHANGED dnba
  BY <1>6 DEF Exec, Assign, AssignNb, StoreHeld, AssignDelay, EventTrigger, WaitTime, WaitEvent,
         WaitEdge, WaitCond, Fork, DisableChild, DisableCross, ServiceCall, WaitService, Halt,
         Done, data
<1>7. CASE ~BeginActive /\ ~(\E i \in Fetched : Exec(i))
  <2>1. UNCHANGED dnba
    BY <1>7 DEF Next, Kernel, Dispatch, DrainServices, Stopped, RunNext, ExecReturns, EndPass,
           ScanActive, CommitNba, WakeAfterNba, AdvanceTime, Quiesce, EndStep, vars, data
  <2>2. QED
    BY <1>1, <2>1
<1>8. QED
  BY <1>1, <1>4, <1>5, <1>6, <1>7

\* The delayed `<=` fill the first slots of their queue, one each, and never more
\* than it has.
THEOREM QueueStaysDense == Spec => []DnbaSlotsDense
<1>1. Init => QueueInv
  <2> SUFFICES ASSUME Init PROVE QueueInv
    OBVIOUS
  <2>1. dnba = {} /\ Cardinality(dnba) = 0 /\ 0 <= MaxDnba
    BY FS_EmptySet, SchedulerAssumption DEF Init
  <2>2. QED
    BY <2>1 DEF QueueInv, DnbaSlotsDense, OneSlotEach
<1>2. TypeOK /\ QueueInv /\ [Next]_vars => QueueInv'
  BY QueueStep
<1>3. QueueInv => DnbaSlotsDense
  BY DEF QueueInv
<1>4. QED
  BY <1>1, <1>2, <1>3, SchedulerTyped, PTL DEF Spec

(* The isolation of `<=`.  A `disable` from another process can leave the     *)
(* delay bit behind, and the next delayed assignment of that process, a `<=`  *)
(* too, would then store the held value at once: so the theorem asks that no  *)
(* process that others disable has a delayed `<=`.                            *)
DisabledHaveNoDelayedNb ==
    \A p \in CrossTargets : \A i \in Program[p] : i.op = "ASSIGN_DELAY" => ~i.nb

\* Only delayed `=` are come back to.
ComesBackToBlocking == \A p \in Procs : ip[p] \in Delayed => ~ip[p].nb

\* A delta starts with an NBA buffer that agrees with the regs.
BufferAgrees == active_init => \A t \in NbOnly : nb[t] = sig[t]

NbaInv == ComesBackToBlocking /\ BufferAgrees

\* What an instruction stores into the state buffer at once.
LEMMA ExecIsolates ==
  ASSUME DisabledHaveNoDelayedNb, TypeOK, WaitInv, HoldersComeBack, ComesBackToBlocking,
         NEW i \in Fetched, Exec(i), NEW t \in NbOnly
  PROVE  at = "vm" /\ UNCHANGED active_init /\ sig'[t] = sig[t]
<1>1. at = "vm" /\ UNCHANGED active_init
  BY DEF Exec, Assign, AssignNb, StoreHeld, AssignDelay, AssignDelayNb, EventTrigger,
         WaitTime, WaitEvent, WaitEdge, WaitCond, Fork, DisableChild, DisableCross,
         ServiceCall, WaitService, Halt, Done, Continues, Yields, Returns, clock
<1>2. /\ cursor \in Procs
      /\ i.op = "ASSIGN" => i \in Statements
      /\ i.op = "ASSIGN_DELAY" => i \in Statements
  BY FetchedTyped DEF TypeOK, ControlTyped, CountersTyped, WaitServiceOp
<1>3. i.op = "ASSIGN" \/ (i.op = "ASSIGN_DELAY" /\ ~i.nb) => i.lhs # t
  BY <1>2 DEF NbOnly
<1>4. CASE Assign(i)
  BY <1>1, <1>3, <1>4 DEF Assign, TypeOK, DataTyped
<1>5. CASE StoreHeld(i)
  <2>1. i.op = "ASSIGN_DELAY" /\ holding[cursor]
    BY <1>5 DEF StoreHeld
  <2>2. ~i.nb
    <3>1. CASE cursor \notin CrossTargets
      BY <1>1, <2>1, <3>1, HolderFetches
    <3>2. CASE cursor \in CrossTargets /\ ip[cursor] = Anywhere
      BY <2>1, <3>2 DEF Fetched, DisabledHaveNoDelayedNb
    <3>3. CASE ip[cursor] # Anywhere
      <4>1. i = ip[cursor]
        BY <3>3 DEF Fetched
      <4>2. i \in Delayed
        BY <2>1, FetchedTyped
      <4>3. QED
        BY <1>2, <4>1, <4>2 DEF ComesBackToBlocking
    <3>4. QED
      BY <3>1, <3>2, <3>3
  <2>3. QED
    BY <1>1, <1>3, <1>5, <2>1, <2>2 DEF StoreHeld, TypeOK, DataTyped
<1>6. CASE AssignDelay(i)
  <2>1. i.lhs # t
    BY <1>3, <1>6 DEF AssignDelay
  <2>2. sig' = sig \/ sig' = [sig EXCEPT ![i.lhs] = Eval(i.rhs)]
    BY <1>6 DEF AssignDelay
  <2>3. t \in Signals
    BY SchedulerAssumption DEF NbOnly, Signals
  <2>4. QED
    BY <1>1, <2>1, <2>2, <2>3 DEF TypeOK, DataTyped
<1>7. CASE ~Assign(i) /\ ~StoreHeld(i) /\ ~AssignDelay(i)
  <2>1. sig' = sig
    BY <1>7 DEF Exec, AssignNb, AssignDelayNb, EventTrigger, WaitTime, WaitEvent, WaitEdge,
           WaitCond, Fork, DisableChild, DisableCross, ServiceCall, WaitService, Halt, Done, data
  <2>2. QED
    BY <1>1, <2>1
<1>8. QED
  BY <1>4, <1>5, <1>6, <1>7

\* Only a delayed `=` sets the instruction pointer to an assignment.
LEMMA ExecComesBack ==
  ASSUME TypeOK, ComesBackToBlocking, NEW i \in Fetched, Exec(i)
  PROVE  ComesBackToBlocking'
<1>1. Anywhere \notin Delayed /\ WaitServiceOp \notin Delayed
  BY SchedulerAssumption DEF DelayedAssign, Anywhere, WaitServiceOp
<1>2. cursor \in Procs /\ DOMAIN ip = Procs
  BY DEF TypeOK, ControlTyped, CountersTyped, ProcsTyped
<1>3. ASSUME NEW next, NEW h, PointsAt(next, h), next \in Delayed => ~next.nb
      PROVE  ComesBackToBlocking'
  BY <1>2, <1>3 DEF PointsAt, ComesBackToBlocking
<1>4. MovesOn => ComesBackToBlocking'
  BY <1>1, <1>3 DEF MovesOn
<1>5. CASE AssignDelay(i)
  BY <1>3, <1>4, <1>5 DEF AssignDelay
<1>6. CASE StoreHeld(i) \/ WaitEdge(i) \/ WaitCond(i) \/ ServiceCall(i)
  BY <1>1, <1>3, <1>4, <1>6 DEF StoreHeld, WaitEdge, WaitCond, ServiceCall
<1>7. CASE Fork(i) \/ DisableChild(i) \/ DisableCross(i)
  BY <1>1, <1>2, <1>7 DEF Fork, DisableChild, DisableCross, ComesBackToBlocking
<1>8. QED
  BY <1>4, <1>5, <1>6, <1>7 DEF Exec, Assign, AssignNb, AssignDelayNb, EventTrigger, WaitTime,
     WaitEvent, WaitService, Halt, Done

\* The buffer and the regs of a `<=` only reg, in one step.
LEMMA NbaStep ==
  ASSUME DisabledHaveNoDelayedNb, TypeOK, WaitInv, HoldersComeBack, ClockInv, NbaInv,
         [Next]_vars
  PROVE  /\ NbaInv'
         /\ \A t \in NbOnly :
             /\ nb'[t] # nb[t] => at = "vm" \/ (nb[t] = sig[t] /\ \E e \in dnba : e.id.lhs = t)
             /\ sig'[t] # sig[t] => phase = "NBA" /\ sig'[t] = nb[t]
<1> DEFINE Isolated == \A t \in NbOnly :
             /\ nb'[t] # nb[t] => at = "vm" \/ (nb[t] = sig[t] /\ \E e \in dnba : e.id.lhs = t)
             /\ sig'[t] # sig[t] => phase = "NBA" /\ sig'[t] = nb[t]
<1> SUFFICES NbaInv' /\ Isolated
  OBVIOUS
<1>1. NbOnly \subseteq NbTargets /\ NbTargets \subseteq Regs /\ NbOnly' = NbOnly
  BY SchedulerAssumption DEF NbOnly, Statements
<1>2. ASSUME UNCHANGED <<ip, sig, nb>>, active_init' => active_init \/ at \in {"wake", "advance"}
      PROVE  NbaInv' /\ Isolated
  BY <1>1, <1>2 DEF NbaInv, ComesBackToBlocking, BufferAgrees, ClockInv, Landed
<1>3. CASE \E i \in Fetched : Exec(i)
  <2>1. PICK i \in Fetched : Exec(i)
    BY <1>3
  <2>2. \A t \in NbOnly : at = "vm" /\ UNCHANGED active_init /\ sig'[t] = sig[t]
    BY <2>1, ExecIsolates DEF NbaInv
  <2>3. ComesBackToBlocking'
    BY <2>1, ExecComesBack DEF NbaInv
  <2>4. at = "vm" => ~active_init
    BY DEF ClockInv, RunsWhenActive
  <2>5. BufferAgrees'
    BY <1>1, <2>2, <2>4 DEF BufferAgrees
  <2>6. QED
    BY <2>2, <2>3, <2>5 DEF NbaInv
<1>4. CASE BeginActive
  <2>1. /\ ip' = ip /\ active_init' = FALSE /\ sig' = Settle(sig)
        /\ nb' = IF active_init THEN NbSnapshot ELSE nb
    BY <1>4 DEF BeginActive, procs
  <2>2. ASSUME NEW t \in NbOnly
        PROVE  /\ sig'[t] = sig[t]
               /\ nb'[t] # nb[t] => nb[t] = sig[t] /\ \E e \in dnba : e.id.lhs = t
    <3>1. sig'[t] = sig[t]
      BY <1>1, <2>1, SettleTwice
    <3>2. ASSUME nb'[t] # nb[t]
          PROVE  nb[t] = sig[t] /\ \E e \in dnba : e.id.lhs = t
      <4>1. active_init /\ nb' = NbSnapshot
        BY <2>1, <3>2
      <4>2. nb[t] = sig[t]
        BY <4>1 DEF NbaInv, BufferAgrees
      <4>3. LastDue(t) # {}
        BY <1>1, <3>2, <4>1, <4>2 DEF NbSnapshot
      <4>4. QED
        BY <4>2, <4>3 DEF LastDue, Due
    <3>3. QED
      BY <3>1, <3>2
  <2>3. QED
    BY <2>1, <2>2 DEF NbaInv, ComesBackToBlocking, BufferAgrees
<1>5. CASE CommitNba
  <2>1. /\ UNCHANGED <<ip, nb, active_init>> /\ phase = "NBA" /\ sig' = Settle(Committed)
    BY <1>5 DEF CommitNba, procs, clock
  <2>2. \A t \in NbOnly : sig'[t] = nb[t]
    BY <1>1, <2>1, SettleTwice DEF Committed, Signals
  <2>3. QED
    BY <1>1, <2>1, <2>2 DEF NbaInv, ComesBackToBlocking, BufferAgrees
<1>6. CASE DrainServices
  <2>1. UNCHANGED <<ip, nb, active_init>>
    BY <1>6 DEF DrainServices, clock
  <2>2. \A t \in NbOnly : sig'[t] = sig[t]
    BY <1>1, <1>6 DEF DrainServices, NbOnly, Signals
  <2>3. QED
    BY <1>1, <2>1, <2>2 DEF NbaInv, ComesBackToBlocking, BufferAgrees
<1>7. CASE ScanActive \/ WakeAfterNba \/ AdvanceTime
  BY <1>2, <1>7 DEF ScanActive, WakeAfterNba, AdvanceTime, data
<1>8. CASE \/ \E interrupted \in BOOLEAN : Dispatch(interrupted)
           \/ \E p \in Procs : RunNext(p)
           \/ ExecReturns \/ EndPass \/ Quiesce \/ EndStep \/ UNCHANGED vars
  BY <1>2, <1>8 DEF Dispatch, RunNext, ExecReturns, EndPass, Quiesce, EndStep, vars, procs,
                    data, clock
<1>9. QED
  BY <1>3, <1>4, <1>5, <1>6, <1>7, <1>8 DEF Next, Kernel, Stopped

\* Nobody sees a `<=` before the NBA phase and none is lost before it, in a design
\* that does not disable a process with a delayed `<=` from another one.
THEOREM NbaIsIsolated == DisabledHaveNoDelayedNb => (Spec => NbaIsolation)
<1> SUFFICES ASSUME DisabledHaveNoDelayedNb PROVE Spec => NbaIsolation
  OBVIOUS
<1> DEFINE Isolated == \A t \in NbOnly :
        /\ nb'[t] # nb[t] => at = "vm" \/ (nb[t] = sig[t] /\ \E e \in dnba : e.id.lhs = t)
        /\ sig'[t] # sig[t] => phase = "NBA" /\ sig'[t] = nb[t]
<1>1. Init => WaitInv /\ NbaInv
  <2>1. Init => WaitInv
    BY SchedulerAssumption DEF Init, WaitInv, WaitsMatchStates, RunningIsReady, Procs
  <2>2. Anywhere \notin Delayed
    BY SchedulerAssumption DEF DelayedAssign, Anywhere
  <2>3. NbOnly \subseteq NbTargets \cap Signals
    BY SchedulerAssumption DEF NbOnly, Signals
  <2>4. Init => NbaInv
    BY <2>2, <2>3 DEF Init, NbaInv, ComesBackToBlocking, BufferAgrees
  <2>5. QED
    BY <2>1, <2>4
<1>2. TypeOK /\ WaitInv /\ [Next]_vars => WaitInv'
  BY WaitsStep
<1>3. TypeOK /\ WaitInv /\ HoldersComeBack /\ ClockInv /\ NbaInv /\ [Next]_vars
          => NbaInv' /\ [Isolated]_vars
  <2> SUFFICES ASSUME TypeOK, WaitInv, HoldersComeBack, ClockInv, NbaInv, [Next]_vars
               PROVE  NbaInv' /\ Isolated
    OBVIOUS
  <2>1. QED
    BY NbaStep
<1>4. QED
  BY <1>1, <1>2, <1>3, SchedulerTyped, HoldersReturn, ClockInvariant, PTL DEF Spec, NbaIsolation
=============================================================================
