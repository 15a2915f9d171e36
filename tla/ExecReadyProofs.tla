--------------------------- MODULE ExecReadyProofs ---------------------------
(***************************************************************************)
(* Proofs about ExecReady, for every design that satisfies                 *)
(* SchedulerAssumption and ExecReadyAssumption, every number of steps of a *)
(* thread and both ways to submit an iteration.  What a thread does with   *)
(* an instruction of Scheduler is taken from SchedulerProofs.              *)
(***************************************************************************)
EXTENDS ExecReady, SchedulerProofs

-----------------------------------------------------------------------------
(* Type correctness, with what the ready kernels hand on: ready_count stays    *)
(* in range only because the compaction starts from a count of zero.           *)

\* READY is enough to be flagged.
ReadyAreFree == \A p \in Procs : state[p] = "READY" => wait_kind[p] = "NONE"

\* What each ready kernel leaves to the next, and sched_step to its scan.
Gathered ==
    /\ stage \in {"wait_eval", "ready_flags", "ready_compact"} => ready_count = 0 /\ list = {}
    /\ stage = "ready_compact" => flags = Runnable
    /\ stage \in {"ready_dispatch", "exec_ready"} =>
           list = Runnable /\ ready_count = Cardinality(Runnable)
    /\ stage = "exec_ready" => Cardinality(list) <= grid
    /\ at = "scan" => Runnable = {}

\* Outside the dispatch of exec_ready the state is one of Scheduler.
LEMMA OutsideThreads ==
  ASSUME ExecTypeOK, stage # "threads"
  PROVE  TypeOK /\ live = {} /\ at \in SchedPlaces /\ reg = NoReg
BY DEF ExecTypeOK, ThreadsTyped, TypeOK, ControlTyped, SchedPlaces

\* And so it is while the thread at the cursor is in the VM.
LEMMA InsideThreads ==
  ASSUME ExecTypeOK, stage = "threads"
  PROVE  /\ cursor \in live /\ cursor \in Procs /\ at \in ThreadPlaces
         /\ steps \in 0 .. ProcSteps /\ burst \in 0 .. MaxBurst
         /\ at \in {"vm", "after"} => TypeOK /\ reg = NoReg
<1>1. Locals \in ThreadLocals /\ cursor \in live /\ LoadedAt(at, reg)
  BY DEF ExecTypeOK, ThreadsTyped
<1>2. at \in ThreadPlaces /\ steps \in 0 .. ProcSteps /\ burst \in 0 .. MaxBurst
  BY <1>1 DEF Locals, ThreadLocals
<1>3. at \in {"vm", "after"} => TypeOK /\ reg = NoReg
  BY <1>1 DEF ExecTypeOK, TypeOK, ControlTyped, LoadedAt
<1> QED
  BY <1>1, <1>2, <1>3 DEF ExecTypeOK, CountersTyped

\* A thread starts with nothing loaded.
LEMMA FreshTyped == Fresh \in ThreadLocals /\ LoadedAt(Fresh.at, Fresh.reg)
<1>1. 0 \in 0 .. MaxBurst /\ ProcSteps \in 0 .. ProcSteps
  BY SchedulerAssumption, ExecReadyAssumption
<1> QED
  BY <1>1 DEF Fresh, ThreadLocals, ThreadPlaces, LoadedAt

\* The host and sched_step: the places are those of sched_step without its process loop.
LEMMA HostStepTyped ==
  ASSUME ExecTypeOK,
         (\E interrupted \in BOOLEAN : Submit(interrupted)) \/ SchedStep \/ Drain
  PROVE  ExecTypeOK'
<1>1. stage \in {"sched_step", "ready_reset"}
  BY DEF Submit, SchedStep, Drain
<1>2. TypeOK /\ live = {} /\ at \in SchedPlaces /\ reg = NoReg
  BY <1>1, OutsideThreads
<1>3. UNCHANGED <<pipeline, threads>>
  BY DEF Submit, SchedStep, Drain
<1>4. TypeOK' /\ at' \in SchedPlaces /\ stage' \in {"sched_step", "ready_reset"}
      /\ (stage' = "ready_reset" => at' = "host")
  <2>1. CASE \E interrupted \in BOOLEAN : Submit(interrupted)
    <3>1. PICK interrupted \in BOOLEAN : Submit(interrupted)
      BY <2>1
    <3>2. Dispatch(interrupted) /\ stage = "sched_step" /\ stage' = stage
      BY <3>1 DEF Submit
    <3> QED
      BY <1>2, <3>2, SchedStepTyped DEF Dispatch, SchedPlaces
  <2>2. CASE SchedStep
    <3>1. \/ BeginActive \/ EndPass \/ ScanActive \/ CommitNba \/ WakeAfterNba
          \/ AdvanceTime \/ Quiesce \/ EndStep
      BY <2>2 DEF SchedStep
    <3>2. TypeOK'
      BY <1>2, <3>1, SchedStepTyped
    <3>3. at' \in SchedPlaces
      BY <3>1 DEF BeginActive, EndPass, ScanActive, CommitNba, WakeAfterNba, AdvanceTime,
                  Quiesce, EndStep, SchedPlaces
    <3> QED
      BY <2>2, <3>2, <3>3 DEF SchedStep
  <2>3. CASE Drain
    <3>1. DrainServices /\ stage' = stage
      BY <2>3 DEF Drain
    <3>2. at = "host" /\ at' = "host"
      BY <3>1 DEF DrainServices, control
    <3> QED
      BY <1>1, <1>2, <3>1, <3>2, SchedStepTyped DEF SchedPlaces
  <2> QED
    BY <2>1, <2>2, <2>3
<1>5. PipelineTyped'
  BY <1>3, <1>4 DEF ExecTypeOK, PipelineTyped, pipeline, threads
<1>6. ThreadsTyped'
  BY <1>2, <1>3, <1>4 DEF ExecTypeOK, ThreadsTyped, threads
<1> QED
  BY <1>4, <1>5, <1>6 DEF ExecTypeOK, TypeOK, ControlTyped

\* A step of the host pipeline that leaves what Scheduler has and the threads.
LEMMA KernelTyped ==
  ASSUME ExecTypeOK, UNCHANGED <<vars, threads>>, stage # "threads", at = "host",
         stage' \in {"wait_eval", "ready_flags", "ready_compact", "ready_dispatch", "exec_ready"},
         flags' \subseteq Procs, list' \subseteq Procs,
         ready_count' \in 0 .. ProcCount, grid' \in 1 .. ProcCount
  PROVE  ExecTypeOK'
<1>1. ProcsTyped' /\ DataTyped' /\ CountersTyped'
  BY DEF ExecTypeOK, vars, procs, waits, data, clock, outcome, control, ProcsTyped, DataTyped,
         CountersTyped
<1>2. live' = live /\ thread' = thread /\ reg' = reg /\ at' = at /\ cursor' = cursor
  BY DEF threads, vars, control
<1>3. PipelineTyped'
  BY <1>2 DEF ExecTypeOK, PipelineTyped
<1>4. ThreadsTyped'
  BY <1>2 DEF ExecTypeOK, ThreadsTyped, SchedPlaces
<1> QED
  BY <1>1, <1>3, <1>4 DEF ExecTypeOK

\* The size of a set of processes, and the grid of the dispatch.
LEMMA Sizes ==
  ASSUME NEW S \in SUBSET Procs
  PROVE  /\ IsFiniteSet(S) /\ Cardinality(S) \in 0 .. ProcCount
         /\ Smaller(Cardinality(S), ProcCount) = Cardinality(S)
<1>1. 0 \in Int /\ ProcCount - 1 \in Int /\ ProcCount \in Nat
  BY SchedulerAssumption
<1>2. Cardinality(Procs) = ProcCount
  <2>1. Cardinality(Procs) = IF 0 > ProcCount - 1 THEN 0 ELSE (ProcCount - 1) - 0 + 1
    BY <1>1, FS_Interval DEF Procs
  <2> QED
    BY <2>1, SchedulerAssumption
<1>3. Cardinality(S) <= ProcCount /\ Cardinality(S) \in Nat /\ IsFiniteSet(S)
  BY <1>2, ProcsFinite, FS_Subset
<1> QED
  BY <1>1, <1>3 DEF Smaller

\* The kernels that build the list.
LEMMA ReadyKernelsTyped ==
  ASSUME ExecTypeOK, Gathered,
         ReadyReset \/ WaitEval \/ ReadyFlags \/ ReadyCompact \/ ReadyDispatch
  PROVE  ExecTypeOK'
<1>0. stage \in {"ready_reset", "wait_eval", "ready_flags", "ready_compact", "ready_dispatch"}
  BY DEF ReadyReset, WaitEval, ReadyFlags, ReadyCompact, ReadyDispatch
<1>1. TypeOK /\ at = "host" /\ live = {} /\ reg = NoReg
  BY <1>0, OutsideThreads DEF ExecTypeOK, ThreadsTyped
<1>2. /\ flags \subseteq Procs /\ list \subseteq Procs
      /\ ready_count \in 0 .. ProcCount /\ grid \in 1 .. ProcCount
  BY DEF ExecTypeOK, PipelineTyped
<1>3. ProcCount \in Nat \ {0}
  BY SchedulerAssumption
<1>4. CASE ReadyReset
  BY <1>0, <1>1, <1>2, <1>3, <1>4, KernelTyped DEF ReadyReset
<1>5. CASE WaitEval
  <2>1. Wake(IF phase = "ACTIVE" THEN Elapsed ELSE {})
    BY <1>5 DEF WaitEval
  <2>2. ProcsTyped'
    BY <1>1, <1>5, <2>1, WakeTyped DEF WaitEval, TypeOK, ProcsTyped
  <2>3. DataTyped' /\ CountersTyped'
    BY <1>5 DEF WaitEval, data, clock, outcome, control, ExecTypeOK, DataTyped, CountersTyped
  <2>4. UNCHANGED <<pipeline, threads, at, cursor>> /\ stage' = "ready_flags"
    BY <1>5 DEF WaitEval, control
  <2>5. PipelineTyped' /\ ThreadsTyped'
    BY <1>1, <2>4 DEF pipeline, threads, ExecTypeOK, PipelineTyped, ThreadsTyped, SchedPlaces
  <2> QED
    BY <2>2, <2>3, <2>5 DEF ExecTypeOK
<1>6. CASE ReadyFlags
  <2>1. flags' \subseteq Procs
    BY <1>6 DEF ReadyFlags
  <2> QED
    BY <1>0, <1>1, <1>2, <1>6, <2>1, KernelTyped DEF ReadyFlags
<1>7. CASE ReadyCompact
  <2>1. ready_count = 0
    BY <1>7 DEF ReadyCompact, Gathered
  <2>2. ready_count' \in 0 .. ProcCount
    BY <1>2, <1>7, <2>1, Sizes DEF ReadyCompact
  <2>3. list' \subseteq Procs
    BY <1>2, <1>7 DEF ReadyCompact
  <2> QED
    BY <1>0, <1>1, <1>2, <1>7, <2>2, <2>3, KernelTyped DEF ReadyCompact
<1>8. CASE ReadyDispatch
  <2>1. grid' \in 1 .. ProcCount
    BY <1>2, <1>3, <1>8 DEF ReadyDispatch, Smaller
  <2> QED
    BY <1>0, <1>1, <1>2, <1>8, <2>1, KernelTyped DEF ReadyDispatch
<1> QED
  BY <1>4, <1>5, <1>6, <1>7, <1>8

\* The host starts the threads, one gives way to another, and one ends.
LEMMA ThreadsMoveTyped ==
  ASSUME ExecTypeOK, ExecLaunch \/ (\E p \in Procs : SwitchTo(p)) \/ ThreadExit
  PROVE  ExecTypeOK'
<1>0. /\ live \subseteq Procs /\ list \subseteq Procs /\ cursor \in Procs
      /\ thread \in [Procs -> ThreadLocals]
      /\ \A p \in Procs : LoadedAt(thread[p].at, thread[p].reg)
  BY DEF ExecTypeOK, PipelineTyped, ThreadsTyped, CountersTyped
<1>1. ProcsTyped' /\ DataTyped'
  BY DEF ExecLaunch, SwitchTo, ThreadExit, procs, waits, data, ExecTypeOK, ProcsTyped, DataTyped
<1>2. /\ time' \in Nat /\ phase' \in {"ACTIVE", "NBA"} /\ active_init' \in BOOLEAN
      /\ error' \in BOOLEAN /\ did_work' \in BOOLEAN
      /\ status' \in {"RUNNING", "IDLE", "FINISHED", "STOPPED", "ERROR"}
  <2>1. status' \in {status, "FINISHED", "STOPPED"}
    BY DEF ExecLaunch, SwitchTo, ThreadExit
  <2> QED
    BY <2>1 DEF ExecLaunch, SwitchTo, ThreadExit, clock, ExecTypeOK, CountersTyped
\* What the thread that gets the cursor brings along is typed.
<1>3. ASSUME NEW p \in Procs, NEW t \in ThreadLocals, LoadedAt(t.at, t.reg), GiveCursor(p, t)
      PROVE  /\ CountersTyped' /\ Locals' \in ThreadLocals /\ LoadedAt(at', reg')
             /\ cursor' = p
  <2>1. /\ at' \in ThreadPlaces /\ burst' \in 0 .. MaxBurst /\ steps' \in 0 .. ProcSteps
        /\ finished' \in BOOLEAN /\ stopped' \in BOOLEAN
        /\ reg' \in {NoReg} \cup JoinLoads \cup QueueLoads /\ LoadedAt(at', reg') /\ cursor' = p
    BY <1>3 DEF GiveCursor, ThreadLocals
  <2>2. steps' \in Nat
    BY <2>1, ExecReadyAssumption
  <2> QED
    BY <1>2, <2>1, <2>2 DEF CountersTyped, Locals, ThreadLocals
<1>4. CASE ExecLaunch
  <2>1. PICK run \in SUBSET list :
           /\ live' = run
           /\ IF run = {} THEN UNCHANGED <<cursor, at, burst, steps, finished, stopped, reg>>
              ELSE \E p \in run : GiveCursor(p, Fresh)
    BY <1>4 DEF ExecLaunch
  <2>2. /\ UNCHANGED <<pipeline, thread>> /\ stage = "exec_ready" /\ live = {}
        /\ stage' = IF live' = {} THEN "sched_step" ELSE "threads"
    BY <1>4 DEF ExecLaunch
  <2>3. PipelineTyped'
    BY <1>0, <2>1, <2>2 DEF pipeline, ExecTypeOK, PipelineTyped
  <2>4. CASE run = {}
    <3>1. CountersTyped'
      BY <1>2, <2>1, <2>4 DEF ExecTypeOK, CountersTyped
    <3>2. ThreadsTyped'
      BY <2>1, <2>2, <2>4 DEF ExecTypeOK, ThreadsTyped
    <3> QED
      BY <1>1, <2>3, <3>1, <3>2 DEF ExecTypeOK
  <2>5. CASE run # {}
    <3>1. PICK p \in run : GiveCursor(p, Fresh)
      BY <2>1, <2>5
    <3>2. CountersTyped' /\ Locals' \in ThreadLocals /\ LoadedAt(at', reg') /\ cursor' = p
      BY <1>0, <1>3, <3>1, FreshTyped
    <3>3. \A q \in Procs : thread[q] = Fresh
      BY <2>2 DEF ExecTypeOK, ThreadsTyped
    <3>4. ThreadsTyped'
      BY <1>0, <2>1, <2>2, <2>5, <3>2, <3>3 DEF ThreadsTyped
    <3> QED
      BY <1>1, <2>3, <3>2, <3>4 DEF ExecTypeOK
  <2> QED
    BY <2>4, <2>5
<1>5. CASE \E p \in Procs : SwitchTo(p)
  <2>1. PICK p \in Procs : SwitchTo(p)
    BY <1>5
  <2>2. /\ stage = "threads" /\ stage' = stage /\ live' = live /\ UNCHANGED pipeline
        /\ p \in live \ {cursor}
        /\ thread' = [thread EXCEPT ![cursor] = Locals, ![p] = Fresh]
        /\ GiveCursor(p, thread[p])
    BY <2>1 DEF SwitchTo
  <2>3. Locals \in ThreadLocals /\ LoadedAt(at, reg) /\ cursor \in live
    BY <2>2 DEF ExecTypeOK, ThreadsTyped
  <2>4. Locals.at = at /\ Locals.reg = reg
    BY DEF Locals
  <2>5. CountersTyped' /\ Locals' \in ThreadLocals /\ LoadedAt(at', reg') /\ cursor' = p
    BY <1>0, <1>3, <2>2
  <2>6. \A q \in Procs : thread'[q] = IF q = p THEN Fresh
                                      ELSE IF q = cursor THEN Locals ELSE thread[q]
    BY <1>0, <2>2
  <2>7. thread' \in [Procs -> ThreadLocals]
    BY <1>0, <2>2, <2>3, FreshTyped
  <2>8. \A q \in Procs : LoadedAt(thread'[q].at, thread'[q].reg)
    BY <1>0, <2>3, <2>4, <2>6, FreshTyped
  <2>9. \A q \in Procs : q \notin live' \ {cursor'} => thread'[q] = Fresh
    BY <2>2, <2>3, <2>5, <2>6 DEF ExecTypeOK, ThreadsTyped
  <2>10. ThreadsTyped'
    BY <2>2, <2>5, <2>7, <2>8, <2>9 DEF ThreadsTyped
  <2>11. PipelineTyped'
    BY <2>2 DEF pipeline, ExecTypeOK, PipelineTyped
  <2> QED
    BY <1>1, <2>5, <2>10, <2>11 DEF ExecTypeOK
<1>6. CASE ThreadExit
  <2>1. stage = "threads" /\ live' = live \ {cursor} /\ UNCHANGED pipeline
    BY <1>6 DEF ThreadExit
  <2>2. CASE live' = {}
    <3>1. /\ stage' = "sched_step" /\ thread' = thread
          /\ GiveCursor(0, [Fresh EXCEPT !.at = "host", !.steps = 0])
      BY <1>6, <2>2 DEF ThreadExit
    <3>2. /\ cursor' = 0 /\ at' = "host" /\ burst' = 0 /\ steps' = 0 /\ finished' = FALSE
          /\ stopped' = FALSE /\ reg' = NoReg
      BY <3>1 DEF GiveCursor, Fresh
    <3>3. 0 \in Procs /\ 0 \in 0 .. MaxBurst
      BY SchedulerAssumption DEF Procs
    <3>4. CountersTyped'
      BY <1>2, <3>2, <3>3 DEF CountersTyped
    <3>5. \A q \in Procs : thread[q] = Fresh
      BY <2>1, <2>2 DEF ExecTypeOK, ThreadsTyped
    <3>6. ThreadsTyped'
      BY <1>0, <2>2, <3>1, <3>2, <3>5 DEF ThreadsTyped, SchedPlaces
    <3>7. PipelineTyped'
      BY <2>1, <2>2, <3>1 DEF pipeline, ExecTypeOK, PipelineTyped
    <3> QED
      BY <1>1, <3>4, <3>6, <3>7 DEF ExecTypeOK
  <2>3. CASE live' # {}
    <3>1. PICK p \in live' : GiveCursor(p, thread[p]) /\ thread' = [thread EXCEPT ![p] = Fresh]
                             /\ stage' = stage
      BY <1>6, <2>3 DEF ThreadExit
    <3>2. CountersTyped' /\ Locals' \in ThreadLocals /\ LoadedAt(at', reg') /\ cursor' = p
      BY <1>0, <1>3, <2>1, <3>1
    <3>3. \A q \in Procs : thread'[q] = IF q = p THEN Fresh ELSE thread[q]
      BY <1>0, <3>1
    <3>4. thread' \in [Procs -> ThreadLocals]
      BY <1>0, <3>1, FreshTyped
    <3>5. \A q \in Procs : LoadedAt(thread'[q].at, thread'[q].reg)
      BY <1>0, <3>3, FreshTyped
    <3>6. \A q \in Procs : q \notin live' \ {cursor'} => thread'[q] = Fresh
      BY <2>1, <3>2, <3>3 DEF ExecTypeOK, ThreadsTyped
    <3>7. ThreadsTyped'
      BY <2>1, <3>1, <3>2, <3>4, <3>5, <3>6 DEF ThreadsTyped
    <3>8. PipelineTyped'
      BY <2>1, <3>1 DEF pipeline, ExecTypeOK, PipelineTyped
    <3> QED
      BY <1>1, <3>2, <3>7, <3>8 DEF ExecTypeOK
  <2> QED
    BY <2>2, <2>3
<1> QED
  BY <1>4, <1>5, <1>6

\* A step of the thread at the cursor that puts it at another place.
LEMMA GoesToTyped ==
  ASSUME ExecTypeOK, NEW next \in ThreadPlaces, GoesTo(next),
         steps' \in 0 .. ProcSteps, burst' \in 0 .. MaxBurst, LoadedAt(next, reg'),
         error' \in BOOLEAN
  PROVE  CountersTyped' /\ PipelineTyped' /\ ThreadsTyped'
<1>1. /\ stage = "threads" /\ stage' = stage /\ UNCHANGED pipeline /\ live' = live
      /\ thread' = thread /\ at' = next /\ cursor' = cursor
      /\ UNCHANGED <<clock, status, finished, stopped, did_work>>
  BY DEF GoesTo
<1>2. CountersTyped'
  <2>1. steps' \in Nat
    BY ExecReadyAssumption
  <2> QED
    BY <1>1, <2>1 DEF clock, ExecTypeOK, CountersTyped
<1>3. PipelineTyped'
  BY <1>1 DEF pipeline, ExecTypeOK, PipelineTyped
<1>4. Locals' \in ThreadLocals /\ LoadedAt(at', reg')
  <2>1. Locals \in ThreadLocals
    BY <1>1 DEF ExecTypeOK, ThreadsTyped
  <2>2. finished' \in BOOLEAN /\ stopped' \in BOOLEAN
    BY <1>2 DEF CountersTyped
  <2>3. reg' \in {NoReg} \cup JoinLoads \cup QueueLoads
    BY DEF LoadedAt
  <2> QED
    BY <1>1, <2>2, <2>3 DEF Locals, ThreadLocals
<1>5. ThreadsTyped'
  BY <1>1, <1>4 DEF ExecTypeOK, ThreadsTyped
<1> QED
  BY <1>2, <1>3, <1>5

\* The steps of a thread between its instructions.
LEMMA JoinStepsTyped ==
  ASSUME ExecTypeOK,
         ThreadEnter \/ RunOn \/ LoopEnds \/ QueueStore \/ JoinLoad \/ JoinStore \/ JoinCheck
  PROVE  ExecTypeOK'
<1>1. stage = "threads"
  BY DEF ThreadEnter, RunOn, LoopEnds, QueueStore, JoinLoad, JoinStore, JoinCheck, GoesTo
<1>2. /\ cursor \in Procs /\ steps \in 0 .. ProcSteps /\ burst \in 0 .. MaxBurst
      /\ LoadedAt(at, reg) /\ error \in BOOLEAN /\ 0 \in 0 .. MaxBurst
  BY <1>1, InsideThreads, SchedulerAssumption DEF ExecTypeOK, ThreadsTyped, CountersTyped
<1>3. ProcsTyped /\ DataTyped
  BY DEF ExecTypeOK
<1>4. LoadedAt("exit", NoReg) /\ LoadedAt("vm", NoReg) /\ LoadedAt("after", NoReg)
  BY DEF LoadedAt
<1> USE DEF ThreadPlaces
<1>5. CASE ThreadEnter
  <2>1. reg = NoReg
    BY <1>2, <1>5 DEF ThreadEnter, LoadedAt
  <2>2. ProcsTyped' /\ DataTyped'
    BY <1>3, <1>5 DEF ThreadEnter, procs, waits, data, ProcsTyped, DataTyped
  <2>3. GoesTo("after") \/ GoesTo("exit")
    BY <1>5 DEF ThreadEnter
  <2>4. UNCHANGED <<error, steps, burst, reg>>
    BY <1>5 DEF ThreadEnter
  <2>5. CountersTyped' /\ PipelineTyped' /\ ThreadsTyped'
    BY <1>2, <1>4, <2>1, <2>3, <2>4, GoesToTyped
  <2> QED
    BY <2>2, <2>5 DEF ExecTypeOK
<1>6. CASE RunOn
  <2>1. reg = NoReg
    BY <1>2, <1>6 DEF RunOn, LoadedAt
  <2>2. ProcsTyped' /\ DataTyped'
    BY <1>3, <1>6 DEF RunOn, procs, waits, data, ProcsTyped, DataTyped
  <2>3. GoesTo("vm") /\ steps' \in 0 .. ProcSteps /\ burst' = 0 /\ error' = error /\ reg' = reg
    BY <1>2, <1>6, ExecReadyAssumption DEF RunOn
  <2>4. CountersTyped' /\ PipelineTyped' /\ ThreadsTyped'
    BY <1>2, <1>4, <2>1, <2>3, GoesToTyped
  <2> QED
    BY <2>2, <2>4 DEF ExecTypeOK
<1>7. CASE LoopEnds
  <2>1. reg = NoReg
    BY <1>2, <1>7 DEF LoopEnds, LoadedAt
  <2>2. ProcsTyped' /\ DataTyped'
    BY <1>3, <1>7 DEF LoopEnds, procs, waits, data, ProcsTyped, DataTyped
  <2>3. UNCHANGED <<error, steps, burst>>
    BY <1>7 DEF LoopEnds
  <2>4. CASE GoesTo("join") /\ reg' = Joining(cursor)
    <3>1. LoadedAt("join", reg')
      BY <1>2, <2>4 DEF Joining, LoadedAt, JoinLoads
    <3> QED
      BY <1>2, <2>2, <2>3, <2>4, <3>1, GoesToTyped DEF ExecTypeOK
  <2>5. CASE GoesTo("exit") /\ UNCHANGED reg
    BY <1>2, <1>4, <2>1, <2>2, <2>3, <2>5, GoesToTyped DEF ExecTypeOK
  <2> QED
    BY <1>7, <2>4, <2>5 DEF LoopEnds
<1>8. CASE JoinLoad
  <2>1. reg \in JoinLoads
    BY <1>2, <1>8 DEF JoinLoad, LoadedAt
  <2>2. reg.child \in Procs /\ reg.left \in Nat
    BY <2>1 DEF JoinLoads
  <2>3. ProcsTyped' /\ DataTyped'
    BY <1>3, <1>8 DEF JoinLoad, procs, waits, data, ProcsTyped, DataTyped
  <2>4. UNCHANGED <<error, steps, burst>>
    BY <1>8 DEF JoinLoad
  <2>5. CASE /\ Parent[reg.child] # NoParent /\ GoesTo("store")
             /\ reg' = [reg EXCEPT !.left = join_count[Parent[reg.child]]]
    <3>1. Parent[reg.child] \in Procs
      BY <2>2, <2>5, SchedulerAssumption
    <3>2. join_count[Parent[reg.child]] \in Nat
      BY <1>3, <3>1 DEF ProcsTyped
    <3>3. reg' = [child |-> reg.child, left |-> join_count[Parent[reg.child]]]
      BY <2>1, <2>5 DEF JoinLoads
    <3>4. LoadedAt("store", reg')
      BY <2>2, <3>1, <3>2, <3>3 DEF LoadedAt, JoinLoads
    <3> QED
      BY <1>2, <2>3, <2>4, <2>5, <3>4, GoesToTyped DEF ExecTypeOK
  <2>6. CASE GoesTo(Caller) /\ reg' = NoReg
    <3>1. GoesTo("exit") \/ GoesTo("vm")
      BY <2>6 DEF Caller
    <3> QED
      BY <1>2, <1>4, <2>3, <2>4, <2>6, <3>1, GoesToTyped DEF ExecTypeOK
  <2> QED
    BY <1>8, <2>5, <2>6 DEF JoinLoad
<1>9. CASE JoinStore
  <2> DEFINE p == Parent[reg.child]
             left == IF reg.left > 0 THEN reg.left - 1 ELSE 0
  <2>1. reg \in JoinLoads /\ p \in Procs
    BY <1>2, <1>9 DEF JoinStore, LoadedAt
  <2>2. left \in Nat /\ reg.child \in Procs
    BY <2>1 DEF JoinLoads
  <2>3. /\ join_count' = IF reg.left > 0 THEN [join_count EXCEPT ![p] = left] ELSE join_count
        /\ reg' = [reg EXCEPT !.left = left]
        /\ GoesTo("check")
        /\ UNCHANGED <<waits, wait_time, ip, holding, data, error, steps, burst>>
    BY <1>9 DEF JoinStore
  <2>4. reg' = [child |-> reg.child, left |-> left]
    BY <2>1, <2>3 DEF JoinLoads
  <2>5. LoadedAt("check", reg')
    BY <2>1, <2>2, <2>4 DEF LoadedAt, JoinLoads
  <2> HIDE DEF left
  <2>6. ProcsTyped' /\ DataTyped'
    BY <1>3, <2>1, <2>2, <2>3 DEF waits, data, ProcsTyped, DataTyped
  <2> QED
    BY <1>2, <2>3, <2>5, <2>6, GoesToTyped DEF ExecTypeOK
<1>10. CASE JoinCheck
  <2>1. PICK seen \in {reg.left, join_count[Parent[reg.child]]} :
           Wake(IF seen = 0 THEN {Parent[reg.child]} ELSE {})
    BY <1>10 DEF JoinCheck
  <2>2. /\ reg' = NoReg /\ (GoesTo("exit") \/ GoesTo("vm"))
        /\ UNCHANGED <<wait_on, wait_time, join_count, ip, holding, data, error, steps, burst>>
    BY <1>10 DEF JoinCheck, Caller
  <2>3. ProcsTyped'
    BY <1>3, <2>1, <2>2, WakeTyped DEF ProcsTyped
  <2>4. DataTyped'
    BY <1>3, <2>2 DEF data, DataTyped
  <2> QED
    BY <1>2, <1>4, <2>2, <2>3, <2>4, GoesToTyped DEF ExecTypeOK
<1>11. CASE QueueStore
  <2>1. reg \in QueueLoads /\ reg' = NoReg /\ GoesTo("vm") /\ UNCHANGED <<steps, burst>>
    BY <1>2, <1>11 DEF QueueStore, LoadedAt
  <2>2. ProcsTyped'
    BY <1>3, <1>11 DEF QueueStore, procs, waits, ProcsTyped
  <2>3. error' \in BOOLEAN
    BY <1>2, <1>11 DEF QueueStore
  <2> DEFINE kept == {e \in dnba : e.slot < reg.slot}
  <2>4. dnba' \in {dnba, kept \cup {reg}}
    BY <1>11 DEF QueueStore
  <2>5. IsFiniteSet(dnba) /\ IsFiniteSet(kept)
    BY <1>3, FS_Subset DEF DataTyped
  <2>6. IsFiniteSet(kept \cup {reg})
    BY <2>5, FS_AddElement
  <2>7. dnba' \subseteq QueueLoads /\ IsFiniteSet(dnba')
    BY <1>3, <2>1, <2>4, <2>5, <2>6 DEF DataTyped, QueueLoads
  <2>8. DataTyped'
    BY <1>3, <1>11, <2>7 DEF QueueStore, DataTyped, QueueLoads
  <2> QED
    BY <1>2, <1>4, <2>1, <2>2, <2>3, <2>8, GoesToTyped DEF ExecTypeOK
<1> QED
  BY <1>5, <1>6, <1>7, <1>8, <1>9, <1>10, <1>11

\* The instructions of Scheduler that a thread executes in one step.
VmExec(i) == Exec(i) /\ i.op # "DISABLE_CHILD" /\ UNCHANGED <<stage, pipeline, threads>>

\* VmStep, by its three kinds of instructions.
LEMMA VmSteps ==
  ASSUME VmStep
  PROVE  /\ stage = "threads" /\ at = "vm"
         /\ \E i \in Fetched : DisableBranch(i) \/ QueueLoad(i) \/ VmExec(i)
BY DEF VmStep, VmExec

LEMMA VmStepTyped ==
  ASSUME ExecTypeOK, VmStep
  PROVE  ExecTypeOK'
<1>1. PICK i \in Fetched : DisableBranch(i) \/ QueueLoad(i) \/ VmExec(i)
  BY VmSteps
<1>2. stage = "threads" /\ at = "vm"
  BY VmSteps
<1>3. /\ TypeOK /\ reg = NoReg /\ cursor \in Procs /\ cursor \in live
      /\ steps \in 0 .. ProcSteps /\ burst \in 0 .. MaxBurst /\ error \in BOOLEAN
  BY <1>2, InsideThreads DEF TypeOK, ControlTyped, CountersTyped
<1>4. LoadedAt("vm", NoReg) /\ LoadedAt("after", NoReg)
  BY DEF LoadedAt
<1> USE DEF ThreadPlaces
<1>5. InVm => burst' \in 0 .. MaxBurst
  BY <1>3, SchedulerAssumption DEF InVm
<1>6. CASE DisableBranch(i)
  <2>1. i.pid \in Procs
    BY <1>3, <1>6, FetchedTyped DEF DisableBranch, Branches
  <2>2. /\ UNCHANGED <<wait_on, wait_time, join_count, holding, data, error, steps>>
        /\ burst' \in 0 .. MaxBurst
    BY <1>5, <1>6 DEF DisableBranch
  <2>3. /\ ip' \in [Procs -> {Anywhere, WaitServiceOp} \cup (Delayed \cap Statements)]
        /\ state' \in [Procs -> {"READY", "BLOCKED", "DONE"}]
        /\ wait_kind' \in [Procs -> {"NONE", "TIME", "EVENT", "COND", "JOIN",
                                     "DELTA", "EDGE", "SERVICE"}]
    BY <1>3, <1>6, <2>1 DEF DisableBranch, TypeOK, ProcsTyped
  <2>4. ProcsTyped' /\ DataTyped'
    BY <1>3, <2>2, <2>3 DEF TypeOK, ProcsTyped, DataTyped, data
  <2>5. (GoesTo("vm") /\ reg' = reg) \/ (GoesTo("join") /\ reg' = Joining(i.pid))
    BY <1>6 DEF DisableBranch
  <2>6. LoadedAt("join", Joining(i.pid))
    BY <2>1 DEF Joining, LoadedAt, JoinLoads
  <2>7. CountersTyped' /\ PipelineTyped' /\ ThreadsTyped'
    BY <1>3, <1>4, <2>2, <2>5, <2>6, GoesToTyped
  <2> QED
    BY <2>4, <2>7 DEF ExecTypeOK
<1>7. CASE QueueLoad(i)
  <2>1. i \in Delayed /\ i.nb /\ i.delay \in Nat /\ Eval(i.rhs) \in Val
    BY <1>3, <1>7, FetchedTyped, DelayedTyped, EvalTyped DEF QueueLoad, Queues
  <2>2. Cardinality(dnba) \in Nat /\ time + i.delay \in Nat
    BY <1>3, <2>1, FS_CardinalityType DEF TypeOK, DataTyped, ControlTyped, CountersTyped
  <2>3. LoadedAt("enqueue", reg')
    BY <1>7, <2>1, <2>2 DEF QueueLoad, LoadedAt, QueueLoads
  <2>4. /\ GoesTo("enqueue") /\ MovesOn /\ burst' \in 0 .. MaxBurst
        /\ UNCHANGED <<waits, wait_time, join_count, data, error, steps>>
    BY <1>5, <1>7 DEF QueueLoad
  <2>5. ProcsTyped'
    BY <1>3, <2>4, MovesOnTyped DEF waits, TypeOK, ProcsTyped
  <2>6. DataTyped'
    BY <1>3, <2>4 DEF data, TypeOK, DataTyped
  <2>7. CountersTyped' /\ PipelineTyped' /\ ThreadsTyped'
    BY <1>3, <2>3, <2>4, GoesToTyped
  <2> QED
    BY <2>5, <2>6, <2>7 DEF ExecTypeOK
<1>8. CASE VmExec(i)
  <2>1. Exec(i) /\ UNCHANGED <<stage, pipeline, threads>>
    BY <1>8 DEF VmExec
  <2>2. TypeOK'
    BY <1>3, <2>1, AssignTyped, WaitTyped, ControlFlowTyped DEF Exec
  <2>3. at' \in {"vm", "after"} /\ steps' \in {0, steps} /\ cursor' = cursor
    BY <1>2, <2>1 DEF Exec, Assign, AssignNb, StoreHeld, AssignDelay, AssignDelayNb,
       EventTrigger, WaitTime, WaitEvent, WaitEdge, WaitCond, Fork, DisableChild, DisableCross,
       ServiceCall, WaitService, Halt, Done, Continues, Yields, Returns
  <2>4. burst' \in 0 .. MaxBurst /\ finished' \in BOOLEAN /\ stopped' \in BOOLEAN
    BY <2>2 DEF TypeOK, ControlTyped, CountersTyped
  <2>5. steps' \in 0 .. ProcSteps
    BY <1>3, <2>3, ExecReadyAssumption
  <2>6. Locals' \in ThreadLocals /\ LoadedAt(at', reg')
    BY <1>3, <2>1, <2>3, <2>4, <2>5 DEF threads, Locals, ThreadLocals, LoadedAt
  <2>7. PipelineTyped'
    BY <2>1 DEF pipeline, threads, ExecTypeOK, PipelineTyped
  <2>8. ThreadsTyped'
    BY <1>2, <1>3, <2>1, <2>3, <2>6 DEF threads, ExecTypeOK, ThreadsTyped
  <2> QED
    BY <2>2, <2>7, <2>8 DEF ExecTypeOK, TypeOK, ControlTyped
<1> QED
  BY <1>1, <1>6, <1>7, <1>8

-----------------------------------------------------------------------------
(* What an instruction does to the waits.                                  *)

\* The process at the cursor waits for something else than a join.
BlocksOn(i) ==
    \E kind \in {"TIME", "EVENT", "COND", "DELTA", "EDGE", "SERVICE"} : Block(kind, i)

\* The process at the cursor is over.
Ends == state' = [state EXCEPT ![cursor] = "DONE"] /\ UNCHANGED <<wait_kind, wait_on>>

\* No instruction but a fork, an ending and a wait touches the waits, and no other
\* process than the one at the cursor is touched, unless forked.
LEMMA VmEffects ==
  ASSUME ExecTypeOK, stage = "threads", at = "vm", NEW i \in Fetched, VmExec(i)
  PROVE  /\ at' \in {"vm", "after"} /\ cursor' = cursor
         /\ UNCHANGED <<clock, stage, pipeline, threads>>
         /\ \/ UNCHANGED <<waits, join_count>>
            \/ at' = "after" /\ UNCHANGED join_count /\ BlocksOn(i)
            \/ at' = "after" /\ UNCHANGED join_count /\ Ends
            \/ at' = "after" /\ Fork(i)
<1>1. TypeOK /\ cursor \in Procs
  BY InsideThreads
<1>2. Exec(i) /\ i.op # "DISABLE_CHILD" /\ UNCHANGED <<stage, pipeline, threads>>
  BY DEF VmExec
<1>3. i.op # "DISABLE_CROSS"
  <2>1. CASE ip[cursor] = Anywhere
    BY <1>1, <2>1, ExecReadyAssumption DEF Fetched
  <2>2. CASE ip[cursor] # Anywhere
    <3>1. i = ip[cursor] /\ i \in {Anywhere, WaitServiceOp} \cup (Delayed \cap Statements)
      BY <1>1, <2>2 DEF Fetched, TypeOK, ProcsTyped
    <3> QED
      BY <3>1, SchedulerAssumption DEF Anywhere, WaitServiceOp, DelayedAssign
  <2> QED
    BY <2>1, <2>2
<1>4. at' \in {"vm", "after"} /\ cursor' = cursor /\ UNCHANGED clock
  BY <1>2 DEF Exec, Assign, AssignNb, StoreHeld, AssignDelay, AssignDelayNb,
     EventTrigger, WaitTime, WaitEvent, WaitEdge, WaitCond, Fork, DisableChild, DisableCross,
     ServiceCall, WaitService, Halt, Done, Continues, Yields, Returns
<1>5. CASE \/ Assign(i) \/ AssignNb(i) \/ StoreHeld(i) \/ AssignDelayNb(i) \/ EventTrigger(i)
           \/ ServiceCall(i)
  BY <1>2, <1>4, <1>5 DEF Assign, AssignNb, StoreHeld, AssignDelayNb, EventTrigger, ServiceCall
<1>6. CASE AssignDelay(i)
  <2>1. UNCHANGED <<waits, join_count>>
        \/ (at' = "after" /\ UNCHANGED join_count /\ Block("TIME", i))
    BY <1>6 DEF AssignDelay, Yields, Returns
  <2> QED
    BY <1>2, <1>4, <2>1 DEF BlocksOn
<1>7. CASE WaitTime(i)
  <2>1. at' = "after" /\ UNCHANGED join_count
    BY <1>7 DEF WaitTime, Yields, Returns
  <2>2. CASE error
    BY <1>2, <1>4, <1>7, <2>1, <2>2 DEF WaitTime, Ends
  <2>3. CASE ~error
    <3>1. Block("DELTA", i) \/ Block("TIME", i)
      BY <1>7, <2>3 DEF WaitTime
    <3> QED
      BY <1>2, <1>4, <2>1, <3>1 DEF BlocksOn
  <2> QED
    BY <2>2, <2>3
<1>8. CASE WaitEvent(i) \/ WaitEdge(i) \/ WaitService(i)
  <2>1. /\ at' = "after" /\ UNCHANGED join_count
        /\ Block("EVENT", i) \/ Block("EDGE", i) \/ Block("SERVICE", i)
    BY <1>8 DEF WaitEvent, WaitEdge, WaitService, Yields, Returns
  <2> QED
    BY <1>2, <1>4, <2>1 DEF BlocksOn
<1>9. CASE WaitCond(i)
  <2>1. /\ UNCHANGED join_count
        /\ UNCHANGED waits \/ (at' = "after" /\ Block("COND", i))
    BY <1>9 DEF WaitCond, Yields, Returns
  <2> QED
    BY <1>2, <1>4, <2>1 DEF BlocksOn
<1>10. CASE Fork(i)
  BY <1>2, <1>4, <1>10 DEF Fork, Yields, Returns
<1>11. CASE Halt(i)
  <2>1. at' = "after" /\ UNCHANGED <<join_count, wait_kind, wait_on>>
    BY <1>11 DEF Halt, Returns
  <2>2. CASE i.op = "FINISH"
    BY <1>2, <1>4, <1>11, <2>1, <2>2 DEF Halt, Ends
  <2>3. CASE i.op # "FINISH"
    <3>1. state' = state
      BY <1>1, <1>11, <2>3 DEF Halt, TypeOK, ProcsTyped
    <3> QED
      BY <1>2, <1>4, <2>1, <3>1 DEF waits
  <2> QED
    BY <2>2, <2>3
<1>12. CASE Done(i)
  BY <1>2, <1>4, <1>12 DEF Done, Yields, Returns, Ends
<1>13. CASE DisableChild(i) \/ DisableCross(i)
  BY <1>2, <1>3, <1>13 DEF DisableChild, DisableCross
<1> QED
  BY <1>2, <1>5, <1>6, <1>7, <1>8, <1>9, <1>10, <1>11, <1>12, <1>13 DEF Exec

-----------------------------------------------------------------------------
(* The ready list.                                                         *)

\* Waking processes leaves nobody READY in a wait.
LEMMA WakeFrees ==
  ASSUME ExecTypeOK, ReadyAreFree, NEW W, Wake(W)
  PROVE  ReadyAreFree'
BY DEF ExecTypeOK, ProcsTyped, ReadyAreFree, Wake

\* No step makes a process READY that is still marked as waiting.
LEMMA FreeKept ==
  ASSUME ExecTypeOK, ReadyAreFree, [ExecNext]_execVars
  PROVE  ReadyAreFree'
<1>1. CASE UNCHANGED waits
  BY <1>1 DEF waits, ReadyAreFree
<1>2. CASE \E W : Wake(W)
  BY <1>2, WakeFrees
<1>3. CASE VmStep
  <2>0. stage = "threads" /\ at = "vm"
    BY <1>3, VmSteps
  <2>1. PICK i \in Fetched : DisableBranch(i) \/ QueueLoad(i) \/ VmExec(i)
    BY <1>3, VmSteps
  <2>2. TypeOK /\ cursor \in Procs
    BY <2>0, InsideThreads
  <2>3. CASE DisableBranch(i)
    BY <2>2, <2>3 DEF DisableBranch, TypeOK, ProcsTyped, ReadyAreFree
  <2>4. CASE QueueLoad(i)
    BY <1>1, <2>4 DEF QueueLoad
  <2>5. CASE VmExec(i)
    <3>1. CASE BlocksOn(i)
      BY <2>2, <3>1 DEF BlocksOn, Block, TypeOK, ProcsTyped, ReadyAreFree
    <3>2. CASE Ends
      BY <2>2, <3>2 DEF Ends, TypeOK, ProcsTyped, ReadyAreFree
    <3>3. CASE Fork(i)
      BY <2>2, <3>3 DEF Fork, TypeOK, ProcsTyped, ReadyAreFree
    <3> QED
      BY <1>1, <2>0, <2>5, <3>1, <3>2, <3>3, VmEffects
  <2> QED
    BY <2>1, <2>3, <2>4, <2>5
<1>4. CASE UNCHANGED execVars
  BY <1>1, <1>4 DEF execVars, vars, procs
<1>5. CASE \E interrupted \in BOOLEAN : Submit(interrupted)
  BY <1>1, <1>5 DEF Submit, Dispatch, procs
<1>6. CASE SchedStep
  BY <1>1, <1>2, <1>6 DEF SchedStep, BeginActive, EndPass, ScanActive, CommitNba, WakeAfterNba,
     AdvanceTime, Quiesce, EndStep, procs
<1>7. CASE Drain
  BY <1>2, <1>7 DEF Drain, DrainServices
<1>8. CASE ReadyKernels
  BY <1>1, <1>2, <1>8 DEF ReadyKernels, ReadyReset, WaitEval, ReadyFlags, ReadyCompact,
     ReadyDispatch, ExecLaunch, vars, procs
<1>9. CASE ThreadStep
  BY <1>1, <1>2, <1>3, <1>9 DEF ThreadStep, ThreadEnter, RunOn, LoopEnds, QueueStore, JoinLoad,
     JoinStore, JoinCheck, ThreadExit, procs
<1>10. CASE (\E p \in Procs : SwitchTo(p)) \/ RunEnded
  BY <1>1, <1>10 DEF SwitchTo, RunEnded, Stopped, vars, procs
<1> QED
  BY <1>4, <1>5, <1>6, <1>7, <1>8, <1>9, <1>10 DEF ExecNext

\* Each kernel finds what the one before has left, and the list of the dispatch is
\* the set of READY processes, with at least one thread for each.
LEMMA GatheredKept ==
  ASSUME ExecTypeOK, ReadyAreFree, Gathered, [ExecNext]_execVars
  PROVE  Gathered'
<1>0. /\ stage = "threads" => at \in ThreadPlaces
      /\ stage # "threads" => TypeOK
      /\ stage \notin {"sched_step", "threads"} => at = "host"
  BY InsideThreads, OutsideThreads DEF ExecTypeOK, ThreadsTyped
<1>1. CASE UNCHANGED execVars
  BY <1>1 DEF execVars, vars, procs, waits, control, pipeline, Gathered, Runnable
<1>2. CASE (\E interrupted \in BOOLEAN : Submit(interrupted)) \/ Drain \/ RunEnded
  <2>1. at = "host" /\ at' # "scan" /\ stage' = stage /\ stage \in {"sched_step", "ready_reset"}
    BY <1>2 DEF Submit, Drain, RunEnded, Dispatch, DrainServices, Stopped, control, vars
  <2> QED
    BY <2>1 DEF Gathered
<1>3. CASE SchedStep
  <2>1. stage' \in {"sched_step", "ready_reset"}
    BY <1>3 DEF SchedStep
  <2>2. at' = "scan" => EndPass
    BY <1>3 DEF SchedStep, BeginActive, EndPass, ScanActive, CommitNba, WakeAfterNba,
       AdvanceTime, Quiesce, EndStep
  <2>3. EndPass /\ at' = "scan" => Runnable' = {}
    BY DEF EndPass, procs, waits, Runnable
  <2> QED
    BY <2>1, <2>2, <2>3 DEF Gathered
<1>4. CASE ReadyKernels
  <2>1. at = "host" /\ stage \notin {"sched_step", "threads"}
    BY <1>0, <1>4 DEF ReadyKernels, ReadyReset, WaitEval, ReadyFlags, ReadyCompact,
       ReadyDispatch, ExecLaunch
  <2>2. CASE ReadyReset
    BY <2>1, <2>2 DEF ReadyReset, vars, control, Gathered
  <2>3. CASE WaitEval
    BY <2>1, <2>3 DEF WaitEval, control, pipeline, Gathered
  <2>4. CASE ReadyFlags
    <3>1. flags' = Runnable /\ Runnable' = Runnable /\ at' = at
      BY <2>4 DEF ReadyFlags, Runnable, ReadyAreFree, vars, procs, waits, control
    <3> QED
      BY <2>1, <2>4, <3>1 DEF ReadyFlags, Gathered
  <2>5. CASE ReadyCompact
    <3>1. Runnable' = Runnable /\ at' = at
      BY <2>5 DEF ReadyCompact, Runnable, vars, procs, waits, control
    <3>2. ready_count = 0 /\ list = {} /\ flags = Runnable
      BY <2>5 DEF ReadyCompact, Gathered
    <3>3. PICK stored \in SUBSET flags :
              /\ Cardinality(stored) = Smaller(Cardinality(flags),
                     IF ready_count < ProcCount THEN ProcCount - ready_count ELSE 0)
              /\ list' = list \cup stored
      BY <2>5 DEF ReadyCompact
    <3>4. IsFiniteSet(Runnable) /\ Cardinality(Runnable) \in 0 .. ProcCount
          /\ Smaller(Cardinality(Runnable), ProcCount) = Cardinality(Runnable)
      BY Sizes DEF Runnable
    <3>5. Cardinality(stored) = Cardinality(Runnable)
      BY <3>2, <3>3, <3>4, SchedulerAssumption
    <3>6. stored = Runnable
      BY <3>2, <3>4, <3>5, FS_Subset
    <3>7. ready_count' = Cardinality(Runnable)
      BY <2>5, <3>2, <3>4 DEF ReadyCompact
    <3> QED
      BY <2>1, <2>5, <3>1, <3>2, <3>3, <3>6, <3>7 DEF ReadyCompact, Gathered
  <2>6. CASE ReadyDispatch
    <3>1. Runnable' = Runnable /\ at' = at
      BY <2>6 DEF ReadyDispatch, Runnable, vars, procs, waits, control
    <3>2. list = Runnable /\ ready_count = Cardinality(Runnable)
      BY <2>6 DEF ReadyDispatch, Gathered
    <3>3. Cardinality(Runnable) \in 0 .. ProcCount
          /\ Smaller(Cardinality(Runnable), ProcCount) = Cardinality(Runnable)
      BY Sizes DEF Runnable
    <3>4. Cardinality(Runnable) <= grid'
      BY <2>6, <3>2, <3>3, SchedulerAssumption DEF ReadyDispatch
    <3> QED
      BY <2>1, <2>6, <3>1, <3>2, <3>4 DEF ReadyDispatch, Gathered
  <2>7. CASE ExecLaunch
    <3>1. stage' \in {"sched_step", "threads"}
      BY <2>7 DEF ExecLaunch
    <3>2. at' \in {at, "enter"}
      BY <2>7 DEF ExecLaunch, GiveCursor, Fresh
    <3> QED
      BY <2>1, <3>1, <3>2 DEF Gathered
  <2> QED
    BY <1>4, <2>2, <2>3, <2>4, <2>5, <2>6, <2>7 DEF ReadyKernels
<1>5. CASE ThreadStep \/ (\E p \in Procs : SwitchTo(p))
  <2>1. stage = "threads" /\ stage' \in {"sched_step", "threads"}
    BY <1>5 DEF ThreadStep, ThreadEnter, RunOn, LoopEnds, VmStep, QueueStore, JoinLoad,
       JoinStore, JoinCheck, ThreadExit, SwitchTo, DisableBranch, QueueLoad, GoesTo
  <2>2. ExecTypeOK'
    BY <1>5, JoinStepsTyped, VmStepTyped, ThreadsMoveTyped DEF ThreadStep
  <2>3. stage' = "threads" => at' \in ThreadPlaces
    BY <2>2 DEF ExecTypeOK, ThreadsTyped, Locals, ThreadLocals
  <2>4. stage' = "sched_step" => at' = "host"
    BY <1>5, <2>1 DEF ThreadStep, ThreadEnter, RunOn, LoopEnds, VmStep, QueueStore, JoinLoad,
       JoinStore, JoinCheck, ThreadExit, SwitchTo, DisableBranch, QueueLoad, GoesTo,
       GiveCursor, Fresh
  <2> QED
    BY <2>1, <2>3, <2>4 DEF Gathered, ThreadPlaces
<1> QED
  BY <1>1, <1>2, <1>3, <1>4, <1>5 DEF ExecNext

ExecInv == ExecTypeOK /\ ReadyAreFree /\ Gathered

LEMMA ExecInvHolds == ExecSpec => []ExecInv
<1>1. ExecInit => ExecInv
  <2> SUFFICES ASSUME ExecInit PROVE ExecInv
    OBVIOUS
  <2>1. 0 \in Procs /\ 0 \in 0 .. MaxBurst /\ ProcCount \in Nat \ {0}
    BY SchedulerAssumption DEF Procs
  <2>2. ProcsTyped
    BY DEF ExecInit, Init, ProcsTyped
  <2>3. DataTyped
    BY FS_EmptySet DEF ExecInit, Init, DataTyped, Val
  <2>4. CountersTyped
    BY <2>1 DEF ExecInit, Init, CountersTyped
  <2>5. PipelineTyped
    BY <2>1 DEF ExecInit, PipelineTyped
  <2>6. ThreadsTyped
    BY FreshTyped DEF ExecInit, Init, ThreadsTyped, SchedPlaces
  <2>7. ReadyAreFree /\ Gathered
    BY DEF ExecInit, Init, ReadyAreFree, Gathered
  <2> QED
    BY <2>2, <2>3, <2>4, <2>5, <2>6, <2>7 DEF ExecInv, ExecTypeOK
<1>2. ExecInv /\ [ExecNext]_execVars => ExecInv'
  <2> SUFFICES ASSUME ExecInv, [ExecNext]_execVars PROVE ExecInv'
    OBVIOUS
  <2>1. ExecTypeOK /\ ReadyAreFree /\ Gathered
    BY DEF ExecInv
  <2>2. CASE UNCHANGED execVars \/ RunEnded
    <3>1. UNCHANGED <<vars, stage, pipeline, threads>>
      BY <2>2 DEF execVars, RunEnded, Stopped
    <3>2. ProcsTyped' /\ DataTyped' /\ CountersTyped'
      BY <2>1, <3>1 DEF ExecTypeOK, vars, procs, waits, data, clock, outcome, control,
         ProcsTyped, DataTyped, CountersTyped
    <3>3. PipelineTyped'
      BY <2>1, <3>1 DEF ExecTypeOK, pipeline, threads, PipelineTyped
    <3>4. ThreadsTyped'
      BY <2>1, <3>1 DEF ExecTypeOK, threads, vars, control, outcome, ThreadsTyped, Locals
    <3> QED
      BY <2>1, <3>2, <3>3, <3>4, FreeKept, GatheredKept DEF ExecInv, ExecTypeOK
  <2>3. CASE ~(UNCHANGED execVars \/ RunEnded)
    <3>1. ExecTypeOK'
      BY <2>1, <2>3, HostStepTyped, ReadyKernelsTyped, ThreadsMoveTyped, JoinStepsTyped,
         VmStepTyped DEF ExecNext, ReadyKernels, ThreadStep
    <3> QED
      BY <2>1, <3>1, FreeKept, GatheredKept DEF ExecInv
  <2> QED
    BY <2>2, <2>3
<1> QED
  BY <1>1, <1>2, PTL DEF ExecSpec

\* The pipeline is type correct: the count and the grid stay within the number of
\* processes, a thread that is not live has the locals of a new one, and what a
\* thread has loaded fits the place where it is.
THEOREM ExecTyped == ExecSpec => []ExecTypeOK
BY ExecInvHolds, PTL DEF ExecInv

\* No READY process misses the dispatch of exec_ready (ready_flags, ready_compact,
\* ready_dispatch), for any number of processes and any order of the compaction.
THEOREM AllReadyRun == ExecSpec => ReadyAllRun
<1>1. ExecInv /\ [ExecNext]_execVars => [stage = "exec_ready" => live' = Runnable]_execVars
  <2> SUFFICES ASSUME ExecInv, ExecNext, stage = "exec_ready" PROVE live' = Runnable
    OBVIOUS
  <2>1. ExecLaunch
    BY DEF ExecNext, Submit, SchedStep, Drain, ReadyKernels, ReadyReset, WaitEval, ReadyFlags,
       ReadyCompact, ReadyDispatch, ThreadStep, ThreadEnter, RunOn, LoopEnds, VmStep, QueueStore,
       JoinLoad, JoinStore, JoinCheck, ThreadExit, GoesTo, SwitchTo, RunEnded
  <2>2. PICK run \in SUBSET list : Cardinality(run) = Smaller(grid, Cardinality(list))
                                   /\ live' = run
    BY <2>1 DEF ExecLaunch
  <2>3. list = Runnable /\ Cardinality(list) <= grid
    BY DEF ExecInv, Gathered
  <2>4. IsFiniteSet(list) /\ Cardinality(list) \in Nat /\ grid \in Nat
    BY Sizes, SchedulerAssumption DEF ExecInv, ExecTypeOK, PipelineTyped
  <2>5. Cardinality(run) = Cardinality(list)
    BY <2>2, <2>3, <2>4 DEF Smaller
  <2> QED
    BY <2>2, <2>3, <2>4, <2>5, FS_Subset
<1> QED
  BY <1>1, ExecInvHolds, PTL DEF ExecSpec, ReadyAllRun

\* sched_step leaves the active phase only when it is exhausted, although the processes
\* run in exec_ready, before and after it.
THEOREM ActiveEndsExhausted == ExecSpec => ActiveExhausted
<1>1. ExecInv /\ [ExecNext]_execVars =>
        [phase = "ACTIVE" /\ phase' = "NBA" =>
            Runnable = {} /\ DeltaWaiters = {} /\ Triggered = {}]_execVars
  <2> SUFFICES ASSUME ExecInv, ExecNext, phase = "ACTIVE", phase' = "NBA"
               PROVE  Runnable = {} /\ DeltaWaiters = {} /\ Triggered = {}
    OBVIOUS
  <2>1. ~(\E interrupted \in BOOLEAN : Submit(interrupted)) /\ ~Drain /\ ~RunEnded
    BY DEF Submit, Dispatch, Drain, DrainServices, RunEnded, Stopped, vars, clock
  <2>2. ~ReadyKernels
    BY DEF ReadyKernels, ReadyReset, WaitEval, ReadyFlags, ReadyCompact, ReadyDispatch,
       ExecLaunch, vars, clock
  <2>3. ~VmStep
    <3> SUFFICES ASSUME VmStep PROVE FALSE
      OBVIOUS
    <3>1. PICK i \in Fetched : DisableBranch(i) \/ QueueLoad(i) \/ VmExec(i)
      BY VmSteps
    <3>2. VmExec(i) => UNCHANGED clock
      BY VmEffects, VmSteps DEF ExecInv
    <3> QED
      BY <3>1, <3>2 DEF DisableBranch, QueueLoad, GoesTo, clock
  <2>4. ~ThreadStep /\ ~(\E p \in Procs : SwitchTo(p))
    BY <2>3 DEF ThreadStep, ThreadEnter, RunOn, LoopEnds, QueueStore, JoinLoad, JoinStore,
       JoinCheck, ThreadExit, GoesTo, SwitchTo, clock
  <2>5. ScanActive
    BY <2>1, <2>2, <2>4 DEF ExecNext, SchedStep, BeginActive, EndPass, CommitNba, WakeAfterNba,
       AdvanceTime, Quiesce, EndStep, clock
  <2>6. at = "scan" /\ Triggered \cup DeltaWaiters = {}
    BY <2>5 DEF ScanActive
  <2> QED
    BY <2>6 DEF ExecInv, Gathered
<1> QED
  BY <1>1, ExecInvHolds, PTL DEF ExecSpec, ActiveExhausted


-----------------------------------------------------------------------------
(* Joins: why a count that is loaded and stored by several threads is never    *)
(* too low.  The parent of a live thread is not live, so that nothing but its  *)
(* branches touches the count, and each of them stores a value that has not    *)
(* counted a branch twice.                                                     *)

\* A process disables its own branches only.
SiblingsLetLive == \A p \in Procs : \A i \in Program[p] : i.op = "DISABLE_CHILD" => Parent[i.pid] = p

\* The locals of p's thread, which the cursor may have or not.
Place(p) == IF p = cursor THEN at ELSE thread[p].at
Loaded(p) == IF p = cursor THEN reg ELSE thread[p].reg

\* Can run again without being forked again.
Alive(c) == state[c] = "READY" \/ wait_kind[c] # "NONE"

\* The parent of c waits in the fork of c.
InJoinOf(c) == wait_kind[Parent[c]] = "JOIN" /\ wait_on[Parent[c]].tag = JoinTag[c]

WaitsAreBlocked == \A p \in Procs : wait_kind[p] # "NONE" => state[p] = "BLOCKED"

BranchesAreAwaited == \A c \in Procs : Parent[c] # NoParent /\ Alive(c) => InJoinOf(c)

\* What a live thread knows: that it runs, whose branch it counts, and that its
\* parent is in the join, or was released by another branch, all being over.
Agrees(c) ==
    /\ Place(c) \in {"enter", "vm", "enqueue"} => state[c] = "READY"
    /\ Place(c) = "join" /\ Loaded(c).child # c =>
           state[c] = "READY" /\ Parent[Loaded(c).child] = c
    /\ Place(c) \in {"join", "store", "check"} /\ Loaded(c).child = c => state[c] = "DONE"
    /\ Place(c) \in {"store", "check"} => Loaded(c).child = c
    /\ Parent[c] # NoParent =>
           /\ Parent[c] \notin live
           /\ \/ InJoinOf(c)
              \/ /\ state[Parent[c]] = "READY" /\ state[c] = "DONE"
                 /\ Place(c) \in {"check", "exit"}

ThreadsAgree == \A c \in live : Agrees(c)

\* The branches of the fork p waits in that have not stored their decrement.
Counting == {"after", "join", "store"}
Uncounted(p) == {c \in Children(p, wait_on[p].tag) : state[c] # "DONE" \/ Place(c) \in Counting}

\* Neither the join count nor what a branch has loaded of it counts one twice.
NoCountTooLow ==
    \A p \in Procs : wait_kind[p] = "JOIN" =>
        /\ Cardinality(Uncounted(p)) <= join_count[p]
        /\ \A c \in live : Parent[c] = p /\ Place(c) \in {"store", "check"} =>
               Cardinality(Uncounted(p)) <= Loaded(c).left

JoinInv == WaitsAreBlocked /\ BranchesAreAwaited /\ ThreadsAgree /\ NoCountTooLow

\* Fewer branches to count are not more.
LEMMA FewerUncounted ==
  ASSUME NEW p \in Procs, NEW S, S \subseteq Uncounted(p)
  PROVE  /\ Cardinality(S) \in Nat /\ Cardinality(Uncounted(p)) \in Nat
         /\ Cardinality(S) <= Cardinality(Uncounted(p))
         /\ IsFiniteSet(Uncounted(p))
<1>1. Uncounted(p) \subseteq Procs
  BY DEF Uncounted, Children
<1> QED
  BY <1>1, Sizes, FS_Subset, SchedulerAssumption

\* Type facts the steps below use.
LEMMA Known ==
  ASSUME ExecTypeOK
  PROVE  /\ live \subseteq Procs /\ cursor \in Procs /\ NoParent \notin Procs
         /\ \A p \in Procs : Parent[p] \in Procs \cup {NoParent} /\ Parent[p] # p
         /\ \A p \in Procs : state[p] \in {"READY", "BLOCKED", "DONE"} /\ join_count[p] \in Nat
         /\ DOMAIN state = Procs /\ DOMAIN wait_kind = Procs /\ DOMAIN wait_on = Procs
         /\ DOMAIN join_count = Procs
         /\ \A p \in Procs : p \notin live => Place(p) \notin Counting /\ thread[p] = Fresh
         /\ \A c \in live : /\ Place(c) \in ThreadPlaces
                            /\ LoadedAt(Place(c), Loaded(c))
<1>1. NoParent \notin Procs
  BY SchedulerAssumption DEF NoParent, Procs
<1>2. \A p \in Procs : Parent[p] \in Procs \cup {NoParent} /\ Parent[p] # p
  BY SchedulerAssumption
<1>3. ASSUME NEW p \in Procs, p \notin live
      PROVE  Place(p) \notin Counting /\ thread[p] = Fresh
  <2>1. thread[p] = Fresh
    BY <1>3 DEF ExecTypeOK, ThreadsTyped
  <2>2. p = cursor => at \in SchedPlaces
    BY <1>3 DEF ExecTypeOK, ThreadsTyped
  <2> QED
    BY <2>1, <2>2 DEF Place, Counting, Fresh, SchedPlaces
<1>4. ASSUME NEW c \in live
      PROVE  Place(c) \in ThreadPlaces /\ LoadedAt(Place(c), Loaded(c))
  <2>1. stage = "threads"
    BY <1>4 DEF ExecTypeOK, ThreadsTyped
  <2>2. CASE c = cursor
    BY <2>1, <2>2, InsideThreads DEF ExecTypeOK, ThreadsTyped, Place, Loaded
  <2>3. CASE c # cursor
    <3>1. c \in Procs /\ thread[c] \in ThreadLocals /\ LoadedAt(thread[c].at, thread[c].reg)
      BY <1>4 DEF ExecTypeOK, PipelineTyped, ThreadsTyped
    <3>2. thread[c].at \in ThreadPlaces
      BY <3>1 DEF ThreadLocals
    <3> QED
      BY <2>3, <3>1, <3>2 DEF Place, Loaded
  <2> QED
    BY <2>2, <2>3
<1> QED
  BY <1>1, <1>2, <1>3, <1>4 DEF ExecTypeOK, PipelineTyped, CountersTyped, ProcsTyped

\* A step that leaves the waits and the counts alone.
LEMMA SameWaits ==
  ASSUME ExecTypeOK, JoinInv, UNCHANGED <<waits, join_count>>, live' \subseteq live,
         \A c \in live' :
             \/ UNCHANGED <<Place(c), Loaded(c)>>
             \/ /\ Agrees(c)'
                /\ Place(c)' \in {"store", "check"} /\ Parent[c] # NoParent =>
                       Loaded(c).left' = join_count[Parent[c]],
         \A c \in Procs : Place(c)' \in Counting => Place(c) \in Counting \/ state[c] # "DONE"
  PROVE  JoinInv'
<1>1. WaitsAreBlocked' /\ BranchesAreAwaited'
  BY DEF JoinInv, waits, WaitsAreBlocked, BranchesAreAwaited, Alive, InJoinOf
<1>2. ThreadsAgree'
  <2> SUFFICES ASSUME NEW c \in live' PROVE Agrees(c)'
    BY DEF ThreadsAgree
  <2>1. CASE UNCHANGED <<Place(c), Loaded(c)>>
    <3>1. Agrees(c)
      BY DEF JoinInv, ThreadsAgree
    <3> QED
      BY <2>1, <3>1 DEF Agrees, waits, InJoinOf
  <2> QED
    BY <2>1
<1>3. NoCountTooLow'
  <2> SUFFICES ASSUME NEW p \in Procs, wait_kind[p] = "JOIN"
               PROVE  /\ Cardinality(Uncounted(p)') <= join_count[p]
                      /\ \A c \in live' : Parent[c] = p /\ Place(c)' \in {"store", "check"} =>
                             Cardinality(Uncounted(p)') <= Loaded(c).left'
    BY DEF NoCountTooLow, waits
  <2>1. Uncounted(p)' \subseteq Uncounted(p)
    BY DEF Uncounted, Children, waits
  <2>2. /\ Cardinality(Uncounted(p)') \in Nat /\ Cardinality(Uncounted(p)) \in Nat
        /\ Cardinality(Uncounted(p)') <= Cardinality(Uncounted(p))
    BY <2>1, FewerUncounted
  <2>3. join_count[p] \in Nat /\ p # NoParent
    BY Known
  <2>4. Cardinality(Uncounted(p)) <= join_count[p]
    BY DEF JoinInv, NoCountTooLow
  <2>5. Cardinality(Uncounted(p)') <= join_count[p]
    BY <2>2, <2>3, <2>4
  <2>6. ASSUME NEW c \in live', Parent[c] = p, Place(c)' \in {"store", "check"}
        PROVE  Cardinality(Uncounted(p)') <= Loaded(c).left'
    <3>1. CASE UNCHANGED <<Place(c), Loaded(c)>>
      <4>1. c \in live /\ Place(c) \in {"store", "check"} /\ Loaded(c).left' = Loaded(c).left
        BY <2>6, <3>1
      <4>2. Cardinality(Uncounted(p)) <= Loaded(c).left
        BY <2>6, <4>1 DEF JoinInv, NoCountTooLow
      <4>3. Loaded(c) \in JoinLoads
        BY <4>1, Known DEF LoadedAt
      <4>4. Loaded(c).left \in Nat
        BY <4>3 DEF JoinLoads
      <4> QED
        BY <2>2, <4>1, <4>2, <4>4
    <3>2. CASE ~UNCHANGED <<Place(c), Loaded(c)>>
      BY <2>3, <2>5, <2>6, <3>2
    <3> QED
      BY <3>1, <3>2
  <2> QED
    BY <2>5, <2>6
<1> QED
  BY <1>1, <1>2, <1>3 DEF JoinInv

\* A wake between two dispatches of exec_ready: it is never from a join.
LEMMA IdleWakes ==
  ASSUME ExecTypeOK, JoinInv, NEW W, Wake(W),
         \A p \in Procs : p \in W => wait_kind[p] \notin {"NONE", "JOIN"},
         UNCHANGED <<wait_on, join_count>>, live = {}, live' = {},
         \A p \in Procs : Place(p)' \notin Counting
  PROVE  JoinInv'
<1>1. \A p \in Procs : /\ state'[p] = IF p \in W THEN "READY" ELSE state[p]
                       /\ wait_kind'[p] = IF p \in W THEN "NONE" ELSE wait_kind[p]
                       /\ wait_on'[p] = wait_on[p]
  BY DEF Wake
<1>2. WaitsAreBlocked'
  BY <1>1 DEF JoinInv, WaitsAreBlocked
<1>3. BranchesAreAwaited'
  <2> SUFFICES ASSUME NEW c \in Procs, Parent[c] # NoParent, Alive(c)' PROVE InJoinOf(c)'
    BY DEF BranchesAreAwaited
  <2>1. Parent[c] \in Procs
    BY Known
  <2>2. InJoinOf(c)
    BY <1>1 DEF Alive, JoinInv, BranchesAreAwaited
  <2> QED
    BY <1>1, <2>1, <2>2 DEF InJoinOf
<1>4. NoCountTooLow'
  <2> SUFFICES ASSUME NEW p \in Procs, wait_kind'[p] = "JOIN"
               PROVE  Cardinality(Uncounted(p)') <= join_count'[p]
    BY DEF NoCountTooLow
  <2>1. wait_kind[p] = "JOIN"
    BY <1>1
  <2>2. Uncounted(p)' \subseteq Uncounted(p)
    BY <1>1 DEF Uncounted, Children, JoinInv, WaitsAreBlocked
  <2>3. /\ Cardinality(Uncounted(p)') \in Nat /\ Cardinality(Uncounted(p)) \in Nat
        /\ Cardinality(Uncounted(p)') <= Cardinality(Uncounted(p))
    BY <2>2, FewerUncounted
  <2>4. Cardinality(Uncounted(p)) <= join_count[p] /\ join_count[p] \in Nat
    BY <2>1, Known DEF JoinInv, NoCountTooLow
  <2> QED
    BY <2>3, <2>4
<1> QED
  BY <1>2, <1>3, <1>4 DEF JoinInv, ThreadsAgree

\* The host, sched_step and the ready kernels wake processes, but none from a join.
HostStep == \/ (\E interrupted \in BOOLEAN : Submit(interrupted)) \/ SchedStep \/ Drain
            \/ ReadyReset \/ WaitEval \/ ReadyFlags \/ ReadyCompact \/ ReadyDispatch

LEMMA HostWakes ==
  ASSUME HostStep
  PROVE  /\ UNCHANGED <<wait_on, join_count, live, thread>> /\ stage # "threads"
         /\ \/ UNCHANGED <<state, wait_kind>>
            \/ \E W : Wake(W) /\ \A p \in Procs : p \in W => wait_kind[p] \notin {"NONE", "JOIN"}
<1>1. stage # "threads" /\ UNCHANGED <<live, thread>>
  BY DEF HostStep, Submit, SchedStep, Drain, ReadyReset, WaitEval, ReadyFlags, ReadyCompact,
     ReadyDispatch, threads
<1>2. CASE (\E interrupted \in BOOLEAN : Submit(interrupted)) \/ ReadyReset \/ ReadyFlags
           \/ ReadyCompact \/ ReadyDispatch
  BY <1>1, <1>2 DEF Submit, Dispatch, ReadyReset, ReadyFlags, ReadyCompact, ReadyDispatch,
     vars, procs, waits
<1>3. CASE WaitEval
  <2>1. Wake(IF phase = "ACTIVE" THEN Elapsed ELSE {}) /\ UNCHANGED <<wait_on, join_count>>
    BY <1>3 DEF WaitEval
  <2> QED
    BY <1>1, <2>1 DEF Elapsed
<1>4. CASE Drain
  <2>1. Wake(Answered) /\ UNCHANGED <<wait_on, join_count>>
    BY <1>4 DEF Drain, DrainServices
  <2> QED
    BY <1>1, <2>1 DEF Answered
<1>5. CASE SchedStep
  <2>1. CASE ScanActive
    <3>1. Wake(Triggered \cup DeltaWaiters) /\ UNCHANGED <<wait_on, join_count>>
      BY <2>1 DEF ScanActive
    <3> QED
      BY <1>1, <3>1 DEF Triggered, DeltaWaiters
  <2>2. CASE WakeAfterNba
    <3>1. Wake(Triggered) /\ UNCHANGED <<wait_on, join_count>>
      BY <2>2 DEF WakeAfterNba
    <3> QED
      BY <1>1, <3>1 DEF Triggered
  <2>3. CASE AdvanceTime
    <3>1. PICK next \in Deadlines : Wake({p \in Sleepers : wait_time[p] = next})
      BY <2>3 DEF AdvanceTime
    <3>2. UNCHANGED <<wait_on, join_count>>
      BY <2>3 DEF AdvanceTime
    <3> QED
      BY <1>1, <3>1, <3>2 DEF Sleepers
  <2> QED
    BY <1>1, <1>5, <2>1, <2>2, <2>3 DEF SchedStep, BeginActive, EndPass, CommitNba, Quiesce,
       EndStep, procs, waits
<1> QED
  BY <1>2, <1>3, <1>4, <1>5 DEF HostStep

\* The host, sched_step and the ready kernels but the launch of exec_ready.
LEMMA BetweenDispatches ==
  ASSUME ExecInv, ExecTypeOK', JoinInv, HostStep
  PROVE  JoinInv' /\ \A p \in Procs : wait_kind[p] = "JOIN" => wait_kind'[p] = "JOIN"
<1>1. /\ UNCHANGED <<wait_on, join_count, live, thread>> /\ stage # "threads"
      /\ \/ UNCHANGED <<state, wait_kind>>
         \/ \E W : Wake(W) /\ \A p \in Procs : p \in W => wait_kind[p] \notin {"NONE", "JOIN"}
  BY HostWakes
<1>2. live = {} /\ live' = {} /\ ExecTypeOK
  BY <1>1, OutsideThreads DEF ExecInv
<1>3. \A p \in Procs : Place(p)' \notin Counting
  <2>1. \A p \in Procs : thread'[p] = Fresh
    BY <1>2 DEF ExecTypeOK, ThreadsTyped
  <2>2. at' \in SchedPlaces
    BY <1>2 DEF ExecTypeOK, ThreadsTyped
  <2> QED
    BY <2>1, <2>2 DEF Place, Counting, Fresh, SchedPlaces
<1>4. CASE UNCHANGED <<state, wait_kind>>
  BY <1>1, <1>2, <1>3, <1>4, SameWaits DEF waits
<1>5. CASE \E W : Wake(W) /\ \A p \in Procs : p \in W => wait_kind[p] \notin {"NONE", "JOIN"}
  <2>1. PICK W : Wake(W) /\ \A p \in Procs : p \in W => wait_kind[p] \notin {"NONE", "JOIN"}
    BY <1>5
  <2>2. JoinInv'
    BY <1>1, <1>2, <1>3, <2>1, IdleWakes
  <2> QED
    BY <2>1, <2>2 DEF Wake
<1> QED
  BY <1>1, <1>4, <1>5

\* exec_ready starts a thread for every READY process: the parent of none, for a
\* READY branch is awaited.
LEMMA LaunchAgrees ==
  ASSUME ExecInv, ExecTypeOK', JoinInv, ExecLaunch
  PROVE  JoinInv'
<1>1. /\ ExecTypeOK /\ live = {} /\ live' \subseteq Runnable
      /\ UNCHANGED <<waits, join_count, thread>>
  BY DEF ExecInv, Gathered, ExecLaunch, procs
<1>2. \A p \in Procs : thread[p] = Fresh
  BY <1>1 DEF ExecTypeOK, ThreadsTyped
<1>3. \A c \in live' : Place(c)' = "enter"
  <2>1. live' # {} => at' = "enter" /\ cursor' \in live'
    BY DEF ExecLaunch, GiveCursor, Fresh
  <2> QED
    BY <1>1, <1>2, <2>1 DEF Place, Fresh, Runnable
<1>4. \A c \in Procs : Place(c)' \notin Counting
  <2>1. at' = "enter" \/ at' = at
    BY DEF ExecLaunch, GiveCursor, Fresh
  <2>2. at \in SchedPlaces
    BY <1>1 DEF ExecTypeOK, ThreadsTyped
  <2> QED
    BY <1>1, <1>2, <2>1, <2>2 DEF Place, Counting, Fresh, SchedPlaces
<1>5. WaitsAreBlocked' /\ BranchesAreAwaited'
  BY <1>1 DEF JoinInv, waits, WaitsAreBlocked, BranchesAreAwaited, Alive, InJoinOf
<1>6. ThreadsAgree'
  <2> SUFFICES ASSUME NEW c \in live' PROVE Agrees(c)'
    BY DEF ThreadsAgree
  <2>1. c \in Procs /\ state[c] = "READY" /\ Place(c)' = "enter"
    BY <1>1, <1>3 DEF Runnable
  <2>2. ASSUME Parent[c] # NoParent PROVE InJoinOf(c) /\ Parent[c] \notin live'
    <3>1. InJoinOf(c) /\ Parent[c] \in Procs
      BY <1>1, <2>1, <2>2, Known DEF JoinInv, BranchesAreAwaited, Alive
    <3>2. state[Parent[c]] = "BLOCKED"
      BY <3>1 DEF InJoinOf, JoinInv, WaitsAreBlocked
    <3> QED
      BY <1>1, <3>1, <3>2 DEF Runnable
  <2> QED
    BY <1>1, <2>1, <2>2 DEF Agrees, InJoinOf, waits
<1>7. NoCountTooLow'
  <2> SUFFICES ASSUME NEW p \in Procs, wait_kind[p] = "JOIN"
               PROVE  Cardinality(Uncounted(p)') <= join_count[p]
    BY <1>1, <1>3 DEF NoCountTooLow, waits
  <2>1. Uncounted(p)' \subseteq Uncounted(p)
    BY <1>1, <1>4 DEF Uncounted, Children, waits
  <2>2. /\ Cardinality(Uncounted(p)') \in Nat /\ Cardinality(Uncounted(p)) \in Nat
        /\ Cardinality(Uncounted(p)') <= Cardinality(Uncounted(p))
    BY <2>1, FewerUncounted
  <2>3. Cardinality(Uncounted(p)) <= join_count[p] /\ join_count[p] \in Nat
    BY <1>1, Known DEF JoinInv, NoCountTooLow
  <2> QED
    BY <2>2, <2>3
<1> QED
  BY <1>5, <1>6, <1>7 DEF JoinInv

\* Another thread gets the cursor.
LEMMA SwitchAgrees ==
  ASSUME ExecInv, JoinInv, NEW q \in Procs, SwitchTo(q)
  PROVE  JoinInv'
<1>1. /\ ExecTypeOK /\ UNCHANGED <<waits, join_count, live>> /\ q \in live \ {cursor}
      /\ thread' = [thread EXCEPT ![cursor] = Locals, ![q] = Fresh]
      /\ cursor' = q /\ at' = thread[q].at /\ reg' = thread[q].reg
  BY DEF ExecInv, SwitchTo, GiveCursor, procs
<1>2. thread \in [Procs -> ThreadLocals] /\ cursor \in Procs
  BY <1>1, Known DEF ExecTypeOK, ThreadsTyped
<1>3. \A c \in Procs : Place(c)' = Place(c) /\ Loaded(c)' = Loaded(c)
  BY <1>1, <1>2 DEF Place, Loaded, Locals
<1>4. \A c \in live' : UNCHANGED <<Place(c), Loaded(c)>>
  BY <1>1, <1>3, Known
<1> QED
  BY <1>1, <1>3, <1>4, SameWaits

\* A thread ends.
LEMMA ExitAgrees ==
  ASSUME ExecInv, ExecTypeOK', JoinInv, ThreadExit
  PROVE  JoinInv'
<1>1. /\ ExecTypeOK /\ UNCHANGED <<waits, join_count>> /\ live' = live \ {cursor}
      /\ at = "exit" /\ cursor \in Procs
  BY Known DEF ExecInv, ThreadExit, procs
<1>2. \A c \in live' : UNCHANGED <<Place(c), Loaded(c)>>
  <2> SUFFICES ASSUME NEW c \in live' PROVE Place(c)' = Place(c) /\ Loaded(c)' = Loaded(c)
    OBVIOUS
  <2>1. PICK p \in live' : GiveCursor(p, thread[p]) /\ thread' = [thread EXCEPT ![p] = Fresh]
    BY DEF ThreadExit
  <2>2. c \in Procs /\ c # cursor /\ thread \in [Procs -> ThreadLocals]
    BY <1>1, Known DEF ExecTypeOK, ThreadsTyped
  <2> QED
    BY <2>1, <2>2 DEF GiveCursor, Place, Loaded
<1>3. \A c \in Procs : c \notin live' => Place(c)' \notin Counting
  <2> SUFFICES ASSUME NEW c \in Procs, c \notin live' PROVE Place(c)' \notin Counting
    OBVIOUS
  <2>1. thread'[c] = Fresh
    BY DEF ExecTypeOK, ThreadsTyped
  <2>2. c = cursor' => at' \in SchedPlaces
    BY DEF ExecTypeOK, ThreadsTyped
  <2> QED
    BY <2>1, <2>2 DEF Place, Counting, Fresh, SchedPlaces
<1>4. \A c \in Procs : Place(c)' \in Counting => Place(c) \in Counting \/ state[c] # "DONE"
  BY <1>2, <1>3
<1> QED
  BY <1>1, <1>2, <1>4, SameWaits

\* What holds of the thread at the cursor and the processes it has forked.
LEMMA AtCursor ==
  ASSUME ExecInv, JoinInv, stage = "threads"
  PROVE  /\ ExecTypeOK /\ cursor \in live /\ cursor \in Procs
         /\ Place(cursor) = at /\ Loaded(cursor) = reg /\ Agrees(cursor)
         /\ \A c \in Procs \ {cursor} : Place(c) = thread[c].at /\ Loaded(c) = thread[c].reg
         /\ \A c \in live : Parent[c] # cursor
         /\ state[cursor] = "READY" =>
                /\ wait_kind[cursor] = "NONE"
                /\ \A c \in Procs : Parent[c] = cursor => ~Alive(c)
<1>1. ExecTypeOK /\ cursor \in live /\ cursor \in Procs
  BY InsideThreads DEF ExecInv
<1>2. \A c \in live : Parent[c] # cursor
  BY <1>1, Known DEF JoinInv, ThreadsAgree, Agrees
<1>3. state[cursor] = "READY" =>
          wait_kind[cursor] = "NONE" /\ \A c \in Procs : Parent[c] = cursor => ~Alive(c)
  BY <1>1, Known DEF ExecInv, ReadyAreFree, JoinInv, BranchesAreAwaited, InJoinOf
<1> QED
  BY <1>1, <1>2, <1>3 DEF Place, Loaded, JoinInv, ThreadsAgree

\* A thread goes on without touching a wait or a count.
LEMMA GoesOn ==
  ASSUME ExecInv, JoinInv, stage = "threads",
         UNCHANGED <<waits, join_count, live, thread, cursor>>,
         Agrees(cursor)',
         at' \in {"store", "check"} /\ Parent[cursor] # NoParent =>
             reg'.left = join_count[Parent[cursor]],
         at' \in Counting => at \in Counting \/ state[cursor] # "DONE"
  PROVE  JoinInv'
<1>1. \A c \in Procs \ {cursor} : UNCHANGED <<Place(c), Loaded(c)>>
  BY DEF Place, Loaded
<1>2. Place(cursor)' = at' /\ Loaded(cursor)' = reg'
  BY DEF Place, Loaded
<1>3. \A c \in live' :
          \/ UNCHANGED <<Place(c), Loaded(c)>>
          \/ /\ Agrees(c)'
             /\ Place(c)' \in {"store", "check"} /\ Parent[c] # NoParent =>
                    Loaded(c).left' = join_count[Parent[c]]
  <2> SUFFICES ASSUME NEW c \in live
               PROVE  \/ UNCHANGED <<Place(c), Loaded(c)>>
                      \/ /\ Agrees(c)'
                         /\ Place(c)' \in {"store", "check"} /\ Parent[c] # NoParent =>
                                Loaded(c).left' = join_count[Parent[c]]
    OBVIOUS
  <2>1. CASE c = cursor
    BY <1>2, <2>1
  <2>2. CASE c # cursor
    BY <1>1, <2>2, Known DEF ExecInv
  <2> QED
    BY <2>1, <2>2
<1>4. \A c \in Procs : Place(c)' \in Counting => Place(c) \in Counting \/ state[c] # "DONE"
  BY <1>1, <1>2, AtCursor
<1> QED
  BY <1>3, <1>4, SameWaits DEF ExecInv

\* The steps of a thread around its instructions and the two ends of a join.
LEMMA StepsAgree ==
  ASSUME ExecInv, JoinInv, ThreadEnter \/ RunOn \/ LoopEnds \/ QueueStore \/ JoinLoad
  PROVE  JoinInv'
<1>1. /\ stage = "threads" /\ UNCHANGED <<waits, join_count, live, thread, cursor>>
  BY DEF ThreadEnter, RunOn, LoopEnds, QueueStore, JoinLoad, GoesTo, procs, waits
<1>2. /\ Agrees(cursor) /\ Place(cursor) = at /\ Loaded(cursor) = reg /\ cursor \in Procs
      /\ state[cursor] = "READY" => wait_kind[cursor] = "NONE"
  BY <1>1, AtCursor
<1>3. Place(cursor)' = at' /\ Loaded(cursor)' = reg'
  BY DEF Place, Loaded
<1>5. CASE ThreadEnter
  <2>1. at = "enter" /\ at' = "after"
    BY <1>2, <1>5 DEF ThreadEnter, GoesTo, Agrees
  <2>2. Agrees(cursor)'
    BY <1>1, <1>2, <1>3, <2>1 DEF Agrees, InJoinOf, waits
  <2> QED
    BY <1>1, <1>2, <2>1, <2>2, GoesOn DEF Agrees
<1>6. CASE RunOn
  <2>1. at = "after" /\ at' = "vm" /\ state[cursor] = "READY"
    BY <1>6 DEF RunOn, GoesTo
  <2>2. Agrees(cursor)'
    BY <1>1, <1>2, <1>3, <2>1 DEF Agrees, InJoinOf, waits
  <2> QED
    BY <1>1, <2>1, <2>2, GoesOn DEF Counting
<1>7. CASE LoopEnds
  <2>1. /\ at = "after"
        /\ \/ state[cursor] = "DONE" /\ at' = "join" /\ reg'.child = cursor
           \/ state[cursor] # "DONE" /\ at' = "exit"
    BY <1>7 DEF LoopEnds, GoesTo, Joining
  <2>2. Agrees(cursor)'
    BY <1>1, <1>2, <1>3, <2>1 DEF Agrees, InJoinOf, waits
  <2> QED
    BY <1>1, <2>1, <2>2, GoesOn DEF Counting
<1>8. CASE QueueStore
  <2>1. at = "enqueue" /\ at' = "vm"
    BY <1>8 DEF QueueStore, GoesTo
  <2>2. Agrees(cursor)'
    BY <1>1, <1>2, <1>3, <2>1 DEF Agrees, InJoinOf, waits
  <2> QED
    BY <1>1, <2>1, <2>2, GoesOn DEF Counting
<1>9. CASE JoinLoad
  <2>1. at = "join" /\ reg \in JoinLoads
    BY <1>1, <1>9, AtCursor, Known DEF JoinLoad, LoadedAt
  <2>2. CASE reg.child = cursor
    <3>1. state[cursor] = "DONE"
      BY <1>2, <2>1, <2>2 DEF Agrees
    <3>2. CASE Parent[cursor] # NoParent
      <4>1. InJoinOf(cursor)
        BY <1>2, <2>1, <3>2 DEF Agrees
      <4>2. at' = "store" /\ reg' = [reg EXCEPT !.left = join_count[Parent[cursor]]]
        BY <1>9, <2>2, <3>2, <4>1 DEF JoinLoad, InJoinOf, GoesTo
      <4>3. reg'.child = cursor /\ reg'.left = join_count[Parent[cursor]]
        BY <2>1, <2>2, <4>2 DEF JoinLoads
      <4>4. Agrees(cursor)'
        BY <1>1, <1>2, <1>3, <2>1, <3>1, <4>2, <4>3 DEF Agrees, InJoinOf, waits
      <4> QED
        BY <1>1, <2>1, <4>3, <4>4, GoesOn DEF Counting
    <3>3. CASE Parent[cursor] = NoParent
      <4>1. at' = "exit"
        BY <1>9, <2>2, <3>3 DEF JoinLoad, GoesTo, Caller
      <4>2. Agrees(cursor)'
        BY <1>1, <1>2, <1>3, <3>3, <4>1 DEF Agrees
      <4> QED
        BY <1>1, <4>1, <4>2, GoesOn DEF Counting
    <3> QED
      BY <3>2, <3>3
  <2>3. CASE reg.child # cursor
    <3>1. state[cursor] = "READY" /\ Parent[reg.child] = cursor
      BY <1>2, <2>1, <2>3 DEF Agrees
    <3>2. at' = "vm"
      BY <1>2, <1>9, <2>3, <3>1 DEF JoinLoad, GoesTo, Caller
    <3>3. Agrees(cursor)'
      BY <1>1, <1>2, <1>3, <2>1, <3>1, <3>2 DEF Agrees, InJoinOf, waits
    <3> QED
      BY <1>1, <3>2, <3>3, GoesOn DEF Counting
  <2> QED
    BY <2>2, <2>3
<1> QED
  BY <1>5, <1>6, <1>7, <1>8, <1>9

\* The store of a branch counts it, and whatever else it overwrites.
LEMMA StoreAgrees ==
  ASSUME ExecInv, JoinInv, JoinStore
  PROVE  JoinInv'
<1>1. /\ stage = "threads" /\ at = "store" /\ at' = "check"
      /\ UNCHANGED <<waits, live, thread, cursor>>
  BY DEF JoinStore, GoesTo
<1>2. /\ ExecTypeOK /\ cursor \in live /\ cursor \in Procs
      /\ Agrees(cursor) /\ Place(cursor) = at /\ Loaded(cursor) = reg
  BY <1>1, AtCursor
<1>3. /\ Place(cursor)' = at' /\ Loaded(cursor)' = reg'
      /\ \A c \in Procs \ {cursor} : UNCHANGED <<Place(c), Loaded(c)>>
  BY <1>1 DEF Place, Loaded
<1>4. reg \in JoinLoads /\ reg.child = cursor /\ Parent[cursor] \in Procs
  BY <1>1, <1>2, Known DEF LoadedAt, Agrees
<1>5. PICK p \in Procs : p = Parent[cursor]
  BY <1>4
<1>6. InJoinOf(cursor) /\ state[cursor] = "DONE" /\ p \notin live
  BY <1>1, <1>2, <1>4, <1>5, Known DEF Agrees
<1>7. /\ wait_kind[p] = "JOIN" /\ cursor \in Uncounted(p) /\ reg.left \in Nat
      /\ Cardinality(Uncounted(p)) <= reg.left /\ Cardinality(Uncounted(p)) <= join_count[p]
  <2>1. wait_kind[p] = "JOIN" /\ cursor \in Children(p, wait_on[p].tag)
    BY <1>2, <1>5, <1>6 DEF InJoinOf, Children
  <2>2. cursor \in Uncounted(p)
    BY <1>1, <1>2, <2>1 DEF Uncounted, Counting
  <2> QED
    BY <1>1, <1>2, <1>4, <1>5, <2>1, <2>2 DEF JoinInv, NoCountTooLow, JoinLoads
<1>8. reg.left > 0
  <2>1. Cardinality(Uncounted(p)) # 0 /\ Cardinality(Uncounted(p)) \in Nat
    BY <1>7, FewerUncounted, FS_EmptySet
  <2> QED
    BY <1>7, <2>1
<1>9. join_count' = [join_count EXCEPT ![p] = reg.left - 1] /\ reg'.left = reg.left - 1
      /\ reg'.child = cursor
  BY <1>4, <1>5, <1>8 DEF JoinStore, JoinLoads
<1>10. WaitsAreBlocked' /\ BranchesAreAwaited'
  BY <1>1 DEF JoinInv, waits, WaitsAreBlocked, BranchesAreAwaited, Alive, InJoinOf
<1>11. ThreadsAgree'
  <2> SUFFICES ASSUME NEW c \in live PROVE Agrees(c)'
    BY <1>1 DEF ThreadsAgree
  <2>1. Agrees(c)
    BY DEF JoinInv, ThreadsAgree
  <2>2. CASE c = cursor
    BY <1>1, <1>2, <1>3, <1>6, <1>9, <2>1, <2>2 DEF Agrees, InJoinOf, waits
  <2>3. CASE c # cursor
    <3>1. UNCHANGED <<Place(c), Loaded(c)>>
      BY <1>2, <1>3, <2>3, Known
    <3> QED
      BY <1>1, <2>1, <3>1 DEF Agrees, InJoinOf, waits
  <2> QED
    BY <2>2, <2>3
<1>12. Uncounted(p)' = Uncounted(p) \ {cursor}
  BY <1>1, <1>2, <1>3, <1>6 DEF Uncounted, Children, Counting, waits
<1>13. Cardinality(Uncounted(p)') = Cardinality(Uncounted(p)) - 1
       /\ Cardinality(Uncounted(p)) \in Nat
  BY <1>7, <1>12, FewerUncounted, FS_RemoveElement
<1>14. NoCountTooLow'
  <2> SUFFICES ASSUME NEW q \in Procs, wait_kind[q] = "JOIN"
               PROVE  /\ Cardinality(Uncounted(q)') <= join_count'[q]
                      /\ \A c \in live : Parent[c] = q /\ Place(c)' \in {"store", "check"} =>
                             Cardinality(Uncounted(q)') <= Loaded(c).left'
    BY <1>1 DEF NoCountTooLow, waits
  <2>1. CASE q = p
    <3>1. Cardinality(Uncounted(q)') <= join_count'[q]
      BY <1>2, <1>7, <1>9, <1>13, <2>1, Known
    <3>2. ASSUME NEW c \in live, Parent[c] = q, Place(c)' \in {"store", "check"}
          PROVE  Cardinality(Uncounted(q)') <= Loaded(c).left'
      <4>1. CASE c = cursor
        <5>1. Loaded(c)' = reg'
          BY <1>1, <4>1 DEF Loaded
        <5> QED
          BY <1>7, <1>9, <1>13, <2>1, <5>1
      <4>2. CASE c # cursor
        <5>1. UNCHANGED <<Place(c), Loaded(c)>>
          BY <1>2, <1>3, <4>2, Known
        <5>2. Cardinality(Uncounted(p)) <= Loaded(c).left /\ Loaded(c).left \in Nat
          BY <1>2, <1>7, <2>1, <3>2, <5>1, Known DEF JoinInv, NoCountTooLow, LoadedAt, JoinLoads
        <5> QED
          BY <1>13, <2>1, <5>1, <5>2
      <4> QED
        BY <4>1, <4>2
    <3> QED
      BY <3>1, <3>2
  <2>2. CASE q # p
    <3>1. Uncounted(q)' = Uncounted(q)
      BY <1>1, <1>3, <1>5, <2>2 DEF Uncounted, Children, waits
    <3>2. join_count'[q] = join_count[q]
      BY <1>2, <1>9, <2>2, Known
    <3>3. ASSUME NEW c \in live, Parent[c] = q PROVE UNCHANGED <<Place(c), Loaded(c)>>
      BY <1>2, <1>3, <1>5, <2>2, <3>3, Known
    <3> QED
      BY <3>1, <3>2, <3>3 DEF JoinInv, NoCountTooLow
  <2> QED
    BY <2>1, <2>2
<1> QED
  BY <1>10, <1>11, <1>14 DEF JoinInv

\* The test of a branch finds zero only when no branch is left to count.
LEMMA CheckAgrees ==
  ASSUME ExecInv, JoinInv, JoinCheck
  PROVE  /\ JoinInv'
         /\ \A p \in Procs : wait_kind[p] = "JOIN" /\ wait_kind'[p] # "JOIN" =>
                \A c \in Children(p, wait_on[p].tag) : state[c] = "DONE"
<1>1. /\ stage = "threads" /\ at = "check" /\ UNCHANGED <<wait_on, join_count, live, thread, cursor>>
  BY DEF JoinCheck, GoesTo
<1>2. /\ ExecTypeOK /\ cursor \in live /\ cursor \in Procs
      /\ Agrees(cursor) /\ Place(cursor) = at /\ Loaded(cursor) = reg
  BY <1>1, AtCursor
<1>3. reg \in JoinLoads /\ reg.child = cursor /\ Parent[cursor] \in Procs /\ at' = "exit"
  BY <1>1, <1>2, Known DEF LoadedAt, Agrees, JoinCheck, GoesTo, Caller
<1>4. PICK p \in Procs : p = Parent[cursor]
  BY <1>3
<1>5. state[cursor] = "DONE" /\ p \notin live /\ p # cursor
  BY <1>1, <1>2, <1>3, <1>4, Known DEF Agrees
<1>6. PICK seen \in {reg.left, join_count[p]} : Wake(IF seen = 0 THEN {p} ELSE {})
  BY <1>3, <1>4 DEF JoinCheck
<1>7. /\ Place(cursor)' = at' /\ Loaded(cursor)' = reg'
      /\ \A c \in Procs \ {cursor} : UNCHANGED <<Place(c), Loaded(c)>>
  BY <1>1 DEF Place, Loaded
<1>8. state \in [Procs -> {"READY", "BLOCKED", "DONE"}] /\ DOMAIN wait_kind = Procs
  BY <1>2 DEF ExecTypeOK, ProcsTyped
<1>9. CASE seen # 0 \/ ~InJoinOf(cursor)
  <2>1. UNCHANGED <<state, wait_kind>>
    <3>1. CASE seen # 0
      <4>1. wait_kind' = wait_kind
        BY <1>2, <1>6, <3>1 DEF Wake, ExecTypeOK, ProcsTyped
      <4>2. state' = state
        BY <1>6, <1>8, <3>1 DEF Wake
      <4> QED
        BY <4>1, <4>2
    <3>2. CASE ~InJoinOf(cursor)
      <4>1. state[p] = "READY" /\ wait_kind[p] = "NONE"
        BY <1>2, <1>3, <1>4, <3>2, Known DEF Agrees, ExecInv, ReadyAreFree
      <4>2. state' = state
        BY <1>6, <1>8, <4>1 DEF Wake
      <4>3. wait_kind' = wait_kind
        BY <1>2, <1>6, <4>1 DEF Wake, ExecTypeOK, ProcsTyped
      <4> QED
        BY <4>2, <4>3
    <3> QED
      BY <1>9, <3>1, <3>2
  <2>2. Agrees(cursor)'
    BY <1>1, <1>2, <1>3, <1>5, <1>7, <2>1 DEF Agrees, InJoinOf
  <2> QED
    BY <1>1, <1>3, <2>1, <2>2, GoesOn DEF Counting, waits
<1>10. CASE seen = 0 /\ InJoinOf(cursor)
  <2>1. wait_kind[p] = "JOIN" /\ wait_on[p].tag = JoinTag[cursor]
    BY <1>4, <1>10 DEF InJoinOf
  <2>2. Uncounted(p) = {}
    <3>1. Cardinality(Uncounted(p)) <= reg.left /\ Cardinality(Uncounted(p)) <= join_count[p]
      BY <1>1, <1>2, <1>4, <2>1 DEF JoinInv, NoCountTooLow
    <3>2. Cardinality(Uncounted(p)) \in Nat /\ IsFiniteSet(Uncounted(p))
      BY FewerUncounted
    <3>3. Cardinality(Uncounted(p)) = 0
      BY <1>6, <1>10, <3>1, <3>2
    <3> QED
      BY <3>2, <3>3, FS_EmptySet
  <2>3. \A q \in Procs : /\ state'[q] = IF q = p THEN "READY" ELSE state[q]
                         /\ wait_kind'[q] = IF q = p THEN "NONE" ELSE wait_kind[q]
    BY <1>6, <1>10 DEF Wake
  <2>4. \A c \in Procs : Parent[c] = p /\ InJoinOf(c) =>
            state[c] = "DONE" /\ Place(c) \notin Counting
    BY <2>2 DEF Uncounted, Children, InJoinOf
  <2>5. WaitsAreBlocked'
    BY <2>3 DEF JoinInv, WaitsAreBlocked
  <2>6. BranchesAreAwaited'
    <3> SUFFICES ASSUME NEW c \in Procs, Parent[c] # NoParent, Alive(c)' PROVE InJoinOf(c)'
      BY DEF BranchesAreAwaited
    <3>1. Alive(c)
      BY <2>1, <2>3 DEF Alive
    <3>2. InJoinOf(c) /\ Parent[c] \in Procs
      BY <1>2, <3>1, Known DEF JoinInv, BranchesAreAwaited
    <3>3. Parent[c] # p
      BY <2>4, <3>1, <3>2 DEF Alive, JoinInv, WaitsAreBlocked
    <3> QED
      BY <1>1, <2>3, <3>2, <3>3 DEF InJoinOf
  <2>7. ThreadsAgree'
    <3> SUFFICES ASSUME NEW c \in live PROVE Agrees(c)'
      BY <1>1 DEF ThreadsAgree
    <3>1. Agrees(c) /\ c \in Procs /\ c # p /\ state'[c] = state[c]
      BY <1>2, <1>5, <2>3, Known DEF JoinInv, ThreadsAgree
    <3>2. Place(c) \in ThreadPlaces
      BY <1>2, Known
    <3>3. c # cursor => UNCHANGED <<Place(c), Loaded(c)>>
      BY <1>7, <3>1
    <3>4. c = cursor => Place(c)' = "exit"
      BY <1>1, <1>3 DEF Place
    <3>5. CASE Parent[c] = p
      <4>1. state[c] = "DONE" /\ Place(c) \in {"check", "exit"}
        <5>1. InJoinOf(c)
          BY <1>2, <2>1, <3>1, <3>5, Known DEF Agrees, ExecInv, ReadyAreFree
        <5> QED
          BY <2>4, <3>1, <3>2, <3>5, <5>1 DEF Agrees, Counting, ThreadPlaces
      <4>2. state'[p] = "READY"
        BY <2>3
      <4> QED
        BY <1>1, <1>5, <3>1, <3>3, <3>4, <3>5, <4>1, <4>2 DEF Agrees
    <3>6. CASE Parent[c] # p
      <4>1. c # cursor
        BY <1>4, <3>6
      <4>2. Parent[c] # NoParent => state'[Parent[c]] = state[Parent[c]]
                                    /\ wait_kind'[Parent[c]] = wait_kind[Parent[c]]
        BY <1>2, <2>3, <3>1, <3>6, Known
      <4> QED
        BY <1>1, <3>1, <3>3, <4>1, <4>2 DEF Agrees, InJoinOf
    <3> QED
      BY <3>5, <3>6
  <2>8. NoCountTooLow'
    <3> SUFFICES ASSUME NEW q \in Procs, wait_kind'[q] = "JOIN"
                 PROVE  /\ Cardinality(Uncounted(q)') <= join_count[q]
                        /\ \A c \in live : Parent[c] = q /\ Place(c)' \in {"store", "check"} =>
                               Cardinality(Uncounted(q)') <= Loaded(c).left'
      BY <1>1 DEF NoCountTooLow
    <3>1. q # p /\ wait_kind[q] = "JOIN"
      BY <2>3
    <3>2. Uncounted(q)' = Uncounted(q)
      <4>1. \A c \in Children(q, wait_on[q].tag) :
                c # cursor /\ c \in Procs /\ (state'[c] = "DONE" <=> state[c] = "DONE")
        BY <1>4, <2>1, <2>3, <3>1 DEF Children, JoinInv, WaitsAreBlocked
      <4> QED
        BY <1>1, <1>7, <4>1 DEF Uncounted, Children
    <3>3. ASSUME NEW c \in live, Parent[c] = q PROVE UNCHANGED <<Place(c), Loaded(c)>>
      BY <1>2, <1>4, <1>7, <3>1, <3>3, Known
    <3> QED
      BY <3>1, <3>2, <3>3 DEF JoinInv, NoCountTooLow
  <2>9. \A c \in Children(p, wait_on[p].tag) : state[c] = "DONE"
    BY <2>2 DEF Uncounted
  <2> QED
    BY <2>3, <2>5, <2>6, <2>7, <2>8, <2>9 DEF JoinInv
<1> QED
  BY <1>9, <1>10

\* The exec step blocks the process, in anything but a join, or ends it.
LEMMA BlockAgrees ==
  ASSUME ExecInv, JoinInv, stage = "threads", at = "vm", at' = "after",
         NEW i, BlocksOn(i) \/ Ends,
         UNCHANGED <<join_count, live, thread, cursor>>
  PROVE  JoinInv' /\ \A p \in Procs : wait_kind[p] = "JOIN" => wait_kind'[p] = "JOIN"
<1>1. /\ ExecTypeOK /\ cursor \in live /\ cursor \in Procs
      /\ Agrees(cursor) /\ Place(cursor) = at
  BY AtCursor
<1>2. state[cursor] = "READY"
  BY <1>1 DEF Agrees
<1>3. /\ wait_kind[cursor] = "NONE"
      /\ \A c \in Procs : Parent[c] = cursor => ~Alive(c) /\ c \notin live
  BY <1>2, AtCursor
<1>4. /\ \A q \in Procs \ {cursor} : /\ state'[q] = state[q] /\ wait_kind'[q] = wait_kind[q]
                                     /\ wait_on'[q] = wait_on[q]
      /\ state'[cursor] \in {"BLOCKED", "DONE"} /\ wait_kind'[cursor] # "JOIN"
      /\ wait_kind'[cursor] # "NONE" => state'[cursor] = "BLOCKED"
  <2>1. CASE BlocksOn(i)
    BY <1>1, <2>1, Known DEF BlocksOn, Block
  <2>2. CASE Ends
    BY <1>1, <1>3, <2>2, Known DEF Ends
  <2> QED
    BY <2>1, <2>2
<1>5. /\ Place(cursor)' = "after"
      /\ \A c \in Procs \ {cursor} : UNCHANGED <<Place(c), Loaded(c)>>
  BY DEF Place, Loaded
<1>6. WaitsAreBlocked'
  BY <1>4 DEF JoinInv, WaitsAreBlocked
<1>7. \A c \in Procs : Parent[c] # cursor /\ Parent[c] # NoParent /\ InJoinOf(c) => InJoinOf(c)'
  BY <1>1, <1>4, Known DEF InJoinOf
<1>8. BranchesAreAwaited'
  <2> SUFFICES ASSUME NEW c \in Procs, Parent[c] # NoParent, Alive(c)' PROVE InJoinOf(c)'
    BY DEF BranchesAreAwaited
  <2>1. Alive(c)
    BY <1>2, <1>4 DEF Alive
  <2> QED
    BY <1>3, <1>7, <2>1 DEF JoinInv, BranchesAreAwaited
<1>9. ThreadsAgree'
  <2> SUFFICES ASSUME NEW c \in live PROVE Agrees(c)'
    BY DEF ThreadsAgree
  <2>1. Agrees(c) /\ c \in Procs /\ Parent[c] # cursor
    BY <1>1, <1>3, Known DEF JoinInv, ThreadsAgree
  <2>2. CASE c = cursor
    <3>1. Place(c)' = "after"
      BY <2>2 DEF Place
    <3>2. Parent[c] # NoParent => InJoinOf(c)
      BY <1>1, <2>1, <2>2 DEF Agrees
    <3> QED
      BY <1>7, <2>1, <3>1, <3>2 DEF Agrees
  <2>3. CASE c # cursor
    <3>1. UNCHANGED <<Place(c), Loaded(c)>> /\ state'[c] = state[c]
      BY <1>4, <1>5, <2>1, <2>3
    <3>2. Parent[c] # NoParent => state'[Parent[c]] = state[Parent[c]]
      BY <1>1, <1>4, <2>1, Known
    <3> QED
      BY <1>7, <2>1, <3>1, <3>2 DEF Agrees
  <2> QED
    BY <2>2, <2>3
<1>10. NoCountTooLow'
  <2> SUFFICES ASSUME NEW q \in Procs, wait_kind'[q] = "JOIN"
               PROVE  /\ Cardinality(Uncounted(q)') <= join_count[q]
                      /\ \A c \in live : Parent[c] = q /\ Place(c)' \in {"store", "check"} =>
                             Cardinality(Uncounted(q)') <= Loaded(c).left'
    BY DEF NoCountTooLow
  <2>1. q # cursor /\ wait_kind[q] = "JOIN" /\ wait_on'[q] = wait_on[q]
    BY <1>4
  <2>2. Uncounted(q)' = Uncounted(q)
    <3> SUFFICES ASSUME NEW c \in Procs
                 PROVE  state'[c] # "DONE" \/ Place(c)' \in Counting <=>
                        state[c] # "DONE" \/ Place(c) \in Counting
      BY <2>1 DEF Uncounted, Children
    <3>1. c = cursor => state[c] # "DONE" /\ Place(c)' = "after"
      BY <1>2 DEF Place
    <3> QED
      BY <1>4, <1>5, <3>1 DEF Counting
  <2>3. ASSUME NEW c \in live, Parent[c] = q, Place(c)' \in {"store", "check"}
        PROVE  UNCHANGED <<Place(c), Loaded(c)>>
    <3>1. c # cursor
      BY <2>3 DEF Place
    <3> QED
      BY <1>1, <1>5, <3>1, Known
  <2> QED
    BY <2>1, <2>2, <2>3 DEF JoinInv, NoCountTooLow
<1>11. \A p \in Procs : wait_kind[p] = "JOIN" => wait_kind'[p] = "JOIN"
  BY <1>3, <1>4
<1> QED
  BY <1>6, <1>8, <1>9, <1>10, <1>11 DEF JoinInv

\* A fork: its branches were not alive, and now the forking process awaits them.
LEMMA ForkAgrees ==
  ASSUME ExecInv, JoinInv, stage = "threads", at = "vm", at' = "after", NEW i, Fork(i),
         UNCHANGED <<live, thread, cursor>>
  PROVE  JoinInv' /\ \A p \in Procs : wait_kind[p] = "JOIN" => wait_kind'[p] = "JOIN"
<1> DEFINE kids == Children(cursor, i.tag)
<1>1. /\ ExecTypeOK /\ cursor \in live /\ cursor \in Procs
      /\ Agrees(cursor) /\ Place(cursor) = at
  BY AtCursor
<1>2. state[cursor] = "READY"
  BY <1>1 DEF Agrees
<1>3. /\ wait_kind[cursor] = "NONE"
      /\ \A c \in Procs : Parent[c] = cursor => ~Alive(c) /\ c \notin live
  BY <1>2, AtCursor
<1>4. \A c \in kids : c \in Procs /\ Parent[c] = cursor /\ JoinTag[c] = i.tag /\ c # cursor
  BY <1>1, Known DEF Children
<1>5. \A q \in Procs :
          /\ state'[q] = IF q = cursor THEN "BLOCKED" ELSE IF q \in kids THEN "READY" ELSE state[q]
          /\ wait_kind'[q] = IF q = cursor THEN "JOIN" ELSE IF q \in kids THEN "NONE" ELSE wait_kind[q]
          /\ wait_on'[q] = IF q = cursor THEN i ELSE IF q \in kids THEN NoWait ELSE wait_on[q]
          /\ join_count'[q] = IF q = cursor THEN Cardinality(kids)
                              ELSE IF q \in kids THEN 0 ELSE join_count[q]
  BY DEF Fork
<1> HIDE DEF kids
<1>6. /\ Place(cursor)' = "after"
      /\ \A c \in Procs \ {cursor} : UNCHANGED <<Place(c), Loaded(c)>>
  BY DEF Place, Loaded
<1>7. \A c \in kids : wait_kind[c] = "NONE" /\ state[c] # "READY"
  BY <1>3, <1>4 DEF Alive
<1>8. WaitsAreBlocked'
  BY <1>5 DEF JoinInv, WaitsAreBlocked
\* A process whose join is awaited by somebody is neither forked nor forking.
<1>9. ASSUME NEW c \in Procs, Parent[c] # NoParent, InJoinOf(c)
      PROVE  InJoinOf(c)' /\ Parent[c] \notin kids /\ Parent[c] # cursor /\ Parent[c] \in Procs
  <2>1. Parent[c] \in Procs /\ wait_kind[Parent[c]] = "JOIN"
    BY <1>1, <1>9, Known DEF InJoinOf
  <2>2. Parent[c] \notin kids /\ Parent[c] # cursor
    BY <1>3, <1>7, <2>1
  <2> QED
    BY <1>5, <1>9, <2>1, <2>2 DEF InJoinOf
<1>10. BranchesAreAwaited'
  <2> SUFFICES ASSUME NEW c \in Procs, Parent[c] # NoParent, Alive(c)' PROVE InJoinOf(c)'
    BY DEF BranchesAreAwaited
  <2>1. CASE c \in kids
    BY <1>1, <1>4, <1>5, <2>1 DEF InJoinOf
  <2>2. CASE c \notin kids
    <3>1. Alive(c)
      BY <1>2, <1>5, <2>2 DEF Alive
    <3> QED
      BY <1>9, <3>1 DEF JoinInv, BranchesAreAwaited
  <2> QED
    BY <2>1, <2>2
<1>11. ThreadsAgree'
  <2> SUFFICES ASSUME NEW c \in live PROVE Agrees(c)'
    BY DEF ThreadsAgree
  <2>1. Agrees(c) /\ c \in Procs /\ Parent[c] # cursor /\ c \notin kids
    BY <1>1, <1>3, <1>4, Known DEF JoinInv, ThreadsAgree
  <2>2. CASE c = cursor
    <3>1. Place(c)' = "after"
      BY <2>2 DEF Place
    <3>2. Parent[c] # NoParent => InJoinOf(c)
      BY <1>1, <2>1, <2>2 DEF Agrees
    <3> QED
      BY <1>9, <2>1, <3>1, <3>2 DEF Agrees
  <2>3. CASE c # cursor
    <3>1. UNCHANGED <<Place(c), Loaded(c)>> /\ state'[c] = state[c]
      BY <1>5, <1>6, <2>1, <2>3
    <3>2. CASE Parent[c] # NoParent /\ ~InJoinOf(c)
      <4>1. state[Parent[c]] = "READY" /\ Parent[c] \in Procs
        BY <1>1, <2>1, <3>2, Known DEF Agrees
      <4>2. Parent[c] \notin kids
        BY <1>7, <4>1
      <4>3. state'[Parent[c]] = "READY"
        BY <1>5, <2>1, <4>1, <4>2
      <4> QED
        BY <2>1, <3>1, <3>2, <4>3 DEF Agrees
    <3>3. CASE Parent[c] = NoParent \/ InJoinOf(c)
      BY <1>9, <2>1, <3>1, <3>3 DEF Agrees
    <3> QED
      BY <3>2, <3>3
  <2> QED
    BY <2>2, <2>3
<1>12. NoCountTooLow'
  <2> SUFFICES ASSUME NEW q \in Procs, wait_kind'[q] = "JOIN"
               PROVE  /\ Cardinality(Uncounted(q)') <= join_count'[q]
                      /\ \A c \in live : Parent[c] = q /\ Place(c)' \in {"store", "check"} =>
                             Cardinality(Uncounted(q)') <= Loaded(c).left'
    BY DEF NoCountTooLow
  <2>1. CASE q = cursor
    <3>1. Uncounted(q)' \subseteq kids /\ kids \subseteq Procs
      BY <1>1, <1>4, <1>5, <2>1 DEF Uncounted, Children, kids
    <3>2. Cardinality(Uncounted(q)') <= Cardinality(kids)
      BY <3>1, Sizes, FS_Subset
    <3> QED
      BY <1>1, <1>3, <1>5, <2>1, <3>2, Known
  <2>2. CASE q # cursor
    <3>1. q \notin kids /\ wait_kind[q] = "JOIN" /\ wait_on'[q] = wait_on[q]
          /\ join_count'[q] = join_count[q]
      BY <1>5, <2>2
    <3>2. Uncounted(q)' = Uncounted(q)
      <4> SUFFICES ASSUME NEW c \in Procs, Parent[c] = q
                   PROVE  state'[c] # "DONE" \/ Place(c)' \in Counting <=>
                          state[c] # "DONE" \/ Place(c) \in Counting
        BY <3>1 DEF Uncounted, Children
      <4>1. c = cursor => state[c] # "DONE" /\ Place(c)' = "after"
        BY <1>2 DEF Place
      <4>2. c \notin kids
        BY <1>4, <2>2
      <4> QED
        BY <1>5, <1>6, <4>1, <4>2 DEF Counting
    <3>3. ASSUME NEW c \in live, Parent[c] = q, Place(c)' \in {"store", "check"}
          PROVE  UNCHANGED <<Place(c), Loaded(c)>>
      <4>1. c # cursor
        BY <3>3 DEF Place
      <4> QED
        BY <1>1, <1>6, <4>1, Known
    <3> QED
      BY <3>1, <3>2, <3>3 DEF JoinInv, NoCountTooLow
  <2> QED
    BY <2>1, <2>2
<1>13. \A p \in Procs : wait_kind[p] = "JOIN" => wait_kind'[p] = "JOIN"
  BY <1>3, <1>5, <1>7
<1> QED
  BY <1>8, <1>10, <1>11, <1>12, <1>13 DEF JoinInv

\* A process disables a branch of its own only between two forks, when the branch
\* is not alive: nothing but the state of that branch changes.
LEMMA DisableAgrees ==
  ASSUME SiblingsLetLive, ExecInv, JoinInv, stage = "threads", at = "vm",
         NEW i \in Fetched, DisableBranch(i)
  PROVE  JoinInv' /\ wait_kind' = wait_kind
<1>1. /\ ExecTypeOK /\ TypeOK /\ cursor \in live /\ cursor \in Procs
      /\ Agrees(cursor) /\ Place(cursor) = at /\ Loaded(cursor) = reg
  BY AtCursor, InsideThreads
<1>2. state[cursor] = "READY"
  BY <1>1 DEF Agrees
<1>3. \A c \in Procs : Parent[c] = cursor => ~Alive(c) /\ c \notin live
  BY <1>2, AtCursor
<1>4. i \in Program[cursor]
  <2>1. i = ip[cursor] => i \in {Anywhere, WaitServiceOp} \cup Delayed
    BY <1>1 DEF TypeOK, ProcsTyped
  <2>2. i # ip[cursor]
    BY <2>1, SchedulerAssumption DEF DisableBranch, Anywhere, WaitServiceOp, DelayedAssign
  <2> QED
    BY <2>2 DEF Fetched
<1>5. i.pid \in Procs /\ Parent[i.pid] = cursor
  <2>1. Parent[i.pid] = cursor
    BY <1>1, <1>4 DEF DisableBranch, SiblingsLetLive
  <2>2. i.pid \in Procs
    <3>1. i \in Instructions(cursor) /\ i.op = "DISABLE_CHILD"
      BY <1>1, <1>4, SchedulerAssumption DEF DisableBranch
    <3>2. i \in [op : {"DISABLE_CHILD"}, pid : Branches(cursor)]
      BY <3>1, SchedulerAssumption DEF Instructions, DelayedAssign
    <3> QED
      BY <3>2 DEF Branches
  <2> QED
    BY <2>1, <2>2
<1>6. PICK b \in Procs : b = i.pid /\ Parent[b] = cursor /\ b # cursor
  BY <1>1, <1>5, Known
<1>7. wait_kind[b] = "NONE" /\ state[b] # "READY" /\ b \notin live
  BY <1>3, <1>6 DEF Alive
<1>8. UNCHANGED <<wait_on, join_count, live, thread, cursor>>
  BY DEF DisableBranch, GoesTo
<1>9. CASE state[b] = "DONE"
  <2>1. UNCHANGED waits /\ at' = "vm"
    BY <1>6, <1>8, <1>9 DEF DisableBranch, GoesTo, waits
  <2>2. Agrees(cursor)'
    BY <1>1, <1>8, <2>1 DEF Agrees, InJoinOf, waits, Place, Loaded
  <2> QED
    BY <1>8, <2>1, <2>2, GoesOn DEF Counting, waits
<1>10. CASE state[b] # "DONE"
  <2>1. /\ state' = [state EXCEPT ![b] = "DONE"] /\ wait_kind' = wait_kind
        /\ at' = "join" /\ reg'.child = b
    <3>1. /\ state' = [state EXCEPT ![b] = "DONE"] /\ wait_kind' = [wait_kind EXCEPT ![b] = "NONE"]
          /\ at' = "join" /\ reg'.child = b
      BY <1>6, <1>10 DEF DisableBranch, GoesTo, Joining
    <3>2. wait_kind' = wait_kind
      BY <1>1, <1>7, <3>1 DEF TypeOK, ProcsTyped
    <3> QED
      BY <3>1, <3>2
  <2>2. \A q \in Procs : state'[q] = IF q = b THEN "DONE" ELSE state[q]
    BY <1>1, <2>1, Known
  <2>3. /\ Place(cursor)' = "join" /\ Loaded(cursor)' = reg'
        /\ \A c \in Procs \ {cursor} : UNCHANGED <<Place(c), Loaded(c)>>
    BY <1>8, <2>1 DEF Place, Loaded
  <2>4. WaitsAreBlocked'
    BY <1>7, <2>1, <2>2 DEF JoinInv, WaitsAreBlocked
  <2>5. \A c : InJoinOf(c)' = InJoinOf(c)
    BY <1>8, <2>1 DEF InJoinOf
  <2>6. BranchesAreAwaited'
    BY <2>1, <2>2, <2>5 DEF JoinInv, BranchesAreAwaited, Alive
  <2>7. ThreadsAgree'
    <3> SUFFICES ASSUME NEW c \in live PROVE Agrees(c)'
      BY <1>8 DEF ThreadsAgree
    <3>1. Agrees(c) /\ c \in Procs /\ c # b /\ state'[c] = state[c]
      BY <1>1, <1>7, <2>2, Known DEF JoinInv, ThreadsAgree
    <3>2. Parent[c] # NoParent => Parent[c] # b /\ state'[Parent[c]] = state[Parent[c]]
      <4>1. ASSUME Parent[c] = b PROVE FALSE
        BY <1>1, <1>7, <3>1, <4>1, Known DEF Agrees, InJoinOf
      <4> QED
        BY <1>1, <2>2, <3>1, <4>1, Known
    <3>3. CASE c = cursor
      <4>1. Place(c)' = "join" /\ Loaded(c)'.child = b
        BY <1>8, <2>1, <3>3 DEF Place, Loaded
      <4>2. Place(c) = "vm"
        BY <1>1, <3>3
      <4> QED
        BY <1>2, <1>6, <1>8, <2>5, <3>1, <3>2, <3>3, <4>1, <4>2 DEF Agrees
    <3>4. CASE c # cursor
      <4>1. UNCHANGED <<Place(c), Loaded(c)>>
        BY <2>3, <3>1, <3>4
      <4> QED
        BY <1>8, <2>5, <3>1, <3>2, <4>1 DEF Agrees
    <3> QED
      BY <3>3, <3>4
  <2>8. NoCountTooLow'
    <3> SUFFICES ASSUME NEW q \in Procs, wait_kind[q] = "JOIN"
                 PROVE  /\ Cardinality(Uncounted(q)') <= join_count[q]
                        /\ \A c \in live : Parent[c] = q /\ Place(c)' \in {"store", "check"} =>
                               Cardinality(Uncounted(q)') <= Loaded(c).left'
      BY <1>8, <2>1 DEF NoCountTooLow
    <3>1. Uncounted(q)' \subseteq Uncounted(q)
      <4> SUFFICES ASSUME NEW c \in Procs, state'[c] # "DONE" \/ Place(c)' \in Counting
                   PROVE  state[c] # "DONE" \/ Place(c) \in Counting
        BY <1>8 DEF Uncounted, Children
      <4>1. c = cursor => state[c] # "DONE"
        BY <1>2
      <4> QED
        BY <2>2, <2>3, <4>1
    <3>2. /\ Cardinality(Uncounted(q)') \in Nat /\ Cardinality(Uncounted(q)) \in Nat
          /\ Cardinality(Uncounted(q)') <= Cardinality(Uncounted(q))
      BY <3>1, FewerUncounted
    <3>3. Cardinality(Uncounted(q)) <= join_count[q] /\ join_count[q] \in Nat
      BY <1>1, Known DEF JoinInv, NoCountTooLow
    <3>4. Cardinality(Uncounted(q)') <= join_count[q]
      BY <3>2, <3>3
    <3>5. ASSUME NEW c \in live, Parent[c] = q, Place(c)' \in {"store", "check"}
          PROVE  Cardinality(Uncounted(q)') <= Loaded(c).left'
      <4>1. c # cursor
        BY <1>8, <2>1, <3>5 DEF Place
      <4>2. UNCHANGED <<Place(c), Loaded(c)>>
        BY <1>1, <2>3, <4>1, Known
      <4>3. Cardinality(Uncounted(q)) <= Loaded(c).left /\ Loaded(c).left \in Nat
        BY <1>1, <3>5, <4>2, Known DEF JoinInv, NoCountTooLow, LoadedAt, JoinLoads
      <4> QED
        BY <3>2, <4>2, <4>3
    <3> QED
      BY <3>4, <3>5
  <2> QED
    BY <2>1, <2>4, <2>6, <2>7, <2>8 DEF JoinInv
<1> QED
  BY <1>6, <1>9, <1>10 DEF DisableBranch

\* What JoinNeverEarly says of one step.
JoinsEnd == \A p \in Procs : wait_kind[p] = "JOIN" /\ wait_kind'[p] # "JOIN" =>
                \A c \in Children(p, wait_on[p].tag) : state[c] = "DONE"

\* The instructions.
LEMMA VmAgrees ==
  ASSUME SiblingsLetLive, ExecInv, JoinInv, VmStep
  PROVE  JoinInv' /\ JoinsEnd
<1>1. stage = "threads" /\ at = "vm"
  BY VmSteps
<1>2. PICK i \in Fetched : DisableBranch(i) \/ QueueLoad(i) \/ VmExec(i)
  BY VmSteps
<1>3. /\ ExecTypeOK /\ cursor \in live /\ cursor \in Procs
      /\ Agrees(cursor) /\ Place(cursor) = at /\ Loaded(cursor) = reg
  BY <1>1, AtCursor
<1>4. state[cursor] = "READY"
  BY <1>1, <1>3 DEF Agrees
<1>5. ASSUME UNCHANGED <<waits, join_count, live, thread, cursor>>,
             at' \in {"vm", "after", "enqueue"}
      PROVE  JoinInv' /\ JoinsEnd
  <2>1. Agrees(cursor)'
    BY <1>1, <1>3, <1>4, <1>5 DEF Agrees, InJoinOf, waits, Place, Loaded
  <2> QED
    BY <1>1, <1>4, <1>5, <2>1, GoesOn DEF waits, JoinsEnd
<1>6. CASE DisableBranch(i)
  BY <1>1, <1>6, DisableAgrees DEF JoinsEnd
<1>7. CASE QueueLoad(i)
  BY <1>5, <1>7 DEF QueueLoad, GoesTo
<1>8. CASE VmExec(i)
  <2>1. /\ at' \in {"vm", "after"} /\ cursor' = cursor /\ UNCHANGED threads
        /\ \/ UNCHANGED <<waits, join_count>>
           \/ at' = "after" /\ UNCHANGED join_count /\ BlocksOn(i)
           \/ at' = "after" /\ UNCHANGED join_count /\ Ends
           \/ at' = "after" /\ Fork(i)
    BY <1>1, <1>3, <1>8, VmEffects
  <2>2. UNCHANGED <<live, thread, cursor>>
    BY <2>1 DEF threads
  <2>3. CASE UNCHANGED <<waits, join_count>>
    BY <1>5, <2>1, <2>2, <2>3
  <2>4. CASE at' = "after" /\ UNCHANGED join_count /\ (BlocksOn(i) \/ Ends)
    BY <1>1, <2>2, <2>4, BlockAgrees DEF JoinsEnd
  <2>5. CASE at' = "after" /\ Fork(i)
    BY <1>1, <2>2, <2>5, ForkAgrees DEF JoinsEnd
  <2> QED
    BY <2>1, <2>3, <2>4, <2>5
<1> QED
  BY <1>2, <1>6, <1>7, <1>8

LEMMA JoinStep ==
  ASSUME SiblingsLetLive, ExecInv, ExecTypeOK', JoinInv, [ExecNext]_execVars
  PROVE  JoinInv' /\ JoinsEnd
<1>1. CASE UNCHANGED execVars \/ RunEnded
  <2>1. /\ UNCHANGED <<waits, join_count, thread, live, at, reg, cursor>>
    BY <1>1 DEF execVars, RunEnded, Stopped, vars, procs, control, threads
  <2>2. \A c \in Procs : UNCHANGED <<Place(c), Loaded(c)>>
    BY <2>1 DEF Place, Loaded
  <2>3. live \subseteq Procs
    BY Known DEF ExecInv
  <2> QED
    BY <2>1, <2>2, <2>3, SameWaits DEF ExecInv, JoinsEnd, waits
<1>2. CASE HostStep
  BY <1>2, BetweenDispatches DEF JoinsEnd
<1>3. CASE ExecLaunch
  BY <1>3, LaunchAgrees DEF ExecLaunch, procs, waits, JoinsEnd
<1>4. CASE VmStep
  BY <1>4, VmAgrees
<1>5. CASE JoinCheck
  BY <1>5, CheckAgrees DEF JoinsEnd
<1>6. CASE JoinStore
  BY <1>6, StoreAgrees DEF JoinStore, waits, JoinsEnd
<1>7. CASE ThreadEnter \/ RunOn \/ LoopEnds \/ QueueStore \/ JoinLoad
  BY <1>7, StepsAgree DEF ThreadEnter, RunOn, LoopEnds, QueueStore, JoinLoad, procs, waits, JoinsEnd
<1>8. CASE ThreadExit
  BY <1>8, ExitAgrees DEF ThreadExit, procs, waits, JoinsEnd
<1>9. CASE \E q \in Procs : SwitchTo(q)
  BY <1>9, SwitchAgrees DEF SwitchTo, procs, waits, JoinsEnd
<1> QED
  BY <1>1, <1>2, <1>3, <1>4, <1>5, <1>6, <1>7, <1>8, <1>9 DEF ExecNext, HostStep,
     ReadyKernels, ThreadStep

LEMMA JoinInvHolds == SiblingsLetLive => (ExecSpec => []JoinInv)
<1> SUFFICES ASSUME SiblingsLetLive PROVE ExecSpec => []JoinInv
  OBVIOUS
<1>1. ExecInit => JoinInv
  <2> SUFFICES ASSUME ExecInit PROVE JoinInv
    OBVIOUS
  <2>1. WaitsAreBlocked /\ ThreadsAgree /\ NoCountTooLow
    BY DEF ExecInit, Init, WaitsAreBlocked, ThreadsAgree, NoCountTooLow
  <2>2. BranchesAreAwaited
    BY SchedulerAssumption DEF ExecInit, Init, BranchesAreAwaited, Alive
  <2> QED
    BY <2>1, <2>2 DEF JoinInv
<1>2. ExecInv /\ ExecTypeOK' /\ JoinInv /\ [ExecNext]_execVars => JoinInv'
  BY JoinStep
<1> QED
  BY <1>1, <1>2, ExecTyped, ExecInvHolds, PTL DEF ExecSpec

\* A join returns only when every branch of its fork is over, however many threads
\* load, store and test its count at the same time (exec_ready, gpga_fork_join), when
\* no process disables a sibling: a branch that is disabled while its own thread runs
\* is counted twice.
THEOREM JoinsWait == SiblingsLetLive => (ExecSpec => JoinNeverEarly)
<1> SUFFICES ASSUME SiblingsLetLive PROVE ExecSpec => JoinNeverEarly
  OBVIOUS
<1>1. ExecSpec => []JoinInv
  BY JoinInvHolds
<1>2. ExecInv /\ JoinInv /\ ExecTypeOK' /\ [ExecNext]_execVars =>
          [\A p \in Procs : wait_kind[p] = "JOIN" /\ wait_kind'[p] # "JOIN" =>
               \A c \in Children(p, wait_on[p].tag) : state[c] = "DONE"]_execVars
  BY JoinStep DEF JoinsEnd
<1> QED
  BY <1>1, <1>2, ExecTyped, ExecInvHolds, PTL DEF ExecSpec, JoinNeverEarly


-----------------------------------------------------------------------------
(* Joins return: what the plain load and store of the join count loses.  Were  *)
(* the two one step, the count would always be the number of branches that     *)
(* have not stored their decrement.                                            *)

\* No two branches of a fork have both loaded the count and not stored it yet.
OneAtATime ==
    \A c, d \in live : c # d /\ Parent[c] # NoParent /\ Parent[c] = Parent[d] =>
        ~(Place(c) = "store" /\ Place(d) = "store")

\* The count of a join is exact, and the branch that has stored zero is about to
\* test it.
CountExact(p) ==
    /\ join_count[p] = Cardinality(Uncounted(p))
    /\ \A c \in live : Parent[c] = p /\ Place(c) = "store" => Loaded(c).left = join_count[p]
    /\ join_count[p] = 0 =>
           \E c \in live : Parent[c] = p /\ Place(c) = "check" /\ Loaded(c).left = 0

CountsExact == \A p \in Procs : wait_kind[p] = "JOIN" => CountExact(p)

\* A step that moves no branch of q into the join code or out of it but by loading
\* the count.
LEMMA CountKept ==
  ASSUME NEW q \in Procs, CountExact(q), wait_on'[q] = wait_on[q], join_count'[q] = join_count[q],
         \A c \in Procs : Parent[c] = q =>
             (state'[c] # "DONE" \/ Place(c)' \in Counting <=>
              state[c] # "DONE" \/ Place(c) \in Counting),
         \A c \in live' : Parent[c] = q /\ Place(c)' = "store" =>
             \/ Loaded(c).left' = join_count[q]
             \/ c \in live /\ UNCHANGED <<Place(c), Loaded(c)>>,
         \A c \in live : Parent[c] = q /\ Place(c) = "check" =>
             c \in live' /\ UNCHANGED <<Place(c), Loaded(c)>>
  PROVE  CountExact(q)'
<1>1. Uncounted(q)' = Uncounted(q)
  BY DEF Uncounted, Children
<1>2. join_count'[q] = Cardinality(Uncounted(q)')
  BY <1>1 DEF CountExact
<1>3. \A c \in live' : Parent[c] = q /\ Place(c)' = "store" => Loaded(c).left' = join_count'[q]
  BY DEF CountExact
<1>4. join_count'[q] = 0 =>
          \E c \in live' : Parent[c] = q /\ Place(c)' = "check" /\ Loaded(c).left' = 0
  BY DEF CountExact
<1> QED
  BY <1>2, <1>3, <1>4 DEF CountExact

\* While no thread is live no join is at zero, and the launch of the threads changes
\* no count.
LEMMA IdleCounts ==
  ASSUME ExecInv, ExecTypeOK', JoinInv, CountsExact, live = {},
         UNCHANGED <<wait_on, join_count>>,
         \/ UNCHANGED <<state, wait_kind>>
         \/ \E W : Wake(W) /\ \A p \in Procs : p \in W => wait_kind[p] \notin {"NONE", "JOIN"},
         \A c \in live' : Place(c)' = "enter"
  PROVE  CountsExact'
<1> SUFFICES ASSUME NEW q \in Procs, wait_kind'[q] = "JOIN" PROVE CountExact(q)'
  BY DEF CountsExact
<1>1. wait_kind[q] = "JOIN" /\ wait_on'[q] = wait_on[q] /\ join_count'[q] = join_count[q]
  BY DEF Wake
<1>2. \A c \in Procs : state'[c] = "DONE" <=> state[c] = "DONE"
  BY DEF Wake, JoinInv, WaitsAreBlocked
<1>3. \A c \in Procs : Place(c) \notin Counting
  BY Known DEF ExecInv
<1>4. \A c \in Procs : Place(c)' \notin Counting
  <2>1. \A c \in Procs : c \notin live' => thread'[c] = Fresh /\ (c = cursor' => at' \in SchedPlaces)
    BY DEF ExecTypeOK, ThreadsTyped
  <2> QED
    BY <2>1 DEF Place, Counting, Fresh, SchedPlaces
<1>5. CountExact(q)
  BY <1>1 DEF CountsExact
<1> QED
  BY <1>1, <1>2, <1>3, <1>4, <1>5, CountKept

\* A thread goes on without a store or a test of a count.
LEMMA GoesOnCounts ==
  ASSUME ExecInv, JoinInv, CountsExact, stage = "threads",
         UNCHANGED <<live, thread, cursor>>,
         at # "check", at' = "store" => reg'.left = join_count[Parent[cursor]],
         NEW q \in Procs, wait_kind[q] = "JOIN",
         wait_on'[q] = wait_on[q], join_count'[q] = join_count[q],
         Parent[cursor] = q =>
             (state'[cursor] # "DONE" \/ at' \in Counting <=>
              state[cursor] # "DONE" \/ at \in Counting),
         \A c \in Procs : Parent[c] = q => c = cursor \/ state'[c] = state[c]
  PROVE  CountExact(q)'
<1>1. /\ cursor \in Procs /\ live \subseteq Procs /\ Place(cursor) = at
      /\ Place(cursor)' = at' /\ Loaded(cursor)' = reg'
      /\ \A c \in Procs \ {cursor} : UNCHANGED <<Place(c), Loaded(c)>>
  BY AtCursor, Known DEF Place, Loaded
<1>2. CountExact(q)
  BY DEF CountsExact
<1>3. \A c \in Procs : Parent[c] = q =>
          (state'[c] # "DONE" \/ Place(c)' \in Counting <=>
           state[c] # "DONE" \/ Place(c) \in Counting)
  <2> SUFFICES ASSUME NEW c \in Procs, Parent[c] = q
               PROVE  (state'[c] # "DONE" \/ Place(c)' \in Counting) <=>
                      (state[c] # "DONE" \/ Place(c) \in Counting)
    OBVIOUS
  <2>1. CASE c = cursor
    BY <1>1, <2>1
  <2>2. CASE c # cursor
    BY <1>1, <2>2
  <2> QED
    BY <2>1, <2>2
<1>4. \A c \in live' : Parent[c] = q /\ Place(c)' = "store" =>
          \/ Loaded(c).left' = join_count[q]
          \/ c \in live /\ UNCHANGED <<Place(c), Loaded(c)>>
  <2> SUFFICES ASSUME NEW c \in live, Parent[c] = q, Place(c)' = "store"
               PROVE  Loaded(c).left' = join_count[q] \/ UNCHANGED <<Place(c), Loaded(c)>>
    OBVIOUS
  <2>1. CASE c = cursor
    BY <1>1, <2>1
  <2>2. CASE c # cursor
    BY <1>1, <2>2
  <2> QED
    BY <2>1, <2>2
<1>5. \A c \in live : Parent[c] = q /\ Place(c) = "check" =>
          c \in live' /\ UNCHANGED <<Place(c), Loaded(c)>>
  BY <1>1
<1> QED
  BY <1>2, <1>3, <1>4, <1>5, CountKept

\* The steps of a thread around its instructions and before the store.
LEMMA StepsCount ==
  ASSUME ExecInv, JoinInv, CountsExact, ThreadEnter \/ RunOn \/ LoopEnds \/ QueueStore \/ JoinLoad
  PROVE  CountsExact'
<1>1. /\ stage = "threads" /\ UNCHANGED <<waits, join_count, live, thread, cursor>>
      /\ at \in {"enter", "after", "enqueue", "join"}
  BY DEF ThreadEnter, RunOn, LoopEnds, QueueStore, JoinLoad, GoesTo, procs, waits
<1>2. /\ Agrees(cursor) /\ Place(cursor) = at /\ Loaded(cursor) = reg /\ NoParent \notin Procs
      /\ LoadedAt(at, reg)
  BY <1>1, AtCursor, Known
<1>3. /\ Parent[cursor] # NoParent =>
             (state[cursor] # "DONE" \/ at' \in Counting <=> state[cursor] # "DONE" \/ at \in Counting)
      /\ at' = "store" => reg'.left = join_count[Parent[cursor]]
  <2>1. CASE ThreadEnter \/ RunOn \/ QueueStore
    BY <1>1, <1>2, <2>1 DEF ThreadEnter, RunOn, QueueStore, GoesTo, Agrees
  <2>2. CASE LoopEnds
    BY <1>1, <2>2 DEF LoopEnds, GoesTo, Counting
  <2>3. CASE JoinLoad
    <3>1. at = "join" /\ reg \in JoinLoads
      BY <1>2, <2>3 DEF JoinLoad, LoadedAt
    <3>2. CASE reg.child # cursor
      <4>1. state[cursor] = "READY" /\ Parent[reg.child] = cursor
        BY <1>2, <3>1, <3>2 DEF Agrees
      <4>2. wait_kind[cursor] = "NONE"
        BY <1>1, <4>1, AtCursor
      <4> QED
        BY <2>3, <4>1, <4>2 DEF JoinLoad, GoesTo, Caller
    <3>3. CASE reg.child = cursor
      <4>1. Parent[cursor] # NoParent => InJoinOf(cursor)
        BY <1>2, <3>1 DEF Agrees
      <4>2. CASE Parent[cursor] # NoParent
        <5>1. at' = "store" /\ reg' = [reg EXCEPT !.left = join_count[Parent[cursor]]]
          BY <2>3, <3>3, <4>1, <4>2 DEF JoinLoad, GoesTo, InJoinOf
        <5> QED
          BY <3>1, <5>1 DEF Counting, JoinLoads
      <4>3. CASE Parent[cursor] = NoParent
        BY <2>3, <3>3, <4>3 DEF JoinLoad, GoesTo, Caller
      <4> QED
        BY <4>2, <4>3
    <3> QED
      BY <3>2, <3>3
  <2> QED
    BY <2>1, <2>2, <2>3
<1> SUFFICES ASSUME NEW q \in Procs, wait_kind[q] = "JOIN" PROVE CountExact(q)'
  BY <1>1 DEF CountsExact, waits
<1>4. UNCHANGED <<wait_on, state>> /\ (Parent[cursor] = q => Parent[cursor] # NoParent)
  BY <1>1, <1>2 DEF waits
<1> QED
  BY <1>1, <1>3, <1>4, GoesOnCounts

\* Another thread gets the cursor, or one ends.
LEMMA MovesCount ==
  ASSUME ExecInv, ExecTypeOK', JoinInv, CountsExact, ThreadExit \/ \E p \in Procs : SwitchTo(p)
  PROVE  CountsExact'
<1>1. /\ stage = "threads" /\ UNCHANGED <<waits, join_count>> /\ live' \subseteq live
      /\ ThreadExit => live' = live \ {cursor} /\ at = "exit"
      /\ cursor \in live /\ cursor \in Procs /\ Place(cursor) = at
      /\ thread \in [Procs -> ThreadLocals] /\ live \subseteq Procs
  BY AtCursor, Known DEF ExecInv, ExecTypeOK, ThreadsTyped, ThreadExit, SwitchTo, procs
<1>2. ASSUME NEW c \in Procs, ThreadExit => c # cursor /\ live' # {}
      PROVE  Place(c)' = Place(c) /\ Loaded(c)' = Loaded(c)
  <2>1. CASE ThreadExit
    <3>1. PICK p \in live' : GiveCursor(p, thread[p]) /\ thread' = [thread EXCEPT ![p] = Fresh]
      BY <1>2, <2>1 DEF ThreadExit
    <3> QED
      BY <1>1, <1>2, <2>1, <3>1 DEF GiveCursor, Place, Loaded
  <2>2. ASSUME NEW p \in Procs, SwitchTo(p) PROVE Place(c)' = Place(c) /\ Loaded(c)' = Loaded(c)
    BY <1>1, <2>2 DEF SwitchTo, GiveCursor, Place, Loaded, Locals
  <2> QED
    BY <2>1, <2>2
<1>3. \A c \in live' : UNCHANGED <<Place(c), Loaded(c)>>
  BY <1>1, <1>2
<1>4. \A c \in live : Place(c) = "check" => c \in live'
  <2>1. ThreadExit => \A c \in live : Place(c) = "check" => c # cursor
    BY <1>1
  <2>2. (\E p \in Procs : SwitchTo(p)) => live' = live
    BY DEF SwitchTo
  <2> QED
    BY <1>1, <2>1, <2>2
<1>5. \A c \in Procs : Place(c)' \in Counting <=> Place(c) \in Counting
  <2> SUFFICES ASSUME NEW c \in Procs PROVE Place(c)' \in Counting <=> Place(c) \in Counting
    OBVIOUS
  <2>1. CASE c \in live'
    BY <1>3, <2>1
  <2>2. CASE c \notin live'
    <3>1. Place(c) \notin Counting
      <4>1. c \notin live => Place(c) \notin Counting
        BY Known DEF ExecInv
      <4>2. c \in live => ThreadExit /\ c = cursor
        BY <1>1, <2>2 DEF SwitchTo
      <4> QED
        BY <1>1, <4>1, <4>2 DEF Counting
    <3>2. Place(c)' \notin Counting
      <4>1. thread'[c] = Fresh /\ (c = cursor' => at' \in SchedPlaces)
        BY <2>2 DEF ExecTypeOK, ThreadsTyped
      <4> QED
        BY <4>1 DEF Place, Counting, Fresh, SchedPlaces
    <3> QED
      BY <3>1, <3>2
  <2> QED
    BY <2>1, <2>2
<1> SUFFICES ASSUME NEW q \in Procs, wait_kind[q] = "JOIN" PROVE CountExact(q)'
  BY <1>1 DEF CountsExact, waits
<1>6. CountExact(q) /\ UNCHANGED <<wait_on, state>> /\ join_count'[q] = join_count[q]
  BY <1>1 DEF CountsExact, waits
<1> QED
  BY <1>1, <1>3, <1>4, <1>5, <1>6, CountKept

\* A store that no other branch has overlapped counts the branch, and only it.
LEMMA StoreCounts ==
  ASSUME ExecInv, JoinInv, OneAtATime, CountsExact, JoinStore
  PROVE  CountsExact'
<1>1. /\ stage = "threads" /\ at = "store" /\ at' = "check"
      /\ UNCHANGED <<waits, live, thread, cursor>>
  BY DEF JoinStore, GoesTo
<1>2. /\ ExecTypeOK /\ cursor \in live /\ cursor \in Procs /\ live \subseteq Procs
      /\ Agrees(cursor) /\ Place(cursor) = at /\ Loaded(cursor) = reg
  BY <1>1, AtCursor, Known
<1>3. /\ Place(cursor)' = at' /\ Loaded(cursor)' = reg'
      /\ \A c \in Procs \ {cursor} : UNCHANGED <<Place(c), Loaded(c)>>
  BY <1>1 DEF Place, Loaded
<1>4. reg \in JoinLoads /\ reg.child = cursor /\ Parent[cursor] \in Procs
  BY <1>1, <1>2, Known DEF LoadedAt, Agrees
<1>5. PICK p \in Procs : p = Parent[cursor]
  BY <1>4
<1>6. InJoinOf(cursor) /\ state[cursor] = "DONE"
  BY <1>1, <1>2, <1>4, <1>5, Known DEF Agrees
<1>7. wait_kind[p] = "JOIN" /\ cursor \in Uncounted(p)
  BY <1>1, <1>2, <1>5, <1>6 DEF InJoinOf, Uncounted, Children, Counting
<1>8. /\ join_count[p] = Cardinality(Uncounted(p)) /\ reg.left = join_count[p]
      /\ Cardinality(Uncounted(p)) \in Nat /\ Cardinality(Uncounted(p)) # 0
  BY <1>1, <1>2, <1>5, <1>7, FewerUncounted, FS_EmptySet DEF CountsExact, CountExact
<1>9. join_count' = [join_count EXCEPT ![p] = reg.left - 1] /\ reg'.left = reg.left - 1
  <2>1. reg.left > 0
    BY <1>8
  <2> QED
    BY <1>4, <1>5, <2>1 DEF JoinStore, JoinLoads
<1> SUFFICES ASSUME NEW q \in Procs, wait_kind[q] = "JOIN" PROVE CountExact(q)'
  BY <1>1 DEF CountsExact, waits
<1>10. CASE q = p
  <2>1. Uncounted(p)' = Uncounted(p) \ {cursor}
    BY <1>1, <1>2, <1>3, <1>6 DEF Uncounted, Children, Counting, waits
  <2>2. Cardinality(Uncounted(p)') = Cardinality(Uncounted(p)) - 1
    BY <1>7, <2>1, FewerUncounted, FS_RemoveElement
  <2>3. join_count'[p] = reg.left - 1
    BY <1>2, <1>9, Known
  <2>4. \A c \in live' : Parent[c] = p => Place(c)' # "store"
    <3> SUFFICES ASSUME NEW c \in live, Parent[c] = p PROVE Place(c)' # "store"
      BY <1>1
    <3>1. CASE c = cursor
      BY <1>1, <1>3, <3>1
    <3>2. CASE c # cursor
      <4>1. Place(c) # "store"
        BY <1>1, <1>2, <1>4, <1>5, <3>2, Known DEF OneAtATime
      <4> QED
        BY <1>2, <1>3, <3>2, <4>1
    <3> QED
      BY <3>1, <3>2
  <2>5. cursor \in live' /\ Parent[cursor] = p /\ Place(cursor)' = "check"
        /\ Loaded(cursor)'.left = join_count'[p]
    BY <1>1, <1>2, <1>3, <1>5, <1>9, <2>3
  <2>6. join_count'[p] = Cardinality(Uncounted(p)')
    BY <1>8, <2>2, <2>3
  <2>7. join_count'[p] = 0 =>
            \E c \in live' : Parent[c] = p /\ Place(c)' = "check" /\ Loaded(c)'.left = 0
    BY <1>1, <2>5
  <2> QED
    BY <1>10, <2>4, <2>6, <2>7 DEF CountExact
<1>11. CASE q # p
  <2>1. CountExact(q) /\ UNCHANGED <<wait_on, state>> /\ join_count'[q] = join_count[q]
    BY <1>1, <1>2, <1>9, <1>11, Known DEF CountsExact, waits
  <2>2. \A c \in Procs : Parent[c] = q => UNCHANGED <<Place(c), Loaded(c)>>
    BY <1>3, <1>5, <1>11
  <2> QED
    BY <1>1, <1>2, <2>1, <2>2, CountKept
<1> QED
  BY <1>10, <1>11

\* The test of a branch releases the parent, or leaves the test to another branch.
LEMMA CheckCounts ==
  ASSUME ExecInv, JoinInv, CountsExact, JoinCheck
  PROVE  CountsExact'
<1>1. /\ stage = "threads" /\ at = "check" /\ UNCHANGED <<wait_on, join_count, live, thread, cursor>>
  BY DEF JoinCheck, GoesTo
<1>2. /\ ExecTypeOK /\ cursor \in live /\ cursor \in Procs /\ live \subseteq Procs
      /\ Agrees(cursor) /\ Place(cursor) = at /\ Loaded(cursor) = reg
  BY <1>1, AtCursor, Known
<1>3. reg \in JoinLoads /\ reg.child = cursor /\ Parent[cursor] \in Procs /\ at' = "exit"
  BY <1>1, <1>2, Known DEF LoadedAt, Agrees, JoinCheck, GoesTo, Caller
<1>4. PICK p \in Procs : p = Parent[cursor]
  BY <1>3
<1>5. PICK seen \in {reg.left, join_count[p]} : Wake(IF seen = 0 THEN {p} ELSE {})
  BY <1>3, <1>4 DEF JoinCheck
<1>6. /\ Place(cursor)' = "exit" /\ Place(cursor) = "check" /\ state[cursor] = "DONE"
      /\ \A c \in Procs \ {cursor} : UNCHANGED <<Place(c), Loaded(c)>>
  BY <1>1, <1>2, <1>3 DEF Place, Loaded, Agrees
<1> SUFFICES ASSUME NEW q \in Procs, wait_kind'[q] = "JOIN" PROVE CountExact(q)'
  BY DEF CountsExact
<1>7. wait_kind[q] = "JOIN" /\ ~(q = p /\ seen = 0)
  BY <1>5 DEF Wake
<1>8. CountExact(q)
  BY <1>7 DEF CountsExact
<1>9. \A c \in Procs : Parent[c] = q /\ JoinTag[c] = wait_on[q].tag =>
          (state'[c] = "DONE" <=> state[c] = "DONE")
  <2> SUFFICES ASSUME NEW c \in Procs, Parent[c] = q, JoinTag[c] = wait_on[q].tag,
                      c = p, seen = 0, state[c] = "DONE"
               PROVE  FALSE
    BY <1>5 DEF Wake
  <2>1. wait_kind[p] # "JOIN"
    BY DEF JoinInv, WaitsAreBlocked
  <2>2. ~InJoinOf(cursor)
    BY <1>4, <2>1 DEF InJoinOf
  <2>3. state[p] = "READY"
    BY <1>2, <1>3, <1>4, <2>2, Known DEF Agrees
  <2> QED
    BY <2>3
<1>10. Uncounted(q)' = Uncounted(q)
  BY <1>1, <1>6, <1>9 DEF Uncounted, Children, Counting
<1>11. \A c \in live' : Parent[c] = q /\ Place(c)' = "store" => Loaded(c)'.left = join_count'[q]
  BY <1>1, <1>2, <1>6, <1>8 DEF CountExact
<1>12. join_count'[q] = 0 =>
           \E c \in live' : Parent[c] = q /\ Place(c)' = "check" /\ Loaded(c)'.left = 0
  <2> SUFFICES ASSUME join_count[q] = 0
               PROVE  \E c \in live : Parent[c] = q /\ Place(c)' = "check" /\ Loaded(c)'.left = 0
    BY <1>1
  <2>1. PICK c \in live : Parent[c] = q /\ Place(c) = "check" /\ Loaded(c).left = 0
    BY <1>8 DEF CountExact
  <2>2. c # cursor
    BY <1>2, <1>4, <1>5, <1>7, <2>1
  <2> QED
    BY <1>2, <1>6, <2>1, <2>2
<1> QED
  BY <1>1, <1>8, <1>10, <1>11, <1>12 DEF CountExact

\* The exec step blocks the process, in anything but a join, or ends it.
LEMMA BlockCounts ==
  ASSUME ExecInv, JoinInv, CountsExact, stage = "threads", at = "vm", at' = "after",
         NEW i, BlocksOn(i) \/ Ends,
         UNCHANGED <<join_count, live, thread, cursor>>
  PROVE  CountsExact'
<1>1. /\ ExecTypeOK /\ cursor \in live /\ cursor \in Procs
      /\ Agrees(cursor) /\ Place(cursor) = at
  BY AtCursor
<1>2. state[cursor] = "READY"
  BY <1>1 DEF Agrees
<1>3. /\ \A q \in Procs \ {cursor} : /\ state'[q] = state[q] /\ wait_kind'[q] = wait_kind[q]
                                     /\ wait_on'[q] = wait_on[q]
      /\ wait_kind'[cursor] # "JOIN"
  <2>1. CASE BlocksOn(i)
    BY <1>1, <2>1, Known DEF BlocksOn, Block
  <2>2. CASE Ends
    BY <1>1, <1>2, <2>2, AtCursor, Known DEF Ends
  <2> QED
    BY <2>1, <2>2
<1> SUFFICES ASSUME NEW q \in Procs, wait_kind'[q] = "JOIN" PROVE CountExact(q)'
  BY DEF CountsExact
<1>4. q # cursor /\ wait_kind[q] = "JOIN" /\ wait_on'[q] = wait_on[q] /\ CountExact(q)
  BY <1>3 DEF CountsExact
<1> QED
  BY <1>2, <1>3, <1>4, GoesOnCounts DEF Counting

\* A fork starts with the number of its branches, which are at least one.
LEMMA ForkCounts ==
  ASSUME ExecInv, JoinInv, CountsExact, stage = "threads", at = "vm", at' = "after",
         NEW i \in Fetched, Fork(i),
         UNCHANGED <<live, thread, cursor>>
  PROVE  CountsExact'
<1> DEFINE kids == Children(cursor, i.tag)
<1>1. /\ ExecTypeOK /\ TypeOK /\ cursor \in live /\ cursor \in Procs
      /\ Agrees(cursor) /\ Place(cursor) = at
  BY AtCursor, InsideThreads
<1>2. state[cursor] = "READY"
  BY <1>1 DEF Agrees
<1>3. \A c \in Procs : Parent[c] = cursor => ~Alive(c) /\ c \notin live
  BY <1>2, AtCursor
<1>4. \A c \in kids : c \in Procs /\ Parent[c] = cursor /\ c # cursor /\ ~Alive(c)
  BY <1>1, <1>3, Known DEF Children
<1>5. \A q \in Procs :
          /\ state'[q] = IF q = cursor THEN "BLOCKED" ELSE IF q \in kids THEN "READY" ELSE state[q]
          /\ wait_kind'[q] = IF q = cursor THEN "JOIN" ELSE IF q \in kids THEN "NONE" ELSE wait_kind[q]
          /\ wait_on'[q] = IF q = cursor THEN i ELSE IF q \in kids THEN NoWait ELSE wait_on[q]
          /\ join_count'[q] = IF q = cursor THEN Cardinality(kids)
                              ELSE IF q \in kids THEN 0 ELSE join_count[q]
  BY DEF Fork
<1>6. kids # {} /\ kids \subseteq Procs
  <2>1. i \in Program[cursor]
    <3>1. i = ip[cursor] => i \in {Anywhere, WaitServiceOp} \cup Delayed
      BY <1>1 DEF TypeOK, ProcsTyped
    <3>2. i # ip[cursor]
      BY <3>1, SchedulerAssumption DEF Fork, Anywhere, WaitServiceOp, DelayedAssign
    <3> QED
      BY <3>2 DEF Fetched
  <2>2. i \in Instructions(cursor) /\ i.op = "FORK"
    BY <1>1, <2>1, SchedulerAssumption DEF Fork
  <2>3. i \in [op : {"FORK"}, tag : {JoinTag[c] : c \in {d \in Procs : Parent[d] = cursor}}]
    BY <2>2, SchedulerAssumption DEF Instructions, DelayedAssign
  <2> QED
    BY <2>3 DEF Children
<1> HIDE DEF kids
<1> SUFFICES ASSUME NEW q \in Procs, wait_kind'[q] = "JOIN" PROVE CountExact(q)'
  BY DEF CountsExact
<1>7. CASE q = cursor
  <2>1. Uncounted(q)' = kids
    <3>1. Children(cursor, i.tag) = kids
      BY DEF kids
    <3> QED
      BY <1>1, <1>4, <1>5, <1>7, <3>1 DEF Uncounted, Children
  <2>2. join_count'[q] = Cardinality(kids) /\ Cardinality(kids) # 0
    BY <1>5, <1>6, <1>7, Sizes, FS_EmptySet
  <2>3. \A c \in live' : Parent[c] # q
    BY <1>1, <1>3, <1>7, Known
  <2> QED
    BY <2>1, <2>2, <2>3 DEF CountExact
<1>8. CASE q # cursor
  <2>1. q \notin kids /\ wait_kind[q] = "JOIN" /\ wait_on'[q] = wait_on[q]
        /\ join_count'[q] = join_count[q]
    BY <1>5, <1>8
  <2>2. \A c \in Procs : Parent[c] = q => c = cursor \/ state'[c] = state[c]
    BY <1>4, <1>5, <1>8
  <2>3. state'[cursor] # "DONE" \/ at' \in Counting <=> state[cursor] # "DONE" \/ at \in Counting
    BY <1>2 DEF Counting
  <2> QED
    BY <2>1, <2>2, <2>3, GoesOnCounts
<1> QED
  BY <1>7, <1>8

\* The instructions: a fork starts with the number of its branches, at least one.
LEMMA VmCounts ==
  ASSUME SiblingsLetLive, ExecInv, JoinInv, CountsExact, VmStep
  PROVE  CountsExact'
<1>1. stage = "threads" /\ at = "vm"
  BY VmSteps
<1>2. PICK i \in Fetched : DisableBranch(i) \/ QueueLoad(i) \/ VmExec(i)
  BY VmSteps
<1>3. /\ ExecTypeOK /\ TypeOK /\ cursor \in live /\ cursor \in Procs /\ live \subseteq Procs
      /\ Agrees(cursor) /\ Place(cursor) = at
  BY <1>1, AtCursor, InsideThreads, Known
<1>4. state[cursor] = "READY" /\ wait_kind[cursor] = "NONE"
  BY <1>1, <1>3, AtCursor DEF Agrees
<1>5. ASSUME UNCHANGED <<waits, join_count, live, thread, cursor>>,
             at' \in {"vm", "after", "enqueue"}
      PROVE  CountsExact'
  <2> SUFFICES ASSUME NEW q \in Procs, wait_kind[q] = "JOIN" PROVE CountExact(q)'
    BY <1>5 DEF CountsExact, waits
  <2>1. UNCHANGED <<wait_on, state>>
    BY <1>5 DEF waits
  <2> QED
    BY <1>1, <1>4, <1>5, <2>1, GoesOnCounts
<1>6. CASE DisableBranch(i)
  <2>1. /\ UNCHANGED <<wait_on, join_count, live, thread, cursor>> /\ at' \in {"vm", "join"}
    BY <1>6 DEF DisableBranch, GoesTo
  <2>2. wait_kind' = wait_kind
    BY <1>1, <1>6, DisableAgrees
  <2>3. i \in Program[cursor]
    <3>1. i = ip[cursor] => i \in {Anywhere, WaitServiceOp} \cup Delayed
      BY <1>3 DEF TypeOK, ProcsTyped
    <3>2. i # ip[cursor]
      BY <1>6, <3>1, SchedulerAssumption DEF DisableBranch, Anywhere, WaitServiceOp, DelayedAssign
    <3> QED
      BY <3>2 DEF Fetched
  <2>4. Parent[i.pid] = cursor
    BY <1>3, <1>6, <2>3 DEF DisableBranch, SiblingsLetLive
  <2>5. i.pid # cursor /\ \A c \in Procs : c # i.pid => state'[c] = state[c]
    BY <1>3, <1>6, <2>4, Known DEF DisableBranch
  <2> SUFFICES ASSUME NEW q \in Procs, wait_kind[q] = "JOIN" PROVE CountExact(q)'
    BY <2>2 DEF CountsExact
  <2>6. \A c \in Procs : Parent[c] = q => state'[c] = state[c]
    BY <1>4, <2>4, <2>5
  <2>7. state'[cursor] = state[cursor]
    BY <1>3, <2>5
  <2> QED
    BY <1>1, <1>4, <2>1, <2>6, <2>7, GoesOnCounts
<1>7. CASE QueueLoad(i)
  BY <1>5, <1>7 DEF QueueLoad, GoesTo
<1>8. CASE VmExec(i)
  <2>1. /\ at' \in {"vm", "after"} /\ cursor' = cursor /\ UNCHANGED threads
        /\ \/ UNCHANGED <<waits, join_count>>
           \/ at' = "after" /\ UNCHANGED join_count /\ BlocksOn(i)
           \/ at' = "after" /\ UNCHANGED join_count /\ Ends
           \/ at' = "after" /\ Fork(i)
    BY <1>1, <1>3, <1>8, VmEffects
  <2>2. UNCHANGED <<live, thread, cursor>>
    BY <2>1 DEF threads
  <2>3. CASE UNCHANGED <<waits, join_count>>
    BY <1>5, <2>1, <2>2, <2>3
  <2>4. CASE at' = "after" /\ UNCHANGED join_count /\ (BlocksOn(i) \/ Ends)
    BY <1>1, <2>2, <2>4, BlockCounts
  <2>5. CASE at' = "after" /\ Fork(i)
    BY <1>1, <1>2, <2>2, <2>5, ForkCounts
  <2> QED
    BY <2>1, <2>3, <2>4, <2>5
<1> QED
  BY <1>2, <1>6, <1>7, <1>8

LEMMA CountStep ==
  ASSUME SiblingsLetLive, ExecInv, ExecTypeOK', JoinInv, OneAtATime, CountsExact,
         [ExecNext]_execVars
  PROVE  CountsExact'
<1>1. CASE UNCHANGED execVars \/ RunEnded
  <2>1. UNCHANGED <<waits, join_count, thread, live, at, reg, cursor>>
    BY <1>1 DEF execVars, RunEnded, Stopped, vars, procs, control, threads
  <2>2. \A c \in Procs : UNCHANGED <<Place(c), Loaded(c)>>
    BY <2>1 DEF Place, Loaded
  <2>3. live \subseteq Procs
    BY Known DEF ExecInv
  <2> SUFFICES ASSUME NEW q \in Procs, wait_kind[q] = "JOIN" PROVE CountExact(q)'
    BY <2>1 DEF CountsExact, waits
  <2>4. CountExact(q) /\ UNCHANGED <<wait_on, state>>
    BY <2>1 DEF CountsExact, waits
  <2> QED
    BY <2>1, <2>2, <2>3, <2>4, CountKept
<1>2. CASE HostStep
  <2>1. /\ UNCHANGED <<wait_on, join_count, live, thread>> /\ stage # "threads"
        /\ \/ UNCHANGED <<state, wait_kind>>
           \/ \E W : Wake(W) /\ \A p \in Procs : p \in W => wait_kind[p] \notin {"NONE", "JOIN"}
    BY <1>2, HostWakes
  <2>2. live = {}
    BY <2>1, OutsideThreads DEF ExecInv
  <2> QED
    BY <2>1, <2>2, IdleCounts
<1>3. CASE ExecLaunch
  <2>1. live = {} /\ UNCHANGED <<wait_on, join_count, state, wait_kind, thread>>
    BY <1>3 DEF ExecLaunch, procs, waits
  <2>2. \A c \in live' : Place(c)' = "enter"
    <3>1. live' # {} => at' = "enter" /\ cursor' \in live'
      BY <1>3 DEF ExecLaunch, GiveCursor, Fresh
    <3>2. \A c \in live' : thread'[c] = Fresh
      <4>1. live' \subseteq Procs
        BY DEF ExecTypeOK, PipelineTyped
      <4>2. \A c \in Procs : thread[c] = Fresh
        BY <2>1 DEF ExecInv, ExecTypeOK, ThreadsTyped
      <4> QED
        BY <2>1, <4>1, <4>2
    <3> QED
      BY <3>1, <3>2 DEF Place, Fresh
  <2> QED
    BY <2>1, <2>2, IdleCounts
<1>4. CASE VmStep
  BY <1>4, VmCounts
<1>5. CASE JoinCheck
  BY <1>5, CheckCounts
<1>6. CASE JoinStore
  BY <1>6, StoreCounts
<1>7. CASE ThreadEnter \/ RunOn \/ LoopEnds \/ QueueStore \/ JoinLoad
  BY <1>7, StepsCount
<1>8. CASE ThreadExit \/ \E q \in Procs : SwitchTo(q)
  BY <1>8, MovesCount
<1> QED
  BY <1>1, <1>2, <1>3, <1>4, <1>5, <1>6, <1>7, <1>8 DEF ExecNext, HostStep, ReadyKernels,
     ThreadStep

\* A parent waits for nothing only because of the plain load and store of the join count
\* (gpga_fork_join in exec_ready): in a run in which no two branches of a fork overlap
\* between the two, a process in a join always has a branch that is not over.
THEOREM JoinsReturn == SiblingsLetLive => (ExecSpec /\ []OneAtATime => []JoinersHaveBranches)
<1> SUFFICES ASSUME SiblingsLetLive PROVE ExecSpec /\ []OneAtATime => []JoinersHaveBranches
  OBVIOUS
<1>1. ExecInit => CountsExact
  BY DEF ExecInit, Init, CountsExact
<1>2. ExecInv /\ ExecTypeOK' /\ JoinInv /\ OneAtATime /\ CountsExact /\ [ExecNext]_execVars =>
          CountsExact'
  BY CountStep
<1>3. ExecInv /\ CountsExact => JoinersHaveBranches
  <2> SUFFICES ASSUME ExecInv, CountsExact, stage = "sched_step", NEW p \in Procs,
                      wait_kind[p] = "JOIN"
               PROVE  \E c \in Children(p, wait_on[p].tag) : state[c] # "DONE"
    BY DEF JoinersHaveBranches
  <2>1. live = {}
    BY OutsideThreads DEF ExecInv
  <2>2. Cardinality(Uncounted(p)) # 0
    BY <2>1 DEF CountsExact, CountExact
  <2>3. PICK c \in Uncounted(p) : TRUE
    BY <2>2, FS_EmptySet
  <2>4. Place(c) \notin Counting
    BY <2>1, Known DEF ExecInv, Uncounted, Children
  <2> QED
    BY <2>3, <2>4 DEF Uncounted
<1> QED
  BY <1>1, <1>2, <1>3, JoinInvHolds, ExecTyped, ExecInvHolds, PTL DEF ExecSpec

\* No fork has two branches.
LoneBranches ==
    \A c, d \in Procs : c # d /\ Parent[c] # NoParent /\ Parent[c] = Parent[d] =>
        JoinTag[c] # JoinTag[d]

\* A branch that has no sibling in its fork overlaps none: such designs never lose a count.
THEOREM LoneJoinsReturn == SiblingsLetLive /\ LoneBranches => (ExecSpec => []JoinersHaveBranches)
<1> SUFFICES ASSUME SiblingsLetLive, LoneBranches PROVE ExecSpec => []JoinersHaveBranches
  OBVIOUS
<1>1. ExecInv /\ JoinInv => OneAtATime
  <2> SUFFICES ASSUME ExecInv, JoinInv, NEW c \in live, NEW d \in live, c # d,
                      Parent[c] # NoParent, Parent[c] = Parent[d],
                      Place(c) = "store", Place(d) = "store"
               PROVE  FALSE
    BY DEF OneAtATime
  <2>1. Agrees(c) /\ Agrees(d) /\ c \in Procs /\ d \in Procs
    BY Known DEF ExecInv, JoinInv, ThreadsAgree
  <2>2. InJoinOf(c) /\ InJoinOf(d)
    BY <2>1 DEF Agrees
  <2> QED
    BY <2>1, <2>2 DEF InJoinOf, LoneBranches
<1>2. ExecSpec => []JoinInv
  BY JoinInvHolds
<1>3. ExecSpec /\ []OneAtATime => []JoinersHaveBranches
  BY JoinsReturn
<1> QED
  BY <1>1, <1>2, <1>3, ExecInvHolds, PTL

-----------------------------------------------------------------------------
(* The clock.  sched_step decides that a time is over, exec_ready has run     *)
(* the processes, and the host has woken some in between.  What sched_step    *)
(* alone does is taken from SchedulerProofs.                                  *)

-----------------------------------------------------------------------------
(* No deadline is passed.  A delayed `<=` is between the queue and its     *)
(* thread for a while, so what the threads have loaded is part of the      *)
(* invariant.                                                              *)

\* An entry a thread is about to queue is still to come.
LoadsAreLate ==
    /\ at = "enqueue" => reg.time > time
    /\ \A p \in Procs : thread[p].at = "enqueue" => thread[p].reg.time > time

OnTime == NoOversleep /\ LoadsAreLate

\* Without a live thread nothing is loaded.
LEMMA NothingLoaded ==
  ASSUME ExecTypeOK', stage' # "threads"
  PROVE  LoadsAreLate'
<1>1. live' = {} /\ at' \in SchedPlaces
  BY DEF ExecTypeOK, ThreadsTyped
<1>2. \A p \in Procs : thread'[p].at = "enter"
  BY <1>1 DEF ExecTypeOK, ThreadsTyped, Fresh
<1> QED
  BY <1>1, <1>2 DEF LoadsAreLate, SchedPlaces

\* What a thread does between its instructions sets no deadline but that of the
\* entry it has loaded.
LEMMA ThreadOnTime ==
  ASSUME ExecTypeOK, OnTime,
         ThreadEnter \/ RunOn \/ LoopEnds \/ QueueStore \/ JoinLoad \/ JoinStore \/ JoinCheck
  PROVE  NoOversleep' /\ LoadsAreLate'
<1>1. /\ stage = "threads" /\ thread' = thread /\ UNCHANGED clock
      /\ at' \in {"exit", "after", "vm", "join", "store", "check"}
  BY DEF ThreadEnter, RunOn, LoopEnds, QueueStore, JoinLoad, JoinStore, JoinCheck, GoesTo, Caller
<1>2. LoadsAreLate'
  BY <1>1 DEF clock, OnTime, LoadsAreLate
<1>3. CASE QueueStore
  <2>1. UNCHANGED procs /\ at = "enqueue"
    BY <1>3 DEF QueueStore
  <2>2. \A e \in dnba' : e \in dnba \/ e = reg
    BY <1>3 DEF QueueStore
  <2>3. reg.time > time
    BY <2>1 DEF OnTime, LoadsAreLate
  <2> QED
    BY <1>1, <1>2, <2>1, <2>2, <2>3 DEF procs, waits, clock, OnTime, NoOversleep
<1>4. CASE JoinCheck
  <2>1. \A p \in Procs : wait_kind'[p] = "TIME" => wait_kind[p] = "TIME"
    BY <1>4 DEF JoinCheck, Wake
  <2>2. wait_time' = wait_time /\ dnba' = dnba
    BY <1>4 DEF JoinCheck, data
  <2> QED
    BY <1>1, <1>2, <2>1, <2>2 DEF clock, OnTime, NoOversleep
<1>5. CASE ThreadEnter \/ RunOn \/ LoopEnds \/ JoinLoad \/ JoinStore
  <2>1. UNCHANGED <<wait_kind, wait_time, dnba>>
    BY <1>5 DEF ThreadEnter, RunOn, LoopEnds, JoinLoad, JoinStore, procs, waits, data
  <2> QED
    BY <1>1, <1>2, <2>1 DEF clock, OnTime, NoOversleep
<1> QED
  BY <1>3, <1>4, <1>5

\* An instruction sets its deadlines after the current time.
LEMMA VmOnTime ==
  ASSUME ExecTypeOK, OnTime, VmStep
  PROVE  NoOversleep' /\ LoadsAreLate'
<1>1. /\ stage = "threads" /\ at = "vm"
      /\ \E i \in Fetched : DisableBranch(i) \/ QueueLoad(i) \/ VmExec(i)
  BY VmSteps
<1>2. PICK i \in Fetched : DisableBranch(i) \/ QueueLoad(i) \/ VmExec(i)
  BY <1>1
<1>3. TypeOK /\ cursor \in Procs /\ time \in Nat
  BY <1>1, InsideThreads DEF ExecTypeOK, CountersTyped
<1>4. CASE DisableBranch(i)
  <2>1. /\ UNCHANGED <<clock, thread, dnba, wait_time>> /\ at' # "enqueue"
        /\ \A p \in Procs : wait_kind'[p] = "TIME" => wait_kind[p] = "TIME"
    BY <1>3, <1>4 DEF DisableBranch, GoesTo, data, TypeOK, ProcsTyped
  <2> QED
    BY <2>1 DEF clock, OnTime, NoOversleep, LoadsAreLate
<1>5. CASE QueueLoad(i)
  <2>1. i.delay \in Nat /\ i.delay > 0
    BY <1>1, <1>3, <1>5, FetchedTyped, DelayedTyped DEF QueueLoad, Queues
  <2>2. /\ UNCHANGED <<clock, thread, dnba, wait_kind, wait_time>>
        /\ reg'.time = time + i.delay
    BY <1>5 DEF QueueLoad, GoesTo, waits, data
  <2>3. reg'.time > time
    BY <1>3, <2>1, <2>2
  <2> QED
    BY <2>2, <2>3 DEF clock, OnTime, NoOversleep, LoadsAreLate
<1>6. CASE VmExec(i)
  <2>1. Exec(i) /\ at' \in {"vm", "after"} /\ UNCHANGED <<clock, threads>>
    BY <1>1, <1>6, VmEffects DEF VmExec
  <2>2. NoOversleep'
    BY <1>3, <2>1, ExecOnTime DEF OnTime
  <2> QED
    BY <2>1, <2>2 DEF clock, threads, OnTime, LoadsAreLate
<1> QED
  BY <1>2, <1>4, <1>5, <1>6

\* Every step of the pipeline keeps the deadlines ahead of time.
LEMMA OnTimeStep ==
  ASSUME ExecTypeOK, ExecTypeOK', OnTime, [ExecNext]_execVars
  PROVE  OnTime'
<1>1. CASE UNCHANGED execVars \/ RunEnded
  <2>1. UNCHANGED <<vars, thread, reg>>
    BY <1>1 DEF execVars, RunEnded, Stopped, threads
  <2> QED
    BY <2>1 DEF vars, procs, waits, data, clock, control, OnTime, NoOversleep, LoadsAreLate
<1>2. CASE (\E interrupted \in BOOLEAN : Submit(interrupted)) \/ SchedStep \/ Drain
  <2>1. stage # "threads" /\ stage' # "threads"
    BY <1>2 DEF Submit, SchedStep, Drain
  <2>2. NoOversleep'
    BY <1>2, <2>1, OutsideThreads, SchedStepOnTime DEF OnTime, Submit, SchedStep, Drain
  <2>3. LoadsAreLate'
    BY <2>1, NothingLoaded
  <2> QED
    BY <2>2, <2>3 DEF OnTime
<1>3. CASE ReadyReset \/ WaitEval \/ ReadyFlags \/ ReadyCompact \/ ReadyDispatch
  <2>1. stage' # "threads"
    BY <1>3 DEF ReadyReset, WaitEval, ReadyFlags, ReadyCompact, ReadyDispatch
  <2>2. /\ UNCHANGED <<wait_time, dnba, time, active_init>>
        /\ \A p \in Procs : wait_kind'[p] = "TIME" => wait_kind[p] = "TIME"
    BY <1>3 DEF ReadyReset, WaitEval, ReadyFlags, ReadyCompact, ReadyDispatch, Wake, vars,
                procs, waits, data, clock
  <2>3. NoOversleep'
    BY <2>2 DEF OnTime, NoOversleep
  <2> QED
    BY <2>1, <2>3, NothingLoaded DEF OnTime
<1>4. CASE ExecLaunch \/ (\E p \in Procs : SwitchTo(p)) \/ ThreadExit
  <2>1. UNCHANGED <<procs, data, clock>>
    BY <1>4 DEF ExecLaunch, SwitchTo, ThreadExit
  <2>2. NoOversleep'
    BY <2>1 DEF procs, waits, data, clock, OnTime, NoOversleep
  <2>3. CASE stage' # "threads"
    BY <2>2, <2>3, NothingLoaded DEF OnTime
  <2>4. CASE ExecLaunch /\ stage' = "threads"
    <3>1. at' = "enter" /\ thread' = thread
      BY <2>4 DEF ExecLaunch, GiveCursor, Fresh
    <3> QED
      BY <2>1, <2>2, <3>1 DEF clock, OnTime, LoadsAreLate
  <2>5. ASSUME NEW p \in Procs, SwitchTo(p) PROVE LoadsAreLate'
    <3>1. /\ thread' = [thread EXCEPT ![cursor] = Locals, ![p] = Fresh]
          /\ at' = thread[p].at /\ reg' = thread[p].reg /\ thread \in [Procs -> ThreadLocals]
      BY <2>5 DEF SwitchTo, GiveCursor, ExecTypeOK, ThreadsTyped
    <3>2. \A q \in Procs : thread'[q] = Fresh \/ thread'[q] = Locals \/ thread'[q] = thread[q]
      BY <3>1
    <3>3. /\ Fresh.at # "enqueue" /\ Locals.at = at /\ Locals.reg = reg
      BY DEF Fresh, Locals
    <3> QED
      BY <2>1, <3>1, <3>2, <3>3 DEF clock, OnTime, LoadsAreLate
  <2>6. CASE ThreadExit /\ stage' = "threads"
    <3>1. PICK p \in live' : GiveCursor(p, thread[p]) /\ thread' = [thread EXCEPT ![p] = Fresh]
      BY <2>6 DEF ThreadExit
    <3>2. p \in Procs /\ thread \in [Procs -> ThreadLocals]
      BY <2>6 DEF ThreadExit, ExecTypeOK, PipelineTyped, ThreadsTyped
    <3>3. \A q \in Procs : thread'[q] = Fresh \/ thread'[q] = thread[q]
      BY <3>1, <3>2
    <3>4. at' = thread[p].at /\ reg' = thread[p].reg /\ Fresh.at # "enqueue"
      BY <3>1 DEF GiveCursor, Fresh
    <3> QED
      BY <2>1, <2>2, <3>2, <3>3, <3>4 DEF clock, OnTime, LoadsAreLate
  <2> QED
    BY <1>4, <2>2, <2>3, <2>4, <2>5, <2>6 DEF OnTime
<1>5. CASE ThreadEnter \/ RunOn \/ LoopEnds \/ QueueStore \/ JoinLoad \/ JoinStore \/ JoinCheck
  BY <1>5, ThreadOnTime DEF OnTime
<1>6. CASE VmStep
  BY <1>6, VmOnTime DEF OnTime
<1> QED
  BY <1>1, <1>2, <1>3, <1>4, <1>5, <1>6 DEF ExecNext, ReadyKernels, ThreadStep

\* Time passes no sleeper and no delayed `<=`, although sched_step moves the clock, wait_eval
\* and exec_ready handle the sleepers, and the threads store their entries later than they
\* compute them.
THEOREM ExecNeverOversleeps == ExecSpec => []NoOversleep
<1>1. ExecInit => OnTime
  BY DEF ExecInit, Init, OnTime, NoOversleep, LoadsAreLate, Fresh
<1>2. ExecTypeOK /\ ExecTypeOK' /\ OnTime /\ [ExecNext]_execVars => OnTime'
  BY OnTimeStep
<1> QED
  BY <1>1, <1>2, ExecTyped, PTL DEF ExecSpec, OnTime

-----------------------------------------------------------------------------
(* Time is exhausted.  Processes may run after the active phase has ended: *)
(* a drain between sched_step and exec_ready releases them, and the        *)
(* dispatch runs them before the commit.  sched_step scans for what they   *)
(* trigger, but not for a delta wait: time moves on if one starts one.     *)

\* The processes a drain may release.
Callers == {p \in Procs : \E i \in Program[p] : i.op = "CALL"}

\* None of them has a `#0`.
NoDeltaInCallers == \A p \in Callers : \A i \in Program[p] : i.op = "WAIT_TIME" => i.delay # 0

\* The host will submit no other iteration.
Doomed == status \in {"FINISHED", "STOPPED", "ERROR"}

\* Inside a turn of sched_step.
Turning == {"loop", "procs", "scan", "wake", "advance", "end"}

TurnInv ==
    /\ at \in Turning => status = "RUNNING"
    /\ at \in {"procs", "scan"} => phase = "ACTIVE"
    /\ phase = "NBA" \/ at \in {"procs", "scan"} => ~active_init
    /\ Landed /\ NothingToWake /\ EdgeWaitsHaveItems

\* In the NBA phase nobody waits for a delta, and none but the callers can start to:
\* nobody else is READY when the list is built.
OnlyCallersRun ==
    phase = "NBA" /\ ~Doomed =>
        /\ DeltaWaiters = {}
        /\ stage = "threads" => live \subseteq Callers
        /\ stage \notin {"sched_step", "threads"} => Runnable \subseteq Callers
        /\ at = "loop" /\ steps = 0 => stopped \/ Runnable = {}

CallersInv == requests \subseteq Callers /\ OnlyCallersRun

\* An edge wait stays in its WAIT_EDGE when no wait for an edge starts.
LEMMA EdgeWaitsKept ==
  ASSUME EdgeWaitsHaveItems,
         \A p \in Procs : wait_kind'[p] = "EDGE" => wait_kind[p] = "EDGE" /\ wait_on'[p] = wait_on[p]
  PROVE  EdgeWaitsHaveItems'
BY DEF EdgeWaitsHaveItems, Statements

\* Outside a turn of sched_step there is little to show.
LEMMA NotTurning ==
  ASSUME EdgeWaitsHaveItems', at' \notin Turning, active_init' = active_init, phase' = phase, TurnInv
  PROVE  TurnInv'
BY DEF TurnInv, Landed, NothingToWake, Turning

\* Processes that stop to be BLOCKED, or block otherwise, wait for no delta.
LEMMA FewerDeltaWaiters ==
  ASSUME \A p \in Procs : state'[p] = "BLOCKED" /\ wait_kind'[p] = "DELTA" =>
                          state[p] = "BLOCKED" /\ wait_kind[p] = "DELTA"
  PROVE  DeltaWaiters' \subseteq DeltaWaiters
BY DEF DeltaWaiters

\* The loop of sched_step in the active phase, with the scan that ends it.
LEMMA ActiveTurn ==
  ASSUME TypeOK, Gathered, TurnInv, CallersInv, BeginActive \/ EndPass \/ ScanActive,
         stage' = "sched_step"
  PROVE  TurnInv' /\ CallersInv'
<1> USE DEF Turning
<1>1. CASE BeginActive
  <2>1. /\ at = "loop" /\ at' = "procs" /\ phase' = "ACTIVE" /\ active_init' = FALSE
        /\ status' = status /\ requests' = requests /\ UNCHANGED <<wait_kind, wait_on>>
    BY <1>1 DEF BeginActive, procs, waits, outcome
  <2>2. EdgeWaitsHaveItems'
    BY <2>1, EdgeWaitsKept DEF TurnInv
  <2> QED
    BY <2>1, <2>2 DEF TurnInv, CallersInv, OnlyCallersRun, Landed, NothingToWake
<1>2. CASE EndPass
  <2>1. /\ at = "procs" /\ at' \in {"loop", "scan"} /\ UNCHANGED <<phase, active_init>>
        /\ status' = status /\ requests' = requests /\ UNCHANGED <<wait_kind, wait_on>>
    BY <1>2 DEF EndPass, procs, waits, data, clock, outcome
  <2>2. EdgeWaitsHaveItems'
    BY <2>1, EdgeWaitsKept DEF TurnInv
  <2> QED
    BY <2>1, <2>2 DEF TurnInv, CallersInv, OnlyCallersRun, Landed, NothingToWake
<1>3. CASE ScanActive
  <2>1. /\ at = "scan" /\ at' = "loop" /\ active_init' = active_init /\ status' = status
        /\ requests' = requests /\ wait_on' = wait_on /\ Wake(Triggered \cup DeltaWaiters)
        /\ phase' = IF Triggered \cup DeltaWaiters = {} THEN "NBA" ELSE "ACTIVE"
    BY <1>3 DEF ScanActive, outcome
  <2>2. EdgeWaitsHaveItems'
    BY <2>1, EdgeWaitsKept DEF TurnInv, Wake
  <2>3. phase' = "NBA" => Runnable' = {} /\ DeltaWaiters' = {}
    <3>1. Runnable = {}
      BY <2>1 DEF Gathered
    <3> QED
      BY <2>1, <3>1 DEF Runnable, DeltaWaiters, Wake
  <2> QED
    BY <2>1, <2>2, <2>3 DEF TurnInv, CallersInv, OnlyCallersRun, Landed, NothingToWake
<1> QED
  BY <1>1, <1>2, <1>3

\* The commit, the scan after it, the advance of time, and the end of the turn.
LEMMA NbaTurn ==
  ASSUME TypeOK, TurnInv, CallersInv, CommitNba \/ WakeAfterNba \/ AdvanceTime \/ Quiesce \/ EndStep,
         stage' = IF at' = "host" THEN "ready_reset" ELSE "sched_step"
  PROVE  TurnInv' /\ CallersInv'
<1> USE DEF Turning
<1>1. CASE CommitNba
  <2>1. /\ at = "loop" /\ at' = "wake" /\ phase = "NBA" /\ UNCHANGED <<phase, active_init>>
        /\ UNCHANGED <<state, wait_kind, wait_on, status, requests>>
    BY <1>1 DEF CommitNba, procs, waits, clock, outcome
  <2>2. EdgeWaitsHaveItems' /\ DeltaWaiters' \subseteq DeltaWaiters
    BY <2>1, EdgeWaitsKept, FewerDeltaWaiters DEF TurnInv
  <2>3. Landed'
    BY <1>1, CommitLands
  <2> QED
    BY <2>1, <2>2, <2>3 DEF TurnInv, CallersInv, OnlyCallersRun, NothingToWake, Doomed
<1>2. CASE WakeAfterNba
  <2>1. /\ at = "wake" /\ at' \in {"loop", "advance"} /\ Wake(Triggered)
        /\ UNCHANGED <<wait_on, sig, nb, status, requests>>
    BY <1>2 DEF WakeAfterNba, outcome
  <2>2. EdgeWaitsHaveItems' /\ DeltaWaiters' \subseteq DeltaWaiters
    BY <2>1, EdgeWaitsKept, FewerDeltaWaiters DEF TurnInv, Wake
  <2>3. CASE Triggered \cup Runnable = {}
    <3>1. at' = "advance" /\ UNCHANGED <<phase, active_init>>
      BY <1>2, <2>3 DEF WakeAfterNba
    <3>2. Triggered' = {} /\ state' = state
      BY <1>2, <2>1, <2>3, ScanTakesAll DEF WakeAfterNba, TurnInv
    <3>3. Runnable' = {}
      BY <2>3, <3>2 DEF Runnable
    <3>4. Landed'
      <4>1. Settle(sig)' = Settle(sig)
        BY <2>1 DEF Settle
      <4> QED
        BY <2>1, <3>1, <4>1 DEF Landed, TurnInv
    <3> QED
      BY <2>1, <2>2, <3>1, <3>2, <3>3, <3>4 DEF TurnInv, CallersInv, OnlyCallersRun, NothingToWake,
         Doomed
  <2>4. CASE Triggered \cup Runnable # {}
    <3>1. at' = "loop" /\ phase' = "ACTIVE"
      BY <1>2, <2>4 DEF WakeAfterNba
    <3> QED
      BY <2>1, <2>2, <3>1 DEF TurnInv, CallersInv, OnlyCallersRun, Landed, NothingToWake
  <2> QED
    BY <2>3, <2>4
<1>3. CASE AdvanceTime
  <2>1. /\ at = "advance" /\ at' = "loop" /\ phase' = "ACTIVE"
        /\ UNCHANGED <<wait_on, status, requests>>
        /\ \E W : Wake(W)
    BY <1>3 DEF AdvanceTime, data, outcome
  <2>2. EdgeWaitsHaveItems'
    BY <2>1, EdgeWaitsKept DEF TurnInv, Wake
  <2> QED
    BY <2>1, <2>2 DEF TurnInv, CallersInv, OnlyCallersRun, Landed, NothingToWake
<1>4. CASE Quiesce
  <2>1. /\ at = "advance" /\ at' = "end" /\ UNCHANGED <<procs, data, clock, status>>
    BY <1>4 DEF Quiesce
  <2>2. UNCHANGED <<state, wait_kind, wait_on, sig, pending, edge_prev, phase, active_init,
                    status, requests>>
    BY <2>1 DEF procs, waits, data, clock
  <2>3. Triggered' = Triggered /\ Runnable' = Runnable
    BY <2>2 DEF Triggered, EdgeSeen, Runnable
  <2>4. EdgeWaitsHaveItems' /\ DeltaWaiters' \subseteq DeltaWaiters
    BY <2>2, EdgeWaitsKept, FewerDeltaWaiters DEF TurnInv
  <2> QED
    BY <2>1, <2>2, <2>3, <2>4 DEF TurnInv, CallersInv, OnlyCallersRun, Landed, NothingToWake, Doomed
<1>5. CASE EndStep
  <2>1. /\ at = "end" \/ (at = "loop" /\ steps = 0)
        /\ at' = "host" /\ UNCHANGED <<procs, data, clock>> /\ stopped' = stopped
    BY <1>5 DEF EndStep
  <2>2. UNCHANGED <<state, wait_kind, wait_on, phase, active_init, requests>>
    BY <2>1 DEF procs, waits, data, clock
  <2>3. EdgeWaitsHaveItems' /\ DeltaWaiters' \subseteq DeltaWaiters
    BY <2>2, EdgeWaitsKept, FewerDeltaWaiters DEF TurnInv
  <2>4. stopped => Doomed'
    BY <1>5 DEF EndStep, Doomed
  <2>5. Runnable' = Runnable
    BY <2>2 DEF Runnable
  <2>6. status = "RUNNING"
    BY <2>1 DEF TurnInv
  <2>7. phase = "NBA" /\ ~Doomed' => Runnable = {} /\ DeltaWaiters = {}
    BY <2>1, <2>4, <2>6 DEF TurnInv, CallersInv, OnlyCallersRun, NothingToWake, Doomed
  <2> QED
    BY <2>1, <2>2, <2>3, <2>5, <2>7 DEF TurnInv, CallersInv, OnlyCallersRun, Landed, NothingToWake
<1> QED
  BY <1>1, <1>2, <1>3, <1>4, <1>5

\* The host: the next iteration, and the drains.
LEMMA HostTurn ==
  ASSUME TypeOK, TurnInv, CallersInv,
         (\E interrupted \in BOOLEAN : Submit(interrupted)) \/ Drain
  PROVE  TurnInv' /\ CallersInv'
<1> USE DEF Turning
<1>1. ASSUME NEW interrupted \in BOOLEAN, Submit(interrupted) PROVE TurnInv' /\ CallersInv'
  <2>1. /\ ~Halted /\ at' = "loop" /\ status' = "RUNNING" /\ stopped' = interrupted
        /\ stage = "sched_step" /\ stage' = stage
        /\ \E budget \in Budgets : steps' = IF interrupted THEN 0 ELSE budget
        /\ UNCHANGED <<procs, data, clock>>
    BY <1>1 DEF Submit, Dispatch
  <2>2. UNCHANGED <<state, wait_kind, wait_on, phase, active_init, requests>>
    BY <2>1 DEF procs, waits, data, clock
  <2>3. ~Doomed
    BY <2>1 DEF Halted, Doomed
  <2>4. steps' = 0 => stopped'
    BY <2>1, SchedulerAssumption
  <2>5. EdgeWaitsHaveItems' /\ DeltaWaiters' \subseteq DeltaWaiters
    BY <2>2, EdgeWaitsKept, FewerDeltaWaiters DEF TurnInv
  <2> QED
    BY <2>1, <2>2, <2>3, <2>4, <2>5 DEF TurnInv, CallersInv, OnlyCallersRun, Landed, NothingToWake
<1>2. CASE Drain
  <2>1. /\ at = "host" /\ at' = at /\ stage' = stage /\ requests' = {} /\ Wake(Answered)
        /\ UNCHANGED <<wait_on, phase, active_init, status>>
        /\ stage = "sched_step" \/ stage = "ready_reset"
    BY <1>2 DEF Drain, DrainServices, clock, outcome, control
  <2>2. EdgeWaitsHaveItems' /\ DeltaWaiters' \subseteq DeltaWaiters
    BY <2>1, EdgeWaitsKept, FewerDeltaWaiters DEF TurnInv, Wake
  <2>3. Answered \subseteq Callers
    BY DEF Answered, CallersInv
  <2>4. Runnable' \subseteq Runnable \cup Callers
    BY <2>1, <2>3 DEF Runnable, Wake
  <2> QED
    BY <2>1, <2>2, <2>4 DEF TurnInv, CallersInv, OnlyCallersRun, Landed, NothingToWake, Doomed
<1> QED
  BY <1>1, <1>2

\* The kernels that build the list, and the launch of the threads.
LEMMA KernelsTurn ==
  ASSUME ExecTypeOK, Gathered, TurnInv, CallersInv, ReadyKernels
  PROVE  TurnInv' /\ CallersInv'
<1>1. at = "host" /\ TypeOK
  BY OutsideThreads DEF ExecTypeOK, ThreadsTyped, ReadyKernels, ReadyReset, WaitEval, ReadyFlags,
     ReadyCompact, ReadyDispatch, ExecLaunch
<1>2. CASE WaitEval
  <2>1. /\ UNCHANGED <<wait_on, phase, active_init, status, requests, at>>
        /\ Wake(IF phase = "ACTIVE" THEN Elapsed ELSE {})
        /\ stage = "wait_eval" /\ stage' = "ready_flags"
    BY <1>2 DEF WaitEval, data, clock, outcome, control
  <2>2. EdgeWaitsHaveItems' /\ DeltaWaiters' \subseteq DeltaWaiters
    BY <2>1, EdgeWaitsKept, FewerDeltaWaiters DEF TurnInv, Wake
  <2>3. phase = "NBA" => Runnable' = Runnable
    BY <2>1 DEF Runnable, Wake
  <2> QED
    BY <1>1, <2>1, <2>2, <2>3 DEF TurnInv, CallersInv, OnlyCallersRun, Landed, NothingToWake, Doomed,
       Turning
<1>3. CASE ReadyReset \/ ReadyFlags \/ ReadyCompact \/ ReadyDispatch
  <2>1. /\ UNCHANGED vars
        /\ stage \notin {"sched_step", "threads"} /\ stage' \notin {"sched_step", "threads"}
    BY <1>3 DEF ReadyReset, ReadyFlags, ReadyCompact, ReadyDispatch
  <2>2. UNCHANGED <<state, wait_kind, wait_on, phase, active_init, status, requests, at>>
    BY <2>1 DEF vars, procs, waits, data, clock, outcome, control
  <2>3. EdgeWaitsHaveItems' /\ DeltaWaiters' \subseteq DeltaWaiters
    BY <2>2, EdgeWaitsKept, FewerDeltaWaiters DEF TurnInv
  <2>4. Runnable' = Runnable
    BY <2>2 DEF Runnable
  <2> QED
    BY <1>1, <2>1, <2>2, <2>3, <2>4 DEF TurnInv, CallersInv, OnlyCallersRun, Landed, NothingToWake,
       Doomed, Turning
<1>4. CASE ExecLaunch
  <2>1. /\ UNCHANGED <<procs, data, clock, status>> /\ stage = "exec_ready"
        /\ stage' \in {"sched_step", "threads"}
        /\ at' \in {at, "enter"} /\ live' \subseteq list
    BY <1>4 DEF ExecLaunch, GiveCursor, Fresh
  <2>2. UNCHANGED <<state, wait_kind, wait_on, phase, active_init, requests>>
    BY <2>1 DEF procs, waits, data, clock
  <2>3. EdgeWaitsHaveItems' /\ DeltaWaiters' \subseteq DeltaWaiters
    BY <2>2, EdgeWaitsKept, FewerDeltaWaiters DEF TurnInv
  <2>4. live' \subseteq Runnable
    BY <2>1 DEF Gathered
  <2> QED
    BY <1>1, <2>1, <2>2, <2>3, <2>4 DEF TurnInv, CallersInv, OnlyCallersRun, Landed, NothingToWake,
       Doomed, Turning
<1> QED
  BY <1>2, <1>3, <1>4 DEF ReadyKernels

\* A step of the threads keeps both when it starts no wait for an edge or a delta.
LEMMA ThreadsTurn ==
  ASSUME ExecTypeOK', TurnInv, CallersInv, stage = "threads", stage' # "threads" => at' = "host",
         stage' \in {"threads", "sched_step"}, UNCHANGED clock, live' \subseteq live,
         status' = status \/ Doomed',
         requests' \subseteq Callers, EdgeWaitsHaveItems',
         phase = "NBA" /\ live \subseteq Callers => DeltaWaiters' \subseteq DeltaWaiters
  PROVE  TurnInv' /\ CallersInv'
<1>1. at' \notin Turning
  <2>1. stage' = "threads" => at' \in ThreadPlaces
    BY DEF ExecTypeOK, ThreadsTyped, Locals, ThreadLocals
  <2> QED
    BY <2>1 DEF ThreadPlaces, Turning
<1>2. phase' = phase /\ active_init' = active_init
  BY DEF clock
<1>3. TurnInv'
  BY <1>1, <1>2, NotTurning
<1>4. ~Doomed' => ~Doomed
  BY DEF Doomed
<1> QED
  BY <1>1, <1>2, <1>3, <1>4 DEF CallersInv, OnlyCallersRun, Turning

\* Only a process whose program has a CALL publishes a request for an answer.
LEMMA CallersRequest ==
  ASSUME TypeOK, requests \subseteq Callers, NEW i \in Fetched, Exec(i)
  PROVE  requests' \subseteq Callers
<1>1. CASE ServiceCall(i)
  <2>1. cursor \in Procs /\ ip[cursor] \in {Anywhere, WaitServiceOp} \cup (Delayed \cap Statements)
    BY DEF TypeOK, ProcsTyped, ControlTyped, CountersTyped
  <2>2. \A d \in Delayed : d.op = "ASSIGN_DELAY"
    BY SchedulerAssumption DEF DelayedAssign
  <2>3. i.op = "CALL" => i \in Program[cursor]
    BY <2>1, <2>2 DEF Fetched, WaitServiceOp
  <2>4. i.op = "CALL" => cursor \in Callers
    BY <2>1, <2>3 DEF Callers
  <2> QED
    BY <1>1, <2>4 DEF ServiceCall
<1>2. CASE ~ServiceCall(i)
  <2>1. requests' \subseteq requests
    BY <1>2 DEF Exec, Assign, AssignNb, StoreHeld, AssignDelay, AssignDelayNb, EventTrigger,
       WaitTime, WaitEvent, WaitEdge, WaitCond, Fork, DisableChild, DisableCross, WaitService,
       Halt, Done, data
  <2> QED
    BY <2>1
<1> QED
  BY <1>1, <1>2

\* Without a `#0` no instruction starts a wait for a delta.
LEMMA NoDeltaStarts ==
  ASSUME ExecTypeOK, stage = "threads", at = "vm", NEW i \in Fetched, VmExec(i),
         NoDeltaInCallers, cursor \in Callers
  PROVE  DeltaWaiters' \subseteq DeltaWaiters
<1>1. TypeOK /\ cursor \in Procs
  BY InsideThreads
<1>2. Exec(i)
  BY DEF VmExec
<1>3. ip[cursor] \in {Anywhere, WaitServiceOp} \cup (Delayed \cap Statements)
  BY <1>1 DEF TypeOK, ProcsTyped
<1>4. \A d \in Delayed : d.op = "ASSIGN_DELAY"
  BY SchedulerAssumption DEF DelayedAssign
<1>5. i.op = "WAIT_TIME" => i.delay # 0
  BY <1>3, <1>4 DEF Fetched, WaitServiceOp, NoDeltaInCallers
<1>6. ASSUME NEW kind, kind # "DELTA", Block(kind, i) PROVE DeltaWaiters' \subseteq DeltaWaiters
  BY <1>1, <1>6, FewerDeltaWaiters DEF Block, TypeOK, ProcsTyped
<1>7. ASSUME wait_kind' = wait_kind,
             state' = state \/ (\E s \in {"DONE", state[cursor]} : state' = [state EXCEPT ![cursor] = s])
      PROVE  DeltaWaiters' \subseteq DeltaWaiters
  BY <1>1, <1>7, FewerDeltaWaiters DEF TypeOK, ProcsTyped
<1>8. CASE \/ Assign(i) \/ AssignNb(i) \/ StoreHeld(i) \/ AssignDelayNb(i) \/ EventTrigger(i)
           \/ ServiceCall(i) \/ Halt(i) \/ Done(i)
  BY <1>7, <1>8 DEF Assign, AssignNb, StoreHeld, AssignDelayNb, EventTrigger, ServiceCall, Halt,
     Done, waits
<1>9. CASE WaitTime(i)
  BY <1>5, <1>6, <1>7, <1>9 DEF WaitTime
<1>10. CASE AssignDelay(i)
  BY <1>6, <1>7, <1>10 DEF AssignDelay, waits
<1>11. CASE WaitEvent(i) \/ WaitEdge(i) \/ WaitCond(i) \/ WaitService(i)
  BY <1>6, <1>7, <1>11 DEF WaitEvent, WaitEdge, WaitCond, WaitService, waits
<1>12. CASE Fork(i)
  BY <1>12, FewerDeltaWaiters DEF Fork
<1>13. CASE DisableChild(i) \/ DisableCross(i)
  <2>1. i \in Program[cursor] /\ i.op = "DISABLE_CROSS"
    BY <1>3, <1>4, <1>13 DEF DisableChild, DisableCross, VmExec, Fetched, WaitServiceOp
  <2> QED
    BY <1>1, <2>1, ExecReadyAssumption
<1> QED
  BY <1>2, <1>8, <1>9, <1>10, <1>11, <1>12, <1>13 DEF Exec

\* The threads, which put off what they have triggered to the scans of sched_step.
LEMMA ThreadStepTurn ==
  ASSUME ExecTypeOK, ExecTypeOK', TurnInv, CallersInv, NoDeltaInCallers,
         ThreadStep \/ \E p \in Procs : SwitchTo(p)
  PROVE  TurnInv' /\ CallersInv'
<1>0. EdgeWaitsHaveItems /\ requests \subseteq Callers
  BY DEF TurnInv, CallersInv
<1>1. CASE ThreadExit \/ \E p \in Procs : SwitchTo(p)
  <2>1. /\ stage = "threads" /\ stage' \in {"threads", "sched_step"}
        /\ stage' # "threads" => at' = "host"
        /\ UNCHANGED <<procs, data, clock>> /\ live' \subseteq live
        /\ status' \in {status, "FINISHED", "STOPPED"}
    BY <1>1 DEF ThreadExit, SwitchTo, GiveCursor, Fresh
  <2>2. UNCHANGED <<state, wait_kind, wait_on, requests>>
    BY <2>1 DEF procs, waits, data
  <2>3. EdgeWaitsHaveItems' /\ DeltaWaiters' \subseteq DeltaWaiters
    BY <1>0, <2>2, EdgeWaitsKept, FewerDeltaWaiters
  <2>4. status' = status \/ Doomed'
    BY <2>1 DEF Doomed
  <2> QED
    BY <1>0, <2>1, <2>2, <2>3, <2>4, ThreadsTurn
<1>2. CASE ThreadEnter \/ RunOn \/ LoopEnds \/ QueueStore \/ JoinLoad \/ JoinStore \/ JoinCheck
  <2>1. /\ stage = "threads" /\ stage' = stage /\ live' = live /\ status' = status
        /\ UNCHANGED <<clock, requests, wait_on>>
    BY <1>2 DEF ThreadEnter, RunOn, LoopEnds, QueueStore, JoinLoad, JoinStore, JoinCheck, GoesTo,
       procs, waits, data
  <2>2. \/ UNCHANGED <<state, wait_kind>>
        \/ \E W : Wake(W)
    BY <1>2 DEF ThreadEnter, RunOn, LoopEnds, QueueStore, JoinLoad, JoinStore, JoinCheck, procs,
       waits
  <2>3. EdgeWaitsHaveItems' /\ DeltaWaiters' \subseteq DeltaWaiters
    BY <1>0, <2>1, <2>2, EdgeWaitsKept, FewerDeltaWaiters DEF Wake
  <2> QED
    BY <1>0, <2>1, <2>3, ThreadsTurn
<1>3. CASE VmStep
  <2>1. stage = "threads" /\ at = "vm"
    BY <1>3, VmSteps
  <2>2. PICK i \in Fetched : DisableBranch(i) \/ QueueLoad(i) \/ VmExec(i)
    BY <1>3, VmSteps
  <2>3. TypeOK /\ cursor \in live
    BY <2>1, InsideThreads
  <2>4. CASE DisableBranch(i) \/ QueueLoad(i)
    <3>1. /\ stage' = stage /\ live' = live /\ status' = status
          /\ UNCHANGED <<clock, requests, wait_on>>
      BY <2>4 DEF DisableBranch, QueueLoad, GoesTo, waits, data
    <3>2. \A p \in Procs : wait_kind'[p] # "NONE" => wait_kind'[p] = wait_kind[p]
      BY <2>3, <2>4 DEF DisableBranch, QueueLoad, waits, TypeOK, ProcsTyped
    <3>3. \A p \in Procs : state'[p] = "BLOCKED" => state[p] = "BLOCKED"
      BY <2>3, <2>4 DEF DisableBranch, QueueLoad, waits, TypeOK, ProcsTyped
    <3>4. EdgeWaitsHaveItems' /\ DeltaWaiters' \subseteq DeltaWaiters
      BY <1>0, <3>1, <3>2, <3>3, EdgeWaitsKept, FewerDeltaWaiters
    <3> QED
      BY <1>0, <2>1, <3>1, <3>4, ThreadsTurn
  <2>5. CASE VmExec(i)
    <3>1. Exec(i) /\ UNCHANGED <<clock, stage, live>>
      BY <2>1, <2>5, VmEffects DEF VmExec, threads
    <3>2. status' = status
      BY <3>1 DEF Exec, Assign, AssignNb, StoreHeld, AssignDelay, AssignDelayNb, EventTrigger,
         WaitTime, WaitEvent, WaitEdge, WaitCond, Fork, DisableChild, DisableCross,
         ServiceCall, WaitService, Halt, Done, Continues, Yields, Returns
    <3>3. EdgeWaitsHaveItems' /\ requests' \subseteq Callers
      BY <1>0, <2>3, <3>1, ExecEdgeWaits, CallersRequest
    <3>4. live \subseteq Callers => DeltaWaiters' \subseteq DeltaWaiters
      BY <2>1, <2>3, <2>5, NoDeltaStarts
    <3> QED
      BY <2>1, <3>1, <3>2, <3>3, <3>4, ThreadsTurn
  <2> QED
    BY <2>2, <2>4, <2>5
<1> QED
  BY <1>1, <1>2, <1>3 DEF ThreadStep

\* Every step of the pipeline keeps it.
LEMMA TurnStep ==
  ASSUME ExecInv, ExecInv', TurnInv, CallersInv, NoDeltaInCallers, [ExecNext]_execVars
  PROVE  TurnInv' /\ CallersInv'
<1>0. ExecTypeOK /\ ExecTypeOK' /\ Gathered
  BY DEF ExecInv
<1>1. CASE UNCHANGED execVars \/ RunEnded
  <2>1. UNCHANGED <<vars, stage, live>>
    BY <1>1 DEF execVars, RunEnded, Stopped, threads
  <2>2. UNCHANGED <<Triggered, Runnable, DeltaWaiters>> /\ Settle(sig)' = Settle(sig)
    BY <2>1 DEF vars, procs, waits, data, Triggered, EdgeSeen, Runnable, DeltaWaiters, Settle
  <2> QED
    BY <2>1, <2>2 DEF vars, procs, waits, data, clock, outcome, control, TurnInv, CallersInv,
       OnlyCallersRun, Landed, NothingToWake, EdgeWaitsHaveItems, Statements, Doomed
<1>2. CASE (\E interrupted \in BOOLEAN : Submit(interrupted)) \/ Drain
  <2>1. TypeOK
    BY <1>0, <1>2, OutsideThreads DEF Submit, Drain
  <2> QED
    BY <1>2, <2>1, HostTurn
<1>3. CASE SchedStep
  <2>1. TypeOK /\ stage = "sched_step"
    BY <1>0, <1>3, OutsideThreads DEF SchedStep
  <2>2. stage' = IF at' = "host" THEN "ready_reset" ELSE "sched_step"
    BY <1>3 DEF SchedStep
  <2>3. CASE BeginActive \/ EndPass \/ ScanActive
    <3>1. at' # "host"
      BY <2>3 DEF BeginActive, EndPass, ScanActive
    <3> QED
      BY <1>0, <2>1, <2>2, <2>3, <3>1, ActiveTurn
  <2>4. CASE CommitNba \/ WakeAfterNba \/ AdvanceTime \/ Quiesce \/ EndStep
    BY <2>1, <2>2, <2>4, NbaTurn
  <2> QED
    BY <1>3, <2>3, <2>4 DEF SchedStep
<1>4. CASE ReadyKernels
  BY <1>0, <1>4, KernelsTurn
<1>5. CASE ThreadStep \/ \E p \in Procs : SwitchTo(p)
  BY <1>0, <1>5, ThreadStepTurn
<1> QED
  BY <1>1, <1>2, <1>3, <1>4, <1>5 DEF ExecNext

\* Of the pipeline only sched_step moves the clock.
LEMMA OnlySchedStepMoves ==
  ASSUME ExecTypeOK, [ExecNext]_execVars, time' # time
  PROVE  AdvanceTime
<1>1. ~UNCHANGED clock
  BY DEF clock
<1>2. ~UNCHANGED execVars /\ ~RunEnded /\ ~ReadyKernels /\ ~Drain
  BY <1>1 DEF execVars, vars, RunEnded, Stopped, ReadyKernels, ReadyReset, WaitEval, ReadyFlags,
     ReadyCompact, ReadyDispatch, ExecLaunch, Drain, DrainServices
<1>3. ASSUME NEW interrupted \in BOOLEAN PROVE ~Submit(interrupted)
  BY <1>1 DEF Submit, Dispatch
<1>4. ~VmStep
  <2> SUFFICES ASSUME VmStep PROVE FALSE
    OBVIOUS
  <2>1. PICK i \in Fetched : DisableBranch(i) \/ QueueLoad(i) \/ VmExec(i)
    BY VmSteps
  <2>2. VmExec(i) => UNCHANGED clock
    BY VmEffects, VmSteps
  <2> QED
    BY <1>1, <2>1, <2>2 DEF DisableBranch, QueueLoad, GoesTo
<1>5. ~ThreadStep /\ ~(\E p \in Procs : SwitchTo(p))
  BY <1>1, <1>4 DEF ThreadStep, ThreadEnter, RunOn, LoopEnds, QueueStore, JoinLoad, JoinStore,
     JoinCheck, ThreadExit, GoesTo, SwitchTo
<1>6. SchedStep
  BY <1>2, <1>3, <1>5 DEF ExecNext
<1> QED
  BY <1>1, <1>6 DEF SchedStep, BeginActive, EndPass, ScanActive, CommitNba, WakeAfterNba, Quiesce,
     EndStep, clock

\* In exec-ready mode the clock moves forward, and only from a time that is exhausted, if the
\* processes with a call of a service have no `#0`: whatever a drain releases between the end
\* of the active phase and the commit, sched_step scans for what it triggers.
THEOREM ExecTimeIsExhausted == NoDeltaInCallers => (ExecSpec => TimeLeavesNothingBehind)
<1> SUFFICES ASSUME NoDeltaInCallers PROVE ExecSpec => TimeLeavesNothingBehind
  OBVIOUS
<1> DEFINE Exhausted == time' # time =>
        /\ time' > time
        /\ Runnable = {} /\ DeltaWaiters = {} /\ Triggered = {}
        /\ \A t \in NbTargets : nb[t] = sig[t]
        /\ sig = Settle(sig)
<1>1. ExecInit => TurnInv /\ CallersInv
  BY DEF ExecInit, Init, TurnInv, CallersInv, OnlyCallersRun, Landed, NothingToWake,
         EdgeWaitsHaveItems, Turning
<1>2. ExecInv /\ ExecInv' /\ TurnInv /\ CallersInv /\ [ExecNext]_execVars => TurnInv' /\ CallersInv'
  BY TurnStep
<1>3. ExecInv /\ NoOversleep /\ TurnInv /\ CallersInv /\ [ExecNext]_execVars => [Exhausted]_vars
  <2> SUFFICES ASSUME ExecInv, NoOversleep, TurnInv, CallersInv, [ExecNext]_execVars, time' # time
               PROVE  /\ time' > time
                      /\ Runnable = {} /\ DeltaWaiters = {} /\ Triggered = {}
                      /\ \A t \in NbTargets : nb[t] = sig[t]
                      /\ sig = Settle(sig)
    OBVIOUS
  <2>1. AdvanceTime /\ at = "advance"
    BY OnlySchedStepMoves DEF ExecInv, AdvanceTime
  <2>2. /\ Runnable = {} /\ Triggered = {} /\ sig = Settle(sig)
        /\ \A t \in NbTargets : nb[t] = sig[t]
        /\ phase = "NBA" /\ status = "RUNNING" /\ ~active_init
    BY <2>1 DEF TurnInv, Landed, NothingToWake, Turning
  <2>3. DeltaWaiters = {}
    BY <2>2 DEF CallersInv, OnlyCallersRun, Doomed
  <2>4. \A t \in Deadlines : t > time
    BY <2>2 DEF Deadlines, Sleepers, NoOversleep
  <2>5. time' \in Deadlines
    BY <2>1 DEF AdvanceTime
  <2> QED
    BY <2>2, <2>3, <2>4, <2>5
<1> QED
  BY <1>1, <1>2, <1>3, ExecInvHolds, ExecNeverOversleeps, PTL DEF ExecSpec, TimeLeavesNothingBehind

-----------------------------------------------------------------------------
(* sched_step finishes a run only when no process can ever run again.      *)

\* The loop of sched_step is left for good with no deadline, and with no process in a
\* service if that finishes the run.
EndInv ==
    /\ at \in Turning \ {"end"} => ~finished
    /\ at = "end" => /\ phase = "NBA" /\ Deadlines = {}
                     /\ finished => \A p \in Procs : wait_kind[p] # "SERVICE"

LEMMA EndStepKept ==
  ASSUME ExecTypeOK, ExecTypeOK', TurnInv, EndInv, [ExecNext]_execVars
  PROVE  EndInv'
<1>1. CASE UNCHANGED execVars \/ RunEnded
  <2>1. UNCHANGED vars
    BY <1>1 DEF execVars, RunEnded, Stopped
  <2> QED
    BY <2>1 DEF vars, procs, waits, data, clock, outcome, control, EndInv, Deadlines, Sleepers
<1>2. CASE \E interrupted \in BOOLEAN : Submit(interrupted)
  BY <1>2 DEF Submit, Dispatch, EndInv
<1>3. CASE SchedStep
  <2>1. CASE Quiesce
    <3>1. /\ at = "advance" /\ at' = "end" /\ Deadlines = {} /\ UNCHANGED <<procs, data, clock>>
          /\ finished' = (finished \/ \A p \in Procs : wait_kind[p] # "SERVICE")
      BY <2>1 DEF Quiesce
    <3>2. Deadlines' = {} /\ wait_kind' = wait_kind /\ phase' = "NBA"
      BY <3>1 DEF procs, waits, data, clock, Deadlines, Sleepers, TurnInv, Landed
    <3>3. ~finished
      BY <3>1 DEF EndInv, Turning
    <3> QED
      BY <3>1, <3>2, <3>3 DEF EndInv
  <2>2. CASE EndStep
    BY <2>2 DEF EndStep, EndInv, Turning
  <2>3. CASE BeginActive \/ EndPass \/ ScanActive \/ CommitNba \/ WakeAfterNba \/ AdvanceTime
    <3>1. at \in Turning \ {"end"} /\ at' # "end" /\ finished' = finished
      BY <2>3 DEF BeginActive, EndPass, ScanActive, CommitNba, WakeAfterNba, AdvanceTime, outcome,
         Turning
    <3> QED
      BY <3>1 DEF EndInv
  <2> QED
    BY <1>3, <2>1, <2>2, <2>3 DEF SchedStep
<1>4. CASE Drain \/ ReadyKernels \/ ThreadStep \/ \E p \in Procs : SwitchTo(p)
  <2>1. at' \in {"host"} \cup ThreadPlaces
    <3>1. stage' = "threads" => at' \in ThreadPlaces
      BY DEF ExecTypeOK, ThreadsTyped, Locals, ThreadLocals
    <3>2. stage' \notin {"sched_step", "threads"} => at' = "host"
      BY DEF ExecTypeOK, ThreadsTyped
    <3>3. CASE Drain
      BY <3>3 DEF Drain, DrainServices, control
    <3>4. CASE ReadyKernels /\ stage' = "sched_step"
      <4>1. ExecLaunch /\ at = "host"
        BY <3>4 DEF ReadyKernels, ReadyReset, WaitEval, ReadyFlags, ReadyCompact, ReadyDispatch,
           ExecLaunch, ExecTypeOK, ThreadsTyped
      <4> QED
        BY <4>1 DEF ExecLaunch, GiveCursor, Fresh, ThreadPlaces
    <3>5. CASE (ThreadStep \/ \E p \in Procs : SwitchTo(p)) /\ stage' = "sched_step"
      <4>1. ThreadExit
        BY <3>5 DEF ThreadStep, ThreadEnter, RunOn, LoopEnds, VmStep, QueueStore, JoinLoad,
           JoinStore, JoinCheck, SwitchTo, DisableBranch, QueueLoad, GoesTo
      <4> QED
        BY <3>5, <4>1 DEF ThreadExit, GiveCursor, Fresh
    <3> QED
      BY <1>4, <3>1, <3>2, <3>3, <3>4, <3>5 DEF ExecTypeOK, PipelineTyped
  <2> QED
    BY <2>1 DEF EndInv, Turning, ThreadPlaces
<1> QED
  BY <1>1, <1>2, <1>3, <1>4 DEF ExecNext

\* In exec-ready mode too sched_step finishes a run only when no process can ever run again:
\* whatever ends, wakes or is woken between its turns, if no two branches of a fork overlap
\* between the load and the store of the join count, and the processes with a call of a
\* service have no `#0`.
THEOREM ExecFinishesStuck ==
    SiblingsLetLive /\ NoDeltaInCallers =>
        (ExecSpec /\ []OneAtATime => []FinishedMeansStuck)
<1> SUFFICES ASSUME SiblingsLetLive, NoDeltaInCallers
             PROVE  ExecSpec /\ []OneAtATime => []FinishedMeansStuck
  OBVIOUS
<1>1. ExecInit => EndInv
  BY DEF ExecInit, Init, EndInv, Turning
<1>2. ExecTypeOK /\ ExecTypeOK' /\ TurnInv /\ EndInv /\ [ExecNext]_execVars => EndInv'
  BY EndStepKept
<1>3. ExecInv /\ JoinInv /\ JoinersHaveBranches /\ TurnInv /\ CallersInv /\ EndInv =>
          FinishedMeansStuck
  <2> SUFFICES ASSUME ExecInv, JoinInv, JoinersHaveBranches, TurnInv, CallersInv, EndInv,
                      at = "end"
               PROVE  /\ dnba = {} /\ Triggered = {}
                      /\ \A p \in Procs : state[p] # "DONE" =>
                           /\ wait_kind[p] \in {"NONE", "EVENT", "EDGE", "COND", "JOIN", "SERVICE"}
                           /\ wait_kind[p] = "SERVICE" => ~finished
                           /\ wait_kind[p] = "NONE" => state[p] = "BLOCKED"
                           /\ wait_kind[p] = "JOIN" => \E c \in Children(p, wait_on[p].tag) :
                                                           state[c] # "DONE"
    BY DEF FinishedMeansStuck
  <2>1. stage = "sched_step" /\ TypeOK
    <3>1. stage # "threads"
      BY InsideThreads DEF ExecInv, ThreadPlaces
    <3> QED
      BY <3>1, OutsideThreads DEF ExecInv, ExecTypeOK, ThreadsTyped
  <2>2. Runnable = {} /\ Triggered = {} /\ phase = "NBA" /\ ~Doomed
    BY DEF TurnInv, NothingToWake, Turning, EndInv, Doomed
  <2>3. DeltaWaiters = {} /\ dnba = {} /\ Sleepers = {}
    BY <2>2 DEF CallersInv, OnlyCallersRun, EndInv, Deadlines
  <2>4. ASSUME NEW p \in Procs, state[p] # "DONE"
        PROVE  /\ wait_kind[p] \in {"NONE", "EVENT", "EDGE", "COND", "JOIN", "SERVICE"}
               /\ wait_kind[p] = "SERVICE" => ~finished
               /\ wait_kind[p] = "NONE" => state[p] = "BLOCKED"
    <3>1. state[p] = "BLOCKED"
      BY <2>1, <2>2, <2>4 DEF Runnable, TypeOK, ProcsTyped
    <3>2. wait_kind[p] # "TIME" /\ wait_kind[p] # "DELTA"
      BY <2>3, <3>1 DEF Sleepers, DeltaWaiters
    <3> QED
      BY <2>1, <3>1, <3>2 DEF EndInv, TypeOK, ProcsTyped
  <2> QED
    BY <2>1, <2>2, <2>3, <2>4 DEF JoinersHaveBranches
<1>4. ExecInit => TurnInv /\ CallersInv
  BY DEF ExecInit, Init, TurnInv, CallersInv, OnlyCallersRun, Landed, NothingToWake,
         EdgeWaitsHaveItems, Turning
<1>5. ExecInv /\ ExecInv' /\ TurnInv /\ CallersInv /\ [ExecNext]_execVars => TurnInv' /\ CallersInv'
  BY TurnStep
<1>6. ExecSpec /\ []OneAtATime => []JoinersHaveBranches
  BY JoinsReturn
<1>7. ExecSpec => []JoinInv
  BY JoinInvHolds
<1> QED
  BY <1>1, <1>2, <1>3, <1>4, <1>5, <1>6, <1>7, ExecInvHolds, ExecTyped, PTL DEF ExecSpec
-----------------------------------------------------------------------------
(* Waits and states.  A thread that is about to execute an instruction is in   *)
(* no wait, whoever disables, wakes or forks its process again meanwhile.      *)

Executing(c) ==
    \/ Place(c) \in {"vm", "enqueue"}
    \/ Place(c) \in {"join", "store", "check"} /\ Loaded(c).child # c

ExecutingAreFree == \A c \in live : Executing(c) => wait_kind[c] = "NONE"

\* The process at the cursor may start to wait, and then leaves the VM.
StaysFree(p) == \/ wait_kind'[p] = "NONE"
                \/ stage = "threads" /\ p = cursor /\ cursor' = cursor /\ at' = "after"

\* One step keeps waits and states together, and starts a wait at the cursor only.
LEMMA ExecWaitsStep ==
  ASSUME ExecInv, WaitsMatchStates, ExecutingAreFree, [ExecNext]_execVars
  PROVE  /\ WaitsMatchStates'
         /\ \A p \in Procs : wait_kind[p] = "NONE" => StaysFree(p)
<1>0. ExecTypeOK /\ state \in [Procs -> {"READY", "BLOCKED", "DONE"}]
      /\ DOMAIN wait_kind = Procs /\ cursor \in Procs
  BY Known DEF ExecInv, ExecTypeOK, ProcsTyped
<1>1. CASE UNCHANGED waits
  BY <1>1 DEF waits, WaitsMatchStates, StaysFree
<1>2. CASE \E W : Wake(W)
  BY <1>2 DEF Wake, WaitsMatchStates, StaysFree
<1>3. CASE VmStep
  <2>0. stage = "threads" /\ at = "vm" /\ cursor \in live
    BY <1>0, <1>3, VmSteps, InsideThreads
  <2>1. PICK i \in Fetched : DisableBranch(i) \/ QueueLoad(i) \/ VmExec(i)
    BY <1>3, VmSteps
  <2>2. wait_kind[cursor] = "NONE"
    BY <2>0 DEF ExecutingAreFree, Executing, Place
  <2>3. CASE DisableBranch(i)
    BY <1>0, <2>3 DEF DisableBranch, WaitsMatchStates, StaysFree
  <2>4. CASE QueueLoad(i)
    BY <1>1, <2>4 DEF QueueLoad
  <2>5. CASE VmExec(i)
    <3>0. cursor' = cursor
      BY <1>0, <2>0, <2>5, VmEffects
    <3>1. CASE at' = "after" /\ BlocksOn(i)
      BY <1>0, <2>0, <3>0, <3>1 DEF BlocksOn, Block, WaitsMatchStates, StaysFree
    <3>2. CASE at' = "after" /\ Ends
      BY <1>0, <2>2, <3>2 DEF Ends, WaitsMatchStates, StaysFree
    <3>3. CASE at' = "after" /\ Fork(i)
      BY <1>0, <2>0, <3>0, <3>3 DEF Fork, WaitsMatchStates, StaysFree
    <3> QED
      BY <1>0, <1>1, <2>0, <2>5, <3>1, <3>2, <3>3, VmEffects
  <2> QED
    BY <2>1, <2>3, <2>4, <2>5
<1>4. CASE HostStep
  BY <1>1, <1>2, <1>4, HostWakes DEF waits
<1>5. CASE ExecLaunch \/ UNCHANGED execVars \/ RunEnded \/ \E p \in Procs : SwitchTo(p)
  BY <1>1, <1>5 DEF ExecLaunch, SwitchTo, RunEnded, Stopped, execVars, vars, procs
<1>6. CASE ThreadStep
  BY <1>1, <1>2, <1>3, <1>6 DEF ThreadStep, ThreadEnter, RunOn, LoopEnds, QueueStore, JoinLoad,
     JoinStore, JoinCheck, ThreadExit, procs
<1> QED
  BY <1>4, <1>5, <1>6 DEF ExecNext, HostStep, ReadyKernels

\* A thread gets to an instruction from another one, or at the start of an exec step.
LEMMA ExecutesOn ==
  ASSUME ExecInv, NEW c \in Procs, c \in live',
         ThreadStep \/ \E p \in Procs : SwitchTo(p),
         Executing(c)'
  PROVE  /\ stage = "threads" /\ c \in live
         /\ Executing(c) \/ state[c] = "READY"
<1>1. /\ stage = "threads" /\ live' \subseteq live /\ cursor \in Procs
      /\ thread \in [Procs -> ThreadLocals] /\ ExecTypeOK
  <2>1. ExecTypeOK /\ cursor \in Procs /\ thread \in [Procs -> ThreadLocals]
    BY Known DEF ExecInv, ExecTypeOK, ThreadsTyped
  <2>2. CASE VmStep
    <3>1. PICK i \in Fetched : DisableBranch(i) \/ QueueLoad(i) \/ VmExec(i)
      BY <2>2, VmSteps
    <3>2. stage = "threads" /\ UNCHANGED live
      BY <2>2, <3>1, VmSteps DEF DisableBranch, QueueLoad, VmExec, GoesTo, threads
    <3> QED
      BY <2>1, <3>2
  <2> QED
    BY <2>1, <2>2 DEF ThreadStep, ThreadEnter, RunOn, LoopEnds, QueueStore, JoinLoad, JoinStore,
       JoinCheck, ThreadExit, SwitchTo, GoesTo
<1>2. CASE ThreadExit
  <2>1. PICK p \in live' : GiveCursor(p, thread[p]) /\ thread' = [thread EXCEPT ![p] = Fresh]
    BY <1>2 DEF ThreadExit
  <2>2. c # cursor
    BY <1>2 DEF ThreadExit
  <2>3. Place(c)' = Place(c) /\ Loaded(c)' = Loaded(c)
    BY <1>1, <2>1, <2>2 DEF GiveCursor, Place, Loaded
  <2> QED
    BY <1>1, <2>3 DEF Executing
<1>3. ASSUME NEW p \in Procs, SwitchTo(p)
      PROVE  Executing(c)
  <2>1. Place(c)' = Place(c) /\ Loaded(c)' = Loaded(c)
    BY <1>1, <1>3 DEF SwitchTo, GiveCursor, Place, Loaded, Locals
  <2> QED
    BY <2>1 DEF Executing
<1>4. CASE ThreadStep /\ ~ThreadExit
  <2>1. UNCHANGED <<cursor, thread>>
    <3>1. CASE VmStep
      <4>1. PICK i \in Fetched : DisableBranch(i) \/ QueueLoad(i) \/ VmExec(i)
        BY <3>1, VmSteps
      <4>2. CASE VmExec(i)
        BY <1>1, <3>1, <4>2, VmSteps, VmEffects DEF threads
      <4> QED
        BY <4>1, <4>2 DEF DisableBranch, QueueLoad, GoesTo
    <3> QED
      BY <1>4, <3>1 DEF ThreadStep, ThreadEnter, RunOn, LoopEnds, QueueStore, JoinLoad,
         JoinStore, JoinCheck, GoesTo
  <2>2. CASE c # cursor
    <3>1. Place(c)' = Place(c) /\ Loaded(c)' = Loaded(c)
      BY <2>1, <2>2 DEF Place, Loaded
    <3> QED
      BY <1>1, <3>1 DEF Executing
  <2>3. CASE c = cursor
    <3>1. Place(c) = at /\ Loaded(c) = reg /\ Place(c)' = at' /\ Loaded(c)' = reg'
      BY <2>1, <2>3 DEF Place, Loaded
    <3>2. CASE VmStep
      BY <1>1, <3>1, <3>2, VmSteps DEF Executing
    <3>3. CASE ThreadEnter \/ RunOn \/ QueueStore
      BY <1>1, <2>3, <3>1, <3>3 DEF ThreadEnter, RunOn, QueueStore, GoesTo, Executing
    <3>4. CASE LoopEnds
      <4>1. at' = "exit" \/ (at' = "join" /\ reg'.child = c)
        BY <2>3, <3>4 DEF LoopEnds, GoesTo, Joining
      <4> QED
        BY <3>1, <4>1 DEF Executing
    <3>5. CASE JoinLoad \/ JoinStore \/ JoinCheck
      <4>1. at \in {"join", "store", "check"} /\ reg \in JoinLoads
        BY <1>1, <3>5 DEF JoinLoad, JoinStore, JoinCheck, ExecTypeOK, ThreadsTyped, LoadedAt
      <4>2. \/ at' = Caller
            \/ at' \in {"store", "check"} /\ reg'.child = reg.child
        BY <3>5, <4>1 DEF JoinLoad, JoinStore, JoinCheck, GoesTo, JoinLoads
      <4>3. reg.child # c
        BY <2>3, <3>1, <4>2 DEF Executing, Caller
      <4> QED
        BY <1>1, <3>1, <4>1, <4>3 DEF Executing
    <3> QED
      BY <1>4, <3>2, <3>3, <3>4, <3>5 DEF ThreadStep
  <2> QED
    BY <2>2, <2>3
<1> QED
  BY <1>1, <1>2, <1>3, <1>4

\* WaitsMatchStates: with any number of threads too a process in a wait is BLOCKED and
\* a READY process is in none, though sched_step, wait_eval, drains and the threads of
\* other processes all end waits, whatever is disabled meanwhile.
THEOREM ExecWaitsMatch == ExecSpec => []WaitsMatchStates
<1>1. ExecInit => WaitsMatchStates /\ ExecutingAreFree
  BY SchedulerAssumption DEF ExecInit, Init, WaitsMatchStates, ExecutingAreFree, Procs
<1>2. ExecInv /\ ExecInv' /\ WaitsMatchStates /\ ExecutingAreFree /\ [ExecNext]_execVars =>
          WaitsMatchStates' /\ ExecutingAreFree'
  <2> SUFFICES ASSUME ExecInv, ExecInv', WaitsMatchStates, ExecutingAreFree, [ExecNext]_execVars
               PROVE  WaitsMatchStates' /\ ExecutingAreFree'
    OBVIOUS
  <2>1. WaitsMatchStates' /\ \A p \in Procs : wait_kind[p] = "NONE" => StaysFree(p)
    BY ExecWaitsStep
  <2> SUFFICES ASSUME NEW c \in live', Executing(c)' PROVE wait_kind'[c] = "NONE"
    BY <2>1 DEF ExecutingAreFree
  <2>2. c \in Procs /\ live \subseteq Procs
    BY Known DEF ExecInv, ExecTypeOK, PipelineTyped
  <2>3. CASE ThreadStep \/ \E p \in Procs : SwitchTo(p)
    <3>1. wait_kind[c] = "NONE"
      BY <2>2, <2>3, ExecutesOn DEF ExecutingAreFree, ExecInv, ReadyAreFree
    <3>2. CASE c = cursor /\ cursor' = cursor /\ at' = "after"
      BY <3>2 DEF Executing, Place
    <3> QED
      BY <2>1, <2>2, <3>1, <3>2 DEF StaysFree
  <2>4. CASE HostStep \/ RunEnded
    <3>1. live' = {}
      BY <2>4, HostWakes, OutsideThreads DEF ExecInv, RunEnded, threads
    <3> QED
      BY <3>1
  <2>5. CASE ExecLaunch
    <3>1. at' = "enter" /\ thread'[c] = Fresh
      BY <2>2, <2>5, OutsideThreads DEF ExecInv, ExecTypeOK, ThreadsTyped, ExecLaunch, GiveCursor,
         Fresh
    <3> QED
      BY <3>1 DEF Executing, Place, Fresh
  <2>6. CASE UNCHANGED execVars
    BY <2>6 DEF execVars, vars, procs, waits, control, threads, Executing, Place, Loaded,
       ExecutingAreFree
  <2> QED
    BY <2>3, <2>4, <2>5, <2>6 DEF ExecNext, HostStep, ReadyKernels
<1> QED
  BY <1>1, <1>2, ExecInvHolds, PTL DEF ExecSpec
=============================================================================
