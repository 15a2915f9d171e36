------------------------------ MODULE ExecReady ------------------------------
(***************************************************************************)
(* The scheduler in exec-ready mode.  sched_step makes one turn of its     *)
(* loop; the kernels ready_reset, wait_eval, ready_flags, ready_compact    *)
(* and ready_dispatch then build a list of the READY processes, and        *)
(* exec_ready runs one GPU thread for each of them, all at the same time.  *)
(*                                                                         *)
(* The threads execute the instructions of Scheduler: cursor, at, burst,   *)
(* steps, finished, stopped and reg are the locals of the thread that      *)
(* takes the next step, and SwitchTo lets another one go on.  Between two  *)
(* barriers only what two threads may both write is split into its loads   *)
(* and stores: the join count of a common parent and the end of the        *)
(* delayed-`<=` queue.                                                     *)
(***************************************************************************)
EXTENDS Scheduler

CONSTANTS SchedBatch,  \* the kernels of an iteration share one command buffer
          ProcSteps    \* sched.max_proc_steps: exec steps of a thread

\* A `disable` of a root block and the compaction by an inertial assignment write
\* what other threads hold in registers; designs with them are left out.
ASSUME ExecReadyAssumption ==
    /\ ExecReadyMode /\ SchedBatch \in BOOLEAN /\ ProcSteps \in Nat \ {0}
    /\ \A p \in Procs : \A i \in Program[p] :
           i.op # "DISABLE_CROSS" /\ (i.op = "ASSIGN_DELAY" => ~i.inertial)

VARIABLES
    stage,       \* the kernel of the iteration that runs next
    flags,       \* sched_ready: the processes flagged as ready
    list,        \* the entries of the ready list below its count
    ready_count, \* the count, for all instances at ready_count[0]
    grid,        \* threadsPerGrid of the indirect dispatch
    live,        \* the threads of exec_ready that have not ended, by process
    thread,      \* the locals of the threads that do not have the cursor
    reg          \* what the thread at the cursor has loaded

pipeline == <<flags, list, ready_count, grid>>
threads == <<live, thread, reg>>
execVars == <<vars, stage, pipeline, threads>>

NoReg == [op |-> "NONE"]

Fresh == [at |-> "enter", burst |-> 0, steps |-> ProcSteps, finished |-> FALSE,
          stopped |-> FALSE, reg |-> NoReg]

Locals == [at |-> at, burst |-> burst, steps |-> steps, finished |-> finished,
           stopped |-> stopped, reg |-> reg]

\* The thread of process p, whose locals are t, takes the next steps.
GiveCursor(p, t) ==
    /\ cursor' = p /\ at' = t.at /\ burst' = t.burst /\ steps' = t.steps
    /\ finished' = t.finished /\ stopped' = t.stopped /\ reg' = t.reg

ExecInit ==
    /\ Init
    /\ stage = "sched_step"
    /\ flags = {} /\ list = {} /\ ready_count = 0 /\ grid = 1
    /\ live = {} /\ thread = [p \in Procs |-> Fresh] /\ reg = NoReg

----------------------------------------------------------------------------
(* The host iteration up to exec_ready.                                    *)

\* The host submits the next iteration unless the status has ended the run.
Submit(interrupted) ==
    /\ stage = "sched_step" /\ Dispatch(interrupted)
    /\ UNCHANGED <<stage, pipeline, threads>>

\* sched_step; when it returns the ready kernels follow.
SchedStep ==
    /\ stage = "sched_step"
    /\ \/ BeginActive \/ EndPass \/ ScanActive \/ CommitNba \/ WakeAfterNba
       \/ AdvanceTime \/ Quiesce \/ EndStep
    /\ stage' = IF at' = "host" THEN "ready_reset" ELSE stage
    /\ UNCHANGED <<pipeline, threads>>

\* The host drains after exec_ready and, unless all kernels are in one command
\* buffer, also after sched_step.
Drain ==
    /\ stage = "sched_step" \/ (stage = "ready_reset" /\ ~SchedBatch)
    /\ DrainServices
    /\ UNCHANGED <<stage, pipeline, threads>>

\* The list of the iteration before stays in the buffer.
ResetNothing ==
    /\ stage = "ready_reset" /\ stage' = "wait_eval"
    /\ UNCHANGED <<vars, pipeline, threads>>

ReadyReset ==
    /\ stage = "ready_reset" /\ stage' = "wait_eval"
    /\ ready_count' = 0 /\ list' = {}
    /\ UNCHANGED <<vars, flags, grid, threads>>

\* The waits that wait_eval finds over.
Elapsed == {p \in Procs :
    /\ state[p] = "BLOCKED"
    /\ \/ wait_kind[p] = "DELTA"
       \/ wait_kind[p] = "TIME" /\ wait_time[p] <= time
       \/ wait_kind[p] = "COND" /\ sig[wait_on[p].cond] = "1"}

\* A wake that leaves the wait kind.
WaitEvalStateOnly ==
    /\ stage = "wait_eval" /\ stage' = "ready_flags"
    /\ state' = [p \in Procs |-> IF phase = "ACTIVE" /\ p \in Elapsed THEN "READY" ELSE state[p]]
    /\ UNCHANGED <<wait_kind, wait_on, wait_time, join_count, ip, holding, data, clock,
                   outcome, control, pipeline, threads>>

\* Each thread looks at its own process only, so their order is immaterial.
WaitEval ==
    /\ stage = "wait_eval" /\ stage' = "ready_flags"
    /\ Wake(IF phase = "ACTIVE" THEN Elapsed ELSE {})
    /\ UNCHANGED <<wait_on, wait_time, join_count, ip, holding, data, clock, outcome,
                   control, pipeline, threads>>

ReadyFlags ==
    /\ stage = "ready_flags" /\ stage' = "ready_compact"
    /\ flags' = {p \in Procs : state[p] = "READY" /\ wait_kind[p] = "NONE"}
    /\ UNCHANGED <<vars, list, ready_count, grid, threads>>

Smaller(m, n) == IF m < n THEN m ELSE n

\* Every flagged process takes the next index of the list; indexes past its end
\* are counted and not stored.
ReadyCompact ==
    /\ stage = "ready_compact" /\ stage' = "ready_dispatch"
    /\ ready_count' = ready_count + Cardinality(flags)
    /\ \E stored \in SUBSET flags :
           /\ Cardinality(stored) = Smaller(Cardinality(flags),
                  IF ready_count < ProcCount THEN ProcCount - ready_count ELSE 0)
           /\ list' = list \cup stored
    /\ UNCHANGED <<vars, flags, grid, threads>>

\* One thread short.
DispatchOneLess ==
    /\ stage = "ready_dispatch" /\ stage' = "exec_ready"
    /\ grid' = IF ready_count > 1 THEN Smaller(ready_count, ProcCount) - 1 ELSE 1
    /\ UNCHANGED <<vars, flags, list, ready_count, threads>>

\* An indirect dispatch must have at least one thread.
ReadyDispatch ==
    /\ stage = "ready_dispatch" /\ stage' = "exec_ready"
    /\ grid' = IF ready_count > 0 THEN Smaller(ready_count, ProcCount) ELSE 1
    /\ UNCHANGED <<vars, flags, list, ready_count, threads>>

----------------------------------------------------------------------------
(* exec_ready: the threads.                                                *)

\* The dispatch starts: thread n runs entry n of the list, if there is one.
ExecLaunch ==
    /\ stage = "exec_ready" /\ live = {}
    /\ \E run \in SUBSET list :
           /\ Cardinality(run) = Smaller(grid, Cardinality(list))
           /\ live' = run
           /\ IF run = {} THEN UNCHANGED <<cursor, at, burst, steps, finished, stopped, reg>>
              ELSE \E p \in run : GiveCursor(p, Fresh)
    /\ stage' = IF live' = {} THEN "sched_step" ELSE "threads"
    /\ UNCHANGED <<procs, data, clock, error, status, did_work, pipeline, thread>>

\* Another thread gets ahead.
SwitchTo(p) ==
    /\ stage = "threads" /\ p \in live \ {cursor}
    /\ thread' = [thread EXCEPT ![cursor] = Locals, ![p] = Fresh]
    /\ GiveCursor(p, thread[p])
    /\ UNCHANGED <<procs, data, clock, error, status, did_work, stage, pipeline, live>>

\* The thread at the cursor goes on at place next.
GoesTo(next) ==
    /\ stage = "threads" /\ at' = next
    /\ UNCHANGED <<clock, status, finished, stopped, did_work, cursor, stage, pipeline, live,
                   thread>>

ThreadEnter ==
    /\ at = "enter"
    /\ GoesTo(IF state[cursor] = "READY" /\ wait_kind[cursor] = "NONE" THEN "after" ELSE "exit")
    /\ UNCHANGED <<procs, data, error, steps, burst, reg>>

\* `while (steps > 0 && state == READY)`: another exec step.
RunOn ==
    /\ at = "after" /\ steps > 0 /\ state[cursor] = "READY"
    /\ GoesTo("vm") /\ steps' = steps - 1 /\ burst' = 0
    /\ UNCHANGED <<procs, data, error, reg>>

Joining(c) == [child |-> c, left |-> 0]

\* A process that only waits counts as if it were over.
LoopEndsDoneOrNot ==
    /\ at = "after" /\ ~(steps > 0 /\ state[cursor] = "READY")
    /\ GoesTo("join") /\ reg' = Joining(cursor)
    /\ UNCHANGED <<procs, data, error, steps, burst>>

LoopEnds ==
    /\ at = "after" /\ ~(steps > 0 /\ state[cursor] = "READY")
    /\ IF state[cursor] = "DONE" THEN GoesTo("join") /\ reg' = Joining(cursor)
       ELSE GoesTo("exit") /\ UNCHANGED reg
    /\ UNCHANGED <<procs, data, error, steps, burst>>

\* Where the join code returns to: exec_ready, or the instruction that ended
\* another branch.
Caller == IF reg.child = cursor THEN "exit" ELSE "vm"

\* The parent waits for this branch: load its join count.
JoinLoad ==
    /\ at = "join"
    /\ LET p == Parent[reg.child]
       IN  IF p # NoParent /\ wait_kind[p] = "JOIN" /\ wait_on[p].tag = JoinTag[reg.child]
           THEN GoesTo("store") /\ reg' = [reg EXCEPT !.left = join_count[p]]
           ELSE GoesTo(Caller) /\ reg' = NoReg
    /\ UNCHANGED <<procs, data, error, steps, burst>>

\* Store the count less one, unless it was zero.
JoinStore ==
    /\ at = "store"
    /\ LET p == Parent[reg.child]
           left == IF reg.left > 0 THEN reg.left - 1 ELSE 0
       IN  /\ join_count' = IF reg.left > 0 THEN [join_count EXCEPT ![p] = left] ELSE join_count
           /\ reg' = [reg EXCEPT !.left = left]
    /\ GoesTo("check")
    /\ UNCHANGED <<waits, wait_time, ip, holding, data, error, steps, burst>>

\* The test for zero sees the stored value, or memory again: a compiler may do
\* either with a plain access.
JoinCheck ==
    /\ at = "check"
    /\ \E seen \in {reg.left, join_count[Parent[reg.child]]} :
           Wake(IF seen = 0 THEN {Parent[reg.child]} ELSE {})
    /\ GoesTo(Caller) /\ reg' = NoReg
    /\ UNCHANGED <<wait_on, wait_time, join_count, ip, holding, data, error, steps, burst>>

\* The halt of one thread is the status of the instance.
ThreadExit ==
    /\ stage = "threads" /\ at = "exit"
    /\ status' = CASE finished -> "FINISHED"
                   [] ~finished /\ stopped -> "STOPPED"
                   [] OTHER -> status
    /\ live' = live \ {cursor}
    /\ IF live' = {}
       THEN stage' = "sched_step" /\ GiveCursor(0, [Fresh EXCEPT !.at = "host", !.steps = 0])
                                  /\ UNCHANGED thread
       ELSE \E p \in live' : /\ GiveCursor(p, thread[p])
                             /\ thread' = [thread EXCEPT ![p] = Fresh] /\ UNCHANGED stage
    /\ UNCHANGED <<procs, data, clock, error, did_work, pipeline>>

----------------------------------------------------------------------------
(* The instructions whose memory accesses other threads can interleave.     *)

InVm == at = "vm" /\ burst < MaxBurst /\ burst' = burst + 1

\* DISABLE of a branch: end it, then count it like a branch that ends itself.
DisableBranch(i) ==
    /\ i.op = "DISABLE_CHILD" /\ InVm
    /\ IF state[i.pid] = "DONE" THEN UNCHANGED <<state, wait_kind>> /\ GoesTo("vm") /\ UNCHANGED reg
       ELSE /\ state' = [state EXCEPT ![i.pid] = "DONE"]
            /\ wait_kind' = [wait_kind EXCEPT ![i.pid] = "NONE"]
            /\ GoesTo("join") /\ reg' = Joining(i.pid)
    /\ ip' = [ip EXCEPT ![cursor] = Anywhere,
                        ![i.pid] = IF state[i.pid] = "DONE" THEN @ ELSE Anywhere]
    /\ UNCHANGED <<wait_on, wait_time, join_count, holding, data, error, steps>>

Queues(i) == i.op = "ASSIGN_DELAY" /\ i.nb /\ i.delay > 0 /\ ~holding[cursor]

\* `lhs <= #delay rhs`: evaluate, and load the length of the queue.
QueueLoad(i) ==
    /\ Queues(i) /\ InVm /\ time + i.delay <= Horizon
    /\ GoesTo("enqueue") /\ MovesOn
    /\ reg' = [slot |-> Cardinality(dnba), time |-> time + i.delay, id |-> i, val |-> Eval(i.rhs)]
    /\ UNCHANGED <<waits, wait_time, join_count, data, error, steps>>

\* Store the entry in the slot after the length loaded, and the new length.  Slots
\* past it are out of the queue.
QueueStore ==
    /\ at = "enqueue" /\ GoesTo("vm") /\ reg' = NoReg
    /\ IF reg.slot < MaxDnba
       THEN dnba' = {e \in dnba : e.slot < reg.slot} \cup {reg} /\ UNCHANGED error
       ELSE error' = TRUE /\ UNCHANGED dnba
    /\ UNCHANGED <<procs, sig, nb, held, pending, edge_prev, requests, steps, burst>>

\* One instruction of the process at the cursor.
VmStep ==
    /\ stage = "threads" /\ at = "vm"
    /\ \E i \in Fetched :
           IF i.op = "DISABLE_CHILD" \/ Queues(i)
           THEN DisableBranch(i) \/ QueueLoad(i)
           ELSE Exec(i) /\ UNCHANGED <<stage, pipeline, threads>>

----------------------------------------------------------------------------
(* The whole pipeline.                                                     *)

ReadyKernels == ReadyReset \/ WaitEval \/ ReadyFlags \/ ReadyCompact \/ ReadyDispatch \/ ExecLaunch

ThreadStep ==
    \/ ThreadEnter \/ RunOn \/ LoopEnds \/ VmStep \/ QueueStore
    \/ JoinLoad \/ JoinStore \/ JoinCheck \/ ThreadExit

RunEnded == stage = "sched_step" /\ Stopped /\ UNCHANGED <<stage, pipeline, threads>>

ExecNext ==
    \/ (\E interrupted \in BOOLEAN : Submit(interrupted))
    \/ SchedStep \/ Drain \/ ReadyKernels \/ ThreadStep
    \/ (\E p \in Procs : SwitchTo(p))
    \/ RunEnded

ExecSpec == ExecInit /\ [][ExecNext]_execVars

\* The GPU ends what is dispatched and runs each thread to its end; the host
\* keeps iterating and draining while the status lets it.
FairExecSpec ==
    /\ ExecSpec
    /\ WF_execVars(Submit(FALSE)) /\ WF_execVars(SchedStep) /\ WF_execVars(ReadyKernels)
    /\ WF_execVars(ThreadStep) /\ SF_execVars(Drain)

----------------------------------------------------------------------------
(* Properties.                                                             *)

\* Where sched_step can be when it does not run the processes, and where a thread can be.
SchedPlaces == {"host", "loop", "procs", "scan", "wake", "advance", "end"}
ThreadPlaces == {"enter", "vm", "after", "exit", "join", "store", "check", "enqueue"}

\* What a thread loads: a branch that has ended with the join count of its parent,
\* or an entry for the queue with the slot for it.
JoinLoads == [child : Procs, left : Nat]
QueueLoads == [slot : Nat, time : Nat, id : {i \in Delayed : i.nb}, val : Val]
LoadedAt(place, r) ==
    /\ place \in {"join", "store", "check"} => r \in JoinLoads
    /\ place \in {"store", "check"} => Parent[r.child] \in Procs
    /\ place = "enqueue" => r \in QueueLoads
    /\ place \notin {"join", "store", "check", "enqueue"} => r = NoReg

ThreadLocals == [at : ThreadPlaces, burst : 0 .. MaxBurst, steps : 0 .. ProcSteps,
                 finished : BOOLEAN, stopped : BOOLEAN,
                 reg : {NoReg} \cup JoinLoads \cup QueueLoads]

PipelineTyped ==
    /\ stage \in {"sched_step", "ready_reset", "wait_eval", "ready_flags", "ready_compact",
                  "ready_dispatch", "exec_ready", "threads"}
    /\ flags \subseteq Procs /\ list \subseteq Procs /\ live \subseteq Procs
    /\ ready_count \in 0 .. ProcCount /\ grid \in 1 .. ProcCount

\* The locals of each thread, at the cursor or put aside; outside the dispatch of
\* exec_ready there are none.
ThreadsTyped ==
    /\ thread \in [Procs -> ThreadLocals]
    /\ \A p \in Procs : LoadedAt(thread[p].at, thread[p].reg)
    /\ \A p \in Procs : p \notin live \ {cursor} => thread[p] = Fresh
    /\ stage = "threads" => cursor \in live /\ Locals \in ThreadLocals /\ LoadedAt(at, reg)
    /\ stage # "threads" => live = {} /\ at \in SchedPlaces /\ reg = NoReg
    /\ stage \notin {"sched_step", "threads"} => at = "host"

\* The type of every variable.
ExecTypeOK == ProcsTyped /\ DataTyped /\ CountersTyped /\ PipelineTyped /\ ThreadsTyped

\* No READY process misses a dispatch of exec_ready, whatever sched_step, wait_eval
\* or a drain has made ready since the last one, and no thread runs anything else.
ReadyAllRun ==
    [][stage = "exec_ready" => live' = Runnable]_execVars

\* A join returns only when every branch of its fork is over, although branches
\* that end at the same time load, store and test the count in any order.
JoinNeverEarly ==
    [][\A p \in Procs : wait_kind[p] = "JOIN" /\ wait_kind'[p] # "JOIN" =>
           \A c \in Children(p, wait_on[p].tag) : state[c] = "DONE"]_execVars

\* The active phase ends only when it is exhausted, though the processes run in
\* another kernel than the one that decides it: none is READY, in a delta wait,
\* or has been triggered.
ActiveExhausted ==
    [][phase = "ACTIVE" /\ phase' = "NBA" =>
           Runnable = {} /\ DeltaWaiters = {} /\ Triggered = {}]_execVars

----------------------------------------------------------------------------
(* What the documents say and exec-ready mode does not do.                 *)

\* docs/GPGA_SCHED_API.md, WAIT_JOIN: the parent resumes when all children with the
\* matching join tag have completed.  So between two dispatches a process in a
\* join has a branch that has not.
JoinersHaveBranches ==
    stage = "sched_step" => \A p \in Procs : wait_kind[p] = "JOIN" =>
        \E c \in Children(p, wait_on[p].tag) : state[c] # "DONE"

\* docs/GPGA_SCHED_API.md, PHASE_NBA: all scheduled `<=` are applied, race-free.  So
\* an entry leaves the queue only when it is due.
QueuedUntilDue ==
    [][\A e \in dnba : e.time > time =>
           \E f \in dnba' : f.time = e.time /\ f.id = e.id /\ f.val = e.val]_execVars

\* docs/GPGA_SCHED_API.md, PHASE_NBA: all `<=` scheduled in the active phase are
\* applied.  So until then only another assignment replaces a scheduled value.
ScheduledUntilApplied ==
    [][\A t \in NbOnly : nb[t] # sig[t] /\ nb'[t] # nb[t] => at = "vm"]_execVars

\* docs/GPGA_SCHED_API.md, WAIT_DELTA: the process resumes in the next delta
\* iteration, as it does in the serial scheduler that exec-ready mode is to equal.
\* So its wait ends only when nobody is left to run in the present one.
DeltaComesLast ==
    [][\A p \in DeltaWaiters : wait_kind'[p] # "DELTA" => Runnable = {}]_execVars

=============================================================================
