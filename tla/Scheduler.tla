------------------------------ MODULE Scheduler ------------------------------
(***************************************************************************)
(* The event scheduler that MSL codegen emits for one design instance: the *)
(* kernel gpga_<module>_sched_step, the bytecode VM it runs the processes  *)
(* with (gpga_<module>_sched_vm_exec), and the host that dispatches it.    *)
(*                                                                         *)
(* A process is abstracted to the set of instructions its bytecode holds:  *)
(* the jumps between them are not modelled, so a process may fetch any of  *)
(* its instructions next.  A property checked here holds for every order   *)
(* the compiled control flow can produce.  Signals are single 4-state bits.*)
(***************************************************************************)
EXTENDS Integers, FiniteSets

CONSTANTS
    ProcCount,   \* GPGA_SCHED_PROC_COUNT
    RootCount,   \* GPGA_SCHED_ROOT_COUNT: pids below are initial/always blocks
    Parent,      \* gpga_proc_parent: the process whose fork starts a child
    JoinTag,     \* gpga_proc_join_tag: the fork statement of a child
    Program,     \* the instructions of each process
    Regs,        \* the variables processes assign
    NbTargets,   \* the regs that some `<=` assigns
    Delayed,     \* the assignments with an intra-assignment delay
    Driver,      \* [net -> reg]: `assign net = reg`
    Events,      \* the named events
    ServiceStores,  \* what the services of a drain write: partial functions on Regs
    ServiceReturns, \* what a service can return
    Budgets,     \* sched.max_steps of a dispatch: --max-steps, or --vcd-steps
                 \* while a dump is active
    HasDumpvars, \* the design calls $dumpvars
    ExecReadyMode, \* GPGA_SCHED_FLAG_EXEC_READY: the kernel exec_ready runs the processes
    MaxDnba,     \* GPGA_SCHED_MAX_DNBA: capacity of the delayed-`<=` queue
    Horizon,     \* bound: no wait or delayed `<=` is due after this time
    MaxBurst     \* bound: instructions run without blocking in one exec step

Procs == 0 .. ProcCount - 1
NoParent == ProcCount                    \* GPGA_SCHED_NO_PARENT
Nets == DOMAIN Driver
Signals == Regs \cup Nets
Val == {"0", "1", "x"}
Children(p, tag) == {c \in Procs : Parent[c] = p /\ JoinTag[c] = tag}
Branches(p) == {c \in Procs \ {p} : Parent[c] # NoParent /\ Parent[c] \in {p, Parent[p]}}

EdgeKinds == {"ANY", "POSEDGE", "NEGEDGE"}

\* What EmitSchedulerVmStatements may emit for process p.  A `disable` of a
\* fork branch names an own branch or a sibling; any other cross-process `disable`
\* names a block of a root process (own blocks are jumps inside the bytecode).
Instructions(p) ==
    [op : {"ASSIGN", "ASSIGN_NB"}, lhs : Regs, rhs : Val \cup Signals]
      \cup Delayed
      \cup [op : {"EVENT_TRIGGER", "WAIT_EVENT"}, ev : Events]
      \cup [op : {"WAIT_EDGE"}, items : SUBSET (Signals \X EdgeKinds)]
      \cup [op : {"WAIT_COND"}, cond : Signals]
      \cup [op : {"WAIT_TIME"}, delay : Nat]
      \cup [op : {"FORK"}, tag : {JoinTag[c] : c \in {d \in Procs : Parent[d] = p}}]
      \cup [op : {"DISABLE_CHILD"}, pid : Branches(p)]
      \cup [op : {"DISABLE_CROSS"}, pid : (0 .. RootCount - 1) \ {p}]
      \cup [op : {"CALL", "TASK", "FINISH", "STOP", "FAIL", "DONE"}]

\* `lhs = #delay rhs`, or `<=` if nb; a specify path makes it inertial, with the
\* pulse limits reject and error.
DelayedAssign == [op : {"ASSIGN_DELAY"}, lhs : Regs, rhs : Val \cup Signals, delay : Nat,
                  nb : BOOLEAN, inertial : BOOLEAN, reject : Nat, error : Nat]

\* What is known of a process's sched_vm_ip: the instruction it points at, or,
\* the jumps left out, Anywhere.  A CALL is followed by its WAIT_SERVICE.
Anywhere == [op |-> "ANYWHERE"]
WaitServiceOp == [op |-> "WAIT_SERVICE"]

ASSUME SchedulerAssumption ==
    /\ ProcCount \in Nat \ {0} /\ RootCount \in 1 .. ProcCount
    /\ Budgets \subseteq Nat \ {0} /\ HasDumpvars \in BOOLEAN /\ MaxDnba \in Nat
    /\ ExecReadyMode \in BOOLEAN
    /\ Horizon \in Nat /\ MaxBurst \in Nat
    /\ NbTargets \subseteq Regs /\ Delayed \subseteq DelayedAssign
    /\ \A i \in Delayed : i.nb => i.lhs \in NbTargets
    /\ Driver \in [Nets -> Regs] /\ Nets \cap Regs = {}
    /\ Signals \cap Val = {}
    /\ \A w \in ServiceStores : DOMAIN w \subseteq Regs /\ w \in [DOMAIN w -> Val]
    /\ ServiceReturns \subseteq Nat
    /\ Parent \in [Procs -> Procs \cup {NoParent}] /\ JoinTag \in [Procs -> Nat]
    /\ \A p \in Procs : (Parent[p] = NoParent) <=> (p < RootCount)
    /\ \A p \in Procs : Parent[p] # p
    /\ DOMAIN Program = Procs
    /\ \A p \in Procs : Program[p] \subseteq Instructions(p)
    /\ \A p \in Procs : \A i \in Program[p] :
           i.op = "ASSIGN_NB" => i.lhs \in NbTargets
    /\ \A p, q \in Procs : p # q => Program[p] \cap Program[q] \cap Delayed = {}

VARIABLES
    state,       \* sched_state: READY, BLOCKED or DONE
    wait_kind,   \* sched_wait_kind
    wait_on,     \* sched_wait_id / sched_wait_event: the instruction waited in
    wait_time,   \* sched_wait_time: a wakeup, or the result of a service
    ip,          \* sched_vm_ip
    holding,     \* bit 31 of sched_wait_id: a delayed assignment is half done
    join_count,  \* sched_join_count
    time,        \* sched_time
    phase,       \* sched_phase: ACTIVE or NBA
    active_init, \* GPGA_SCHED_FLAG_ACTIVE_INIT
    pending,     \* sched_event_pending: the triggered events
    edge_prev,   \* sched_edge_prev: the values an edge wait compares with
    dnba,        \* sched_dnba: delayed `<=`, each in the slot it occupies
    sig,         \* gpga_state: the value of every signal
    nb,          \* gpga_nb: the next value of every NbTarget
    held,        \* sched_delay_val: the values delayed `=` will store
    requests,    \* the pids whose last undrained record in the service ring asks
                 \* for an answer
    error,       \* sched_error
    status,      \* sched_status
    steps, did_work, finished, stopped,   \* the locals of sched_step
    at,          \* where sched_step is; "host" between two dispatches
    cursor,      \* pid of the process loop of the active phase
    burst        \* instructions run so far by this exec step

waits == <<state, wait_kind, wait_on>>
procs == <<waits, wait_time, join_count, ip, holding>>
data  == <<sig, nb, held, pending, edge_prev, dnba, requests>>
clock == <<time, phase, active_init>>
outcome == <<error, status, finished, stopped>>
control == <<steps, did_work, at, cursor, burst>>
vars == <<procs, data, clock, outcome, control>>

NoWait == [op |-> "NONE"]

Init ==
    /\ state = [p \in Procs |-> IF p < RootCount THEN "READY" ELSE "BLOCKED"]
    /\ wait_kind = [p \in Procs |-> "NONE"]
    /\ wait_on = [p \in Procs |-> NoWait]
    /\ wait_time = [p \in Procs |-> 0]
    /\ join_count = [p \in Procs |-> 0]
    /\ ip = [p \in Procs |-> Anywhere] /\ holding = [p \in Procs |-> FALSE]
    /\ time = 0 /\ phase = "ACTIVE" /\ active_init = TRUE
    /\ pending = {} /\ dnba = {} /\ requests = {} /\ held = [i \in Delayed |-> "0"]
    /\ edge_prev = [p \in Procs |-> [s \in Signals |-> "0"]]
    /\ sig = [s \in Signals |-> "x"] /\ nb = [t \in NbTargets |-> "x"]
    /\ error = FALSE /\ status = "RUNNING"
    /\ finished = FALSE /\ stopped = FALSE
    /\ steps = 0 /\ did_work = FALSE /\ at = "host" /\ cursor = 0 /\ burst = 0

----------------------------------------------------------------------------
(* Signals: continuous assignments and edges.                              *)

\* emit_sched_comb_update: re-evaluate every continuous assignment.
Settle(s) == [x \in Signals |-> IF x \in Nets THEN s[Driver[x]] ELSE s[x]]

Eval(e) == IF e \in Signals THEN sig[e] ELSE e

EdgeFires(kind, prev, cur) ==
    CASE kind = "ANY"     -> prev # cur
      [] kind = "POSEDGE" -> (prev = "0" /\ cur # "0") \/ (prev = "x" /\ cur = "1")
      [] kind = "NEGEDGE" -> (prev = "1" /\ cur # "1") \/ (prev = "x" /\ cur = "0")

Watched(p) == IF wait_on[p].op = "WAIT_EDGE"
              THEN {item[1] : item \in wait_on[p].items} ELSE {}

\* The processes whose edge wait the scan evaluates, and whose previous values
\* it overwrites whether they fire or not.
EdgeWaiters == {p \in Procs : state[p] = "BLOCKED" /\ wait_kind[p] = "EDGE"}
Sampled == [p \in Procs |->
    [s \in Signals |-> IF p \in EdgeWaiters /\ s \in Watched(p)
                       THEN sig[s] ELSE edge_prev[p][s]]]

EdgeSeen(p) == \E item \in wait_on[p].items :
    EdgeFires(item[2], edge_prev[p][item[1]], sig[item[1]])

\* The blocked processes whose event, edge or condition the scan finds true.
Triggered == {p \in Procs :
    /\ state[p] = "BLOCKED"
    /\ \/ wait_kind[p] = "EVENT" /\ wait_on[p].ev \in pending
       \/ wait_kind[p] = "EDGE" /\ EdgeSeen(p)
       \/ wait_kind[p] = "COND" /\ sig[wait_on[p].cond] = "1"}

DeltaWaiters == {p \in Procs : state[p] = "BLOCKED" /\ wait_kind[p] = "DELTA"}
Runnable == {p \in Procs : state[p] = "READY"}

\* Wake every process of W.
Wake(W) ==
    /\ state' = [p \in Procs |-> IF p \in W THEN "READY" ELSE state[p]]
    /\ wait_kind' = [p \in Procs |-> IF p \in W THEN "NONE" ELSE wait_kind[p]]

----------------------------------------------------------------------------
(* The host loop around the kernel.                                        *)

\* should_stop; without $dumpvars the first IDLE ends the run as well.
Halted == \/ status \in {"FINISHED", "STOPPED", "ERROR"}
          \/ status = "IDLE" /\ ~HasDumpvars

\* RunMetal dispatches sched_step again until the status stops the run.  After
\* SIGINT or SIGTERM the dispatch runs nothing and reports STOPPED.
Dispatch(interrupted) ==
    /\ at = "host" /\ ~Halted
    /\ status' = "RUNNING"
    /\ \E budget \in Budgets : steps' = IF interrupted THEN 0 ELSE budget
    /\ finished' = FALSE /\ stopped' = interrupted
    /\ at' = "loop"
    /\ UNCHANGED <<procs, data, clock, error, did_work, cursor, burst>>

\* The processes a drain releases: resume_service checks that they wait.
Answered == {p \in requests : wait_kind[p] = "SERVICE"}

\* Released processes still marked as waiting.
DrainStateOnly ==
    /\ at = "host" /\ requests # {}
    /\ requests' = {}
    /\ state' = [p \in Procs |-> IF p \in Answered THEN "READY" ELSE state[p]]
    /\ UNCHANGED <<wait_kind, wait_on, wait_time, join_count, ip, holding, sig, nb, held,
                   pending, edge_prev, dnba, clock, outcome, control>>

\* drain_services takes every record in the ring.  HandleServiceRecords stores
\* what the services return (fgets, fread, fscanf, readmem) into the state buffer
\* and resume_service releases the processes.
DrainServices ==
    /\ at = "host" /\ requests # {}
    /\ requests' = {}
    /\ Wake(Answered)
    /\ \E ret \in [Answered -> ServiceReturns] :
           wait_time' = [p \in Procs |-> IF p \in Answered THEN ret[p] ELSE wait_time[p]]
    /\ \E w \in ServiceStores :
           sig' = [s \in Signals |-> IF s \in DOMAIN w THEN w[s] ELSE sig[s]]
    /\ UNCHANGED <<wait_on, join_count, ip, holding, nb, held, pending, edge_prev, dnba,
                   clock, outcome, control>>

\* The run loop has ended.
Stopped == at = "host" /\ Halted /\ UNCHANGED vars

----------------------------------------------------------------------------
(* sched_step: the active phase.                                           *)

Due == {e \in dnba : e.time <= time}
LastDue(t) == {e \in Due : e.id.lhs = t /\ \A f \in Due : f.id.lhs = t => f.slot <= e.slot}

\* The NBA buffer at the start of a delta: the current values, overwritten in
\* queue order by the delayed `<=` that are due.
NbSnapshot == [t \in NbTargets |->
    IF LastDue(t) = {} THEN sig[t] ELSE (CHOOSE e \in LastDue(t) : TRUE).val]

\* Entries that stay where they are.
NotCompacted(kept) == kept

\* Entries that are kept move down, in order, to the first slots.
Compacted(kept) ==
    {[e EXCEPT !.slot = Cardinality({f \in kept : f.slot < e.slot})] : e \in kept}

\* A snapshot on every pass of the delta.
BeginEveryPass ==
    /\ at = "loop" /\ steps > 0 /\ phase = "ACTIVE"
    /\ did_work' = FALSE
    /\ nb' = NbSnapshot /\ dnba' = Compacted(dnba \ Due)
    /\ active_init' = FALSE
    /\ sig' = Settle(sig)
    /\ at' = "procs" /\ cursor' = 0
    /\ UNCHANGED <<procs, held, requests, pending, edge_prev, time, phase, outcome,
                   steps, burst>>

\* One turn of `while (steps > 0)` in the active phase, up to the process loop.
BeginActive ==
    /\ at = "loop" /\ steps > 0 /\ phase = "ACTIVE"
    /\ did_work' = FALSE
    /\ nb' = IF active_init THEN NbSnapshot ELSE nb
    /\ dnba' = IF active_init THEN Compacted(dnba \ Due) ELSE dnba
    /\ active_init' = FALSE
    /\ sig' = Settle(sig)
    /\ at' = "procs" /\ cursor' = 0
    /\ UNCHANGED <<procs, held, requests, pending, edge_prev, time, phase, outcome,
                   steps, burst>>

\* A process loop that does not look at the budget.
RunWithoutBudget(p) ==
    /\ at = "procs"
    /\ p >= cursor /\ p \in Runnable
    /\ \A q \in Runnable : q >= cursor => q >= p
    /\ cursor' = p /\ steps' = steps - 1 /\ did_work' = TRUE
    /\ at' = "vm" /\ burst' = 0
    /\ UNCHANGED <<procs, data, clock, outcome>>

\* The process loop runs every READY process, in pid order, until it blocks.
RunNext(p) ==
    /\ at = "procs" /\ steps > 0 /\ ~ExecReadyMode
    /\ p >= cursor /\ p \in Runnable
    /\ \A q \in Runnable : q >= cursor => q >= p
    /\ cursor' = p /\ steps' = steps - 1 /\ did_work' = TRUE
    /\ at' = "vm" /\ burst' = 0
    /\ UNCHANGED <<procs, data, clock, outcome>>

\* Any child counts, whatever fork its parent waits for.
CountAnyJoin(c, st, wk) ==
    LET p == Parent[c]
        left == IF join_count[p] > 0 THEN join_count[p] - 1 ELSE 0
    IN  IF p # NoParent /\ wait_kind[p] = "JOIN"
        THEN /\ join_count' = [join_count EXCEPT ![p] = left]
             /\ state' = IF left = 0 THEN [st EXCEPT ![p] = "READY"] ELSE st
             /\ wait_kind' = IF left = 0 THEN [wk EXCEPT ![p] = "NONE"] ELSE wk
        ELSE state' = st /\ wait_kind' = wk /\ join_count' = join_count

\* A DONE child c counts towards the join its parent waits in, if it is the
\* join of its own fork; st and wk are sched_state and sched_wait_kind so far.
CountJoin(c, st, wk) ==
    LET p == Parent[c]
        left == IF join_count[p] > 0 THEN join_count[p] - 1 ELSE 0
    IN  IF p # NoParent /\ wait_kind[p] = "JOIN" /\ wait_on[p].tag = JoinTag[c]
        THEN /\ join_count' = [join_count EXCEPT ![p] = left]
             /\ state' = IF left = 0 THEN [st EXCEPT ![p] = "READY"] ELSE st
             /\ wait_kind' = IF left = 0 THEN [wk EXCEPT ![p] = "NONE"] ELSE wk
        ELSE state' = st /\ wait_kind' = wk /\ join_count' = join_count

\* After sched_exec_step: a process that is DONE is counted.
ExecReturns ==
    /\ at = "after" /\ at' = "procs"
    /\ IF state[cursor] = "DONE" THEN CountJoin(cursor, state, wait_kind)
       ELSE UNCHANGED <<state, wait_kind, join_count>>
    /\ UNCHANGED <<wait_on, wait_time, ip, holding, data, clock, outcome,
                   steps, did_work, cursor, burst>>

\* A pass that goes back to the loop head after each process.
EndPassEarly ==
    /\ at = "procs"
    /\ did_work' = (did_work \/ Runnable # {})
    /\ at' = IF did_work' THEN "loop" ELSE "scan"
    /\ UNCHANGED <<procs, data, clock, outcome, steps, cursor, burst>>

\* In exec-ready mode sched_step makes one turn and leaves the rest to exec_ready.
StepsLeft == IF ExecReadyMode THEN 0 ELSE steps

\* A pass that asks only whether its own process loop has run something.
EndPassOwnWork ==
    /\ at = "procs"
    /\ ExecReadyMode \/ steps = 0 \/ \A p \in Runnable : p < cursor
    /\ at' = IF did_work THEN "loop" ELSE "scan"
    /\ steps' = IF did_work THEN StepsLeft ELSE steps
    /\ UNCHANGED <<procs, data, clock, outcome, did_work, cursor, burst>>

\* The process loop is over; with no work done the waits are scanned.
EndPass ==
    /\ at = "procs"
    /\ ExecReadyMode \/ steps = 0 \/ \A p \in Runnable : p < cursor
    /\ did_work' = (did_work \/ Runnable # {})
    /\ at' = IF did_work' THEN "loop" ELSE "scan"
    /\ steps' = IF did_work' THEN StepsLeft ELSE steps
    /\ UNCHANGED <<procs, data, clock, outcome, cursor, burst>>

\* The active phase has nothing to run: wake what can continue in this delta,
\* else go to the NBA phase.  Events are consumed either way.
ScanActive ==
    /\ at = "scan"
    /\ Wake(Triggered \cup DeltaWaiters)
    /\ edge_prev' = Sampled /\ pending' = {}
    /\ phase' = IF Triggered \cup DeltaWaiters = {} THEN "NBA" ELSE "ACTIVE"
    /\ at' = "loop" /\ steps' = StepsLeft
    /\ UNCHANGED <<wait_on, wait_time, join_count, ip, holding, sig, nb, held, dnba,
                   requests, time, active_init, outcome, did_work, cursor, burst>>

----------------------------------------------------------------------------
(* sched_step: the NBA phase and the advance of time.                      *)

Committed == [s \in Signals |-> IF s \in NbTargets THEN nb[s] ELSE sig[s]]

\* A commit that does not update the nets.
CommitUnsettled ==
    /\ at = "loop" /\ steps > 0 /\ phase = "NBA"
    /\ sig' = Committed
    /\ did_work' = FALSE /\ at' = "wake"
    /\ UNCHANGED <<procs, nb, held, pending, edge_prev, dnba, requests, clock, outcome,
                   steps, cursor, burst>>

\* Every NbTarget takes its next value, whether a `<=` was executed or not.
CommitNba ==
    /\ at = "loop" /\ steps > 0 /\ phase = "NBA"
    /\ sig' = Settle(Committed)
    /\ did_work' = FALSE /\ at' = "wake"
    /\ UNCHANGED <<procs, nb, held, pending, edge_prev, dnba, requests, clock, outcome,
                   steps, cursor, burst>>

\* A scan after the commit that leaves the conditions out.
WakeButCond ==
    /\ at = "wake"
    /\ LET woken == {p \in Triggered : wait_kind[p] # "COND"}
       IN  /\ Wake(woken)
           /\ IF woken \cup Runnable # {}
              THEN phase' = "ACTIVE" /\ active_init' = TRUE /\ at' = "loop"
              ELSE at' = "advance" /\ UNCHANGED <<phase, active_init>>
    /\ edge_prev' = Sampled /\ pending' = {}
    /\ UNCHANGED <<wait_on, wait_time, join_count, ip, holding, sig, nb, held, dnba,
                   requests, time, outcome, steps, did_work, cursor, burst>>

\* The changes made by the commit start another delta if they wake a process.
WakeAfterNba ==
    /\ at = "wake"
    /\ Wake(Triggered)
    /\ edge_prev' = Sampled /\ pending' = {}
    /\ IF Triggered \cup Runnable # {}
       THEN phase' = "ACTIVE" /\ active_init' = TRUE /\ at' = "loop" /\ steps' = StepsLeft
       ELSE at' = "advance" /\ UNCHANGED <<phase, active_init, steps>>
    /\ UNCHANGED <<wait_on, wait_time, join_count, ip, holding, sig, nb, held, dnba,
                   requests, time, outcome, did_work, cursor, burst>>

Sleepers == {p \in Procs : wait_kind[p] = "TIME"}
DelayedOnly == {e.time : e \in dnba}
SleepersOnly == {wait_time[p] : p \in Sleepers}
Deadlines == {wait_time[p] : p \in Sleepers} \cup {e.time : e \in dnba}

\* Time jumps to the earliest wakeup; the processes due exactly then wake.
AdvanceTime ==
    /\ at = "advance"
    /\ \E next \in Deadlines :
           /\ \A t \in Deadlines : next <= t
           /\ time' = next
           /\ Wake({p \in Sleepers : wait_time[p] = next})
    /\ phase' = "ACTIVE" /\ active_init' = TRUE /\ at' = "loop" /\ steps' = StepsLeft
    /\ UNCHANGED <<wait_on, wait_time, join_count, ip, holding, data, outcome,
                   did_work, cursor, burst>>

\* The scheduler finishes while the host still owes an answer.
QuiesceForGood ==
    /\ at = "advance" /\ Deadlines = {}
    /\ finished' = TRUE
    /\ at' = "end"
    /\ UNCHANGED <<procs, data, clock, error, status, stopped,
                   steps, did_work, cursor, burst>>

\* Nothing is left to wait for but a service: leave it to the host.  Without
\* even that the simulation is finished.
Quiesce ==
    /\ at = "advance" /\ Deadlines = {}
    /\ finished' = (finished \/ \A p \in Procs : wait_kind[p] # "SERVICE")
    /\ at' = "end"
    /\ UNCHANGED <<procs, data, clock, error, status, stopped,
                   steps, did_work, cursor, burst>>

\* The status a dispatch reports when it leaves the loop.
EndStep ==
    /\ at = "end" \/ (at = "loop" /\ steps = 0)
    /\ status' = CASE error -> "ERROR"
                   [] ~error /\ finished -> "FINISHED"
                   [] ~error /\ ~finished /\ stopped -> "STOPPED"
                   [] OTHER -> "IDLE"
    /\ at' = "host"
    /\ steps' = 0 /\ did_work' = FALSE
    /\ UNCHANGED <<procs, data, clock, error, finished, stopped, cursor, burst>>

----------------------------------------------------------------------------
(* The VM: one action per instruction of the process at the cursor.        *)

\* The interpreter loop goes on after the instruction.
Continues == at = "vm" /\ burst < MaxBurst /\ burst' = burst + 1
             /\ UNCHANGED <<clock, status, finished, stopped, steps, did_work, at, cursor>>

\* The instruction ends the exec step.
Returns == at = "vm" /\ at' = "after" /\ burst' = 0
           /\ UNCHANGED <<clock, status, did_work, cursor>>
Yields == Returns /\ UNCHANGED <<finished, stopped, steps>>

\* The process at the cursor points at next, and its sched_wait_id has the delay
\* bit iff h.
PointsAt(next, h) ==
    ip' = [ip EXCEPT ![cursor] = next] /\ holding' = [holding EXCEPT ![cursor] = h]
MovesOn == PointsAt(Anywhere, holding[cursor])

\* exec_assign_blocking: writes the state buffer, never the NBA buffer.
Assign(i) ==
    /\ i.op = "ASSIGN" /\ Continues /\ MovesOn
    /\ sig' = [sig EXCEPT ![i.lhs] = Eval(i.rhs)]
    /\ UNCHANGED <<waits, wait_time, join_count, nb, held, pending, edge_prev, dnba,
                   requests, error>>

\* exec_assign_nb: writes the NBA buffer.
AssignNb(i) ==
    /\ i.op = "ASSIGN_NB" /\ Continues /\ MovesOn
    /\ nb' = [nb EXCEPT ![i.lhs] = Eval(i.rhs)]
    /\ UNCHANGED <<waits, wait_time, join_count, sig, held, pending, edge_prev, dnba,
                   requests, error>>

\* Block the process at the cursor in the wait of instruction i.
Block(kind, i) ==
    /\ state' = [state EXCEPT ![cursor] = "BLOCKED"]
    /\ wait_kind' = [wait_kind EXCEPT ![cursor] = kind]
    /\ wait_on' = [wait_on EXCEPT ![cursor] = i]

\* ASSIGN_DELAY with the delay bit set, as after the wait of a delayed `=`: it
\* stores the held value, whatever kind of assignment it is.
StoreHeld(i) ==
    /\ i.op = "ASSIGN_DELAY" /\ holding[cursor] /\ Continues /\ PointsAt(Anywhere, FALSE)
    /\ sig' = [sig EXCEPT ![i.lhs] = held[i]]
    /\ UNCHANGED <<waits, wait_time, join_count, nb, held, pending, edge_prev, dnba,
                   requests, error>>

\* `lhs = #delay rhs`: hold the value and come back to this instruction.
AssignDelay(i) ==
    /\ i.op = "ASSIGN_DELAY" /\ ~i.nb /\ ~holding[cursor] /\ time + i.delay <= Horizon
    /\ IF i.delay = 0
       THEN /\ Continues /\ MovesOn
            /\ sig' = [sig EXCEPT ![i.lhs] = Eval(i.rhs)]
            /\ UNCHANGED <<waits, wait_time, held>>
       ELSE /\ Yields /\ Block("TIME", i) /\ PointsAt(i, TRUE)
            /\ wait_time' = [wait_time EXCEPT ![cursor] = time + i.delay]
            /\ held' = [held EXCEPT ![i] = Eval(i.rhs)]
            /\ UNCHANGED sig
    /\ UNCHANGED <<join_count, nb, pending, edge_prev, dnba, requests, error>>

\* The entries an inertial assignment cancels, and how close its own wakeup is to
\* theirs: a pulse nearer than the reject limit disappears, one nearer than the
\* error limit becomes x.
Cancelled(i) == IF i.inertial THEN {e \in dnba : e.id = i} ELSE {}
PulseWithin(i, limit) == \E e \in Cancelled(i) :
    IF time + i.delay >= e.time THEN time + i.delay - e.time < limit
                                ELSE e.time - (time + i.delay) < limit

\* `lhs <= #delay rhs`: into the NBA buffer, the queue, or, the queue full, an
\* error that the process does not notice.
AssignDelayNb(i) ==
    /\ i.op = "ASSIGN_DELAY" /\ i.nb /\ ~holding[cursor] /\ time + i.delay <= Horizon
    /\ Continues /\ MovesOn
    /\ IF i.delay = 0
       THEN nb' = [nb EXCEPT ![i.lhs] = Eval(i.rhs)] /\ UNCHANGED <<dnba, error>>
       ELSE LET kept == Compacted(dnba \ Cancelled(i))
                full == Cardinality(kept) >= MaxDnba
                entry == [slot |-> Cardinality(kept), time |-> time + i.delay, id |-> i,
                          val |-> IF PulseWithin(i, i.error) THEN "x" ELSE Eval(i.rhs)]
            IN  /\ dnba' = IF full \/ PulseWithin(i, i.reject) THEN kept
                           ELSE kept \cup {entry}
                /\ error' = (error \/ (full /\ ~PulseWithin(i, i.reject)))
                /\ UNCHANGED nb
    /\ UNCHANGED <<waits, wait_time, join_count, sig, held, pending, edge_prev, requests>>

EventTrigger(i) ==
    /\ i.op = "EVENT_TRIGGER" /\ Continues /\ MovesOn
    /\ pending' = pending \cup {i.ev}
    /\ UNCHANGED <<waits, wait_time, join_count, sig, nb, held, edge_prev, dnba, requests,
                   error>>

\* After an error anywhere in the design a process that would sleep ends instead.
WaitTime(i) ==
    /\ i.op = "WAIT_TIME" /\ Yields /\ MovesOn /\ time + i.delay <= Horizon
    /\ IF error
       THEN /\ state' = [state EXCEPT ![cursor] = "DONE"]
            /\ UNCHANGED <<wait_kind, wait_on, wait_time>>
       ELSE /\ Block(IF i.delay = 0 THEN "DELTA" ELSE "TIME", i)
            /\ wait_time' = [wait_time EXCEPT ![cursor] = time + i.delay]
    /\ UNCHANGED <<join_count, data, error>>

WaitEvent(i) ==
    /\ i.op = "WAIT_EVENT" /\ Yields /\ MovesOn /\ Block("EVENT", i)
    /\ UNCHANGED <<wait_time, join_count, data, error>>

\* The wait starts from the values its signals have now.
WaitEdge(i) ==
    /\ i.op = "WAIT_EDGE" /\ Yields /\ PointsAt(Anywhere, FALSE) /\ Block("EDGE", i)
    /\ edge_prev' = [edge_prev EXCEPT ![cursor] =
           [s \in Signals |-> IF \E item \in i.items : item[1] = s
                              THEN sig[s] ELSE edge_prev[cursor][s]]]
    /\ UNCHANGED <<wait_time, join_count, sig, nb, held, pending, dnba, requests, error>>

\* A condition that is already true does not block.
WaitCond(i) ==
    /\ i.op = "WAIT_COND"
    /\ \/ sig[i.cond] = "1" /\ Continues /\ MovesOn /\ UNCHANGED waits
       \/ sig[i.cond] # "1" /\ Yields /\ PointsAt(Anywhere, FALSE) /\ Block("COND", i)
    /\ UNCHANGED <<wait_time, join_count, data, error>>

\* The delay bits once a fork has set the sched_wait_id of its parent only.
KeepChildHold(kids) == [p \in Procs |-> p # cursor /\ holding[p]]

\* The delay bits once a fork has set the sched_wait_id of parent and children.
ClearHold(kids) == [p \in Procs |-> p \notin kids \cup {cursor} /\ holding[p]]

\* Every child of the fork restarts, whatever it was doing.
Fork(i) ==
    LET kids == Children(cursor, i.tag)
    IN  /\ i.op = "FORK" /\ Yields
        /\ state' = [p \in Procs |-> IF p = cursor THEN "BLOCKED"
                                     ELSE IF p \in kids THEN "READY" ELSE state[p]]
        /\ wait_kind' = [p \in Procs |-> IF p = cursor THEN "JOIN"
                                         ELSE IF p \in kids THEN "NONE" ELSE wait_kind[p]]
        /\ wait_on' = [p \in Procs |-> IF p = cursor THEN i
                                       ELSE IF p \in kids THEN NoWait ELSE wait_on[p]]
        /\ wait_time' = [p \in Procs |-> IF p \in kids THEN 0 ELSE wait_time[p]]
        /\ join_count' = [p \in Procs |-> IF p = cursor THEN Cardinality(kids)
                                          ELSE IF p \in kids THEN 0 ELSE join_count[p]]
        /\ ip' = [p \in Procs |-> IF p \in kids \cup {cursor} THEN Anywhere ELSE ip[p]]
        /\ holding' = ClearHold(kids)
        /\ UNCHANGED <<data, error>>

\* `disable` of a fork branch ends it and counts it towards the join.
DisableChild(i) ==
    /\ i.op = "DISABLE_CHILD" /\ Continues
    /\ IF state[i.pid] = "DONE" THEN UNCHANGED <<state, wait_kind, join_count>>
       ELSE CountJoin(i.pid, [state EXCEPT ![i.pid] = "DONE"],
                             [wait_kind EXCEPT ![i.pid] = "NONE"])
    /\ ip' = [ip EXCEPT ![cursor] = Anywhere,
                        ![i.pid] = IF state[i.pid] = "DONE" THEN @ ELSE Anywhere]
    /\ UNCHANGED <<wait_on, wait_time, holding, data, error>>

\* The target is made READY but its wait is kept.
DisableCrossKeepsWait(i) ==
    /\ i.op = "DISABLE_CROSS" /\ Continues
    /\ state' = [state EXCEPT ![i.pid] = "READY"]
    /\ ip' = [ip EXCEPT ![cursor] = Anywhere, ![i.pid] = Anywhere]
    /\ UNCHANGED <<wait_kind, wait_on, wait_time, join_count, holding, data, error>>

\* `disable` of another process's block makes that process continue after it.
DisableCross(i) ==
    /\ i.op = "DISABLE_CROSS" /\ Continues
    /\ state' = [state EXCEPT ![i.pid] = "READY"]
    /\ wait_kind' = [wait_kind EXCEPT ![i.pid] = "NONE"]
    /\ ip' = [ip EXCEPT ![cursor] = Anywhere, ![i.pid] = Anywhere]
    /\ UNCHANGED <<wait_on, wait_time, join_count, holding, data, error>>

\* SERVICE_CALL publishes a record: of a function (CALL), whose WAIT_SERVICE is
\* next, or of a system task.  With no step left it gives up the VM.
ServiceCall(i) ==
    /\ i.op \in {"CALL", "TASK"}
    /\ IF steps = 0 THEN Yields ELSE Continues
    /\ PointsAt(IF i.op = "CALL" THEN WaitServiceOp ELSE Anywhere, holding[cursor])
    /\ requests' = IF i.op = "CALL" THEN requests \cup {cursor} ELSE requests \ {cursor}
    /\ UNCHANGED <<waits, wait_time, join_count, sig, nb, held, pending, edge_prev, dnba,
                   error>>

WaitService(i) ==
    /\ i.op = "WAIT_SERVICE" /\ Yields /\ MovesOn /\ Block("SERVICE", i)
    /\ wait_time' = [wait_time EXCEPT ![cursor] = 0]
    /\ UNCHANGED <<join_count, data, error>>

\* SERVICE_CALL of $finish, which ends the process too, or of $stop, which leaves
\* it READY.  Both end the dispatch.
Halt(i) ==
    /\ i.op \in {"FINISH", "STOP"} /\ Returns /\ MovesOn
    /\ finished' = (finished \/ i.op = "FINISH")
    /\ stopped' = (stopped \/ i.op = "STOP")
    /\ state' = [state EXCEPT ![cursor] = IF i.op = "FINISH" THEN "DONE" ELSE @]
    /\ steps' = 0
    /\ requests' = requests \ {cursor}
    /\ UNCHANGED <<wait_kind, wait_on, wait_time, join_count, sig, nb, held, pending,
                   edge_prev, dnba, error>>

\* DONE, and every error exit of the interpreter (FAIL).
Done(i) ==
    /\ i.op \in {"DONE", "FAIL"} /\ Yields /\ MovesOn
    /\ state' = [state EXCEPT ![cursor] = "DONE"]
    /\ error' = (error \/ i.op = "FAIL")
    /\ UNCHANGED <<wait_kind, wait_on, wait_time, join_count, data>>

Exec(i) ==
    \/ Assign(i) \/ AssignNb(i) \/ StoreHeld(i) \/ AssignDelay(i) \/ AssignDelayNb(i)
    \/ EventTrigger(i) \/ WaitTime(i) \/ WaitEvent(i) \/ WaitEdge(i) \/ WaitCond(i)
    \/ Fork(i) \/ DisableChild(i) \/ DisableCross(i)
    \/ ServiceCall(i) \/ WaitService(i) \/ Halt(i) \/ Done(i)

\* What the process at the cursor may fetch.
Fetched == IF ip[cursor] = Anywhere THEN Program[cursor] ELSE {ip[cursor]}

Kernel ==
    \/ BeginActive \/ (\E p \in Procs : RunNext(p)) \/ ExecReturns \/ EndPass
    \/ ScanActive \/ CommitNba \/ WakeAfterNba \/ AdvanceTime \/ Quiesce \/ EndStep
    \/ \E i \in Fetched : Exec(i)

Next ==
    \/ (\E interrupted \in BOOLEAN : Dispatch(interrupted))
    \/ DrainServices \/ Stopped
    \/ Kernel

Spec == Init /\ [][Next]_vars

\* A dispatched kernel runs on, and the host dispatches and serves as long as
\* the status does not stop the run.
FairSpec == Spec /\ WF_vars(Kernel) /\ WF_vars(Dispatch(FALSE))
                 /\ SF_vars(DrainServices)

----------------------------------------------------------------------------
(* Properties.                                                             *)

Statements == UNION {Program[p] : p \in Procs}

\* What is kept per process.
ProcsTyped ==
    /\ state \in [Procs -> {"READY", "BLOCKED", "DONE"}]
    /\ wait_kind \in [Procs -> {"NONE", "TIME", "EVENT", "COND", "JOIN",
                                "DELTA", "EDGE", "SERVICE"}]
    /\ wait_on \in [Procs -> {NoWait, WaitServiceOp} \cup Statements]
    /\ ip \in [Procs -> {Anywhere, WaitServiceOp} \cup (Delayed \cap Statements)]
    /\ holding \in [Procs -> BOOLEAN]
    /\ wait_time \in [Procs -> Nat] /\ join_count \in [Procs -> Nat]

\* What the processes and the host write.
DataTyped ==
    /\ pending \subseteq Events /\ edge_prev \in [Procs -> [Signals -> Val]]
    /\ dnba \subseteq [slot : Nat, time : Nat, id : {i \in Delayed : i.nb}, val : Val]
    /\ IsFiniteSet(dnba)
    /\ held \in [Delayed -> Val] /\ requests \subseteq Procs
    /\ sig \in [Signals -> Val] /\ nb \in [NbTargets -> Val]

\* The clock, what the kernel reports and the locals of sched_step.
CountersTyped ==
    /\ time \in Nat /\ phase \in {"ACTIVE", "NBA"} /\ active_init \in BOOLEAN
    /\ error \in BOOLEAN /\ finished \in BOOLEAN /\ stopped \in BOOLEAN
    /\ status \in {"RUNNING", "IDLE", "FINISHED", "STOPPED", "ERROR"}
    /\ steps \in Nat /\ did_work \in BOOLEAN
    /\ cursor \in Procs /\ burst \in 0 .. MaxBurst

\* And where sched_step is.
ControlTyped ==
    /\ CountersTyped
    /\ at \in {"host", "loop", "procs", "vm", "after", "scan", "wake", "advance", "end"}

\* The type of every variable.
TypeOK == ProcsTyped /\ DataTyped /\ ControlTyped

\* A process in a wait is BLOCKED and a READY process is in none, so the scans,
\* which look at either one of the two arrays, agree on who can run.
WaitsMatchStates ==
    \A p \in Procs :
        /\ state[p] = "READY" => wait_kind[p] = "NONE"
        /\ state[p] = "BLOCKED" /\ wait_kind[p] = "NONE" => p >= RootCount
        /\ wait_kind[p] # "NONE" => state[p] = "BLOCKED"

\* The branches of the fork p waits in that are not over.  The end of the exec step
\* that has just ended is counted when ExecReturns runs.
Outstanding(p) == {c \in Children(p, wait_on[p].tag) :
    state[c] # "DONE" \/ (at = "after" /\ c = cursor)}

\* A forking process waits for exactly the branches of its fork that are not
\* over, through every order of branches ending, being disabled by a sibling,
\* restarting, and the parent itself being disabled and forking again.
JoinAccounting ==
    \A p \in Procs : wait_kind[p] = "JOIN" =>
        join_count[p] > 0 /\ join_count[p] = Cardinality(Outstanding(p))

\* No timed wakeup is overtaken: sleepers and delayed `<=` are woken at equality
\* only, so one that time passed would never be served.
NoOversleep ==
    /\ \A p \in Procs : wait_kind[p] = "TIME" => wait_time[p] > time
    /\ \A e \in dnba : e.time > time \/ (active_init /\ e.time = time)

\* The delayed `<=` fill the first slots of the queue, one each: compaction
\* loses none and the next entry overwrites none.
DnbaSlotsDense ==
    /\ Cardinality(dnba) <= MaxDnba
    /\ {e.slot : e \in dnba} = 0 .. Cardinality(dnba) - 1

\* Time moves only forward, and only when the current time is exhausted: no
\* process is ready or waits for a delta, no event, edge or condition a process
\* waits for is true, every `<=` has landed and every net agrees with its driver.
TimeLeavesNothingBehind ==
    [][time' # time =>
        /\ time' > time
        /\ Runnable = {} /\ DeltaWaiters = {} /\ Triggered = {}
        /\ \A t \in NbTargets : nb[t] = sig[t]
        /\ sig = Settle(sig)]_vars

\* The regs that processes assign with `<=` only.
NbOnly == {t \in NbTargets :
    /\ \A i \in Statements :
           i.op = "ASSIGN" \/ (i.op = "ASSIGN_DELAY" /\ ~i.nb) => i.lhs # t
    /\ \A w \in ServiceStores : t \notin DOMAIN w}

\* Nobody sees a `<=` before the NBA phase, and none is lost before it: across
\* any number of passes, scans and dispatches of the delta the next value is
\* replaced only by another assignment, and the reg changes only to it.
NbaIsolation ==
    [][\A t \in NbOnly :
        /\ nb'[t] # nb[t] => at = "vm" \/ (nb[t] = sig[t] /\ \E e \in dnba : e.id.lhs = t)
        /\ sig'[t] # sig[t] => phase = "NBA" /\ sig'[t] = nb[t]]_vars

\* The scheduler finishes by itself only when no process can ever run again:
\* what is not DONE waits for an event, an edge, a condition or a branch that
\* itself is stuck, or was never forked.
FinishedMeansStuck ==
    at = "end" =>
        /\ dnba = {} /\ Triggered = {}
        /\ \A p \in Procs : state[p] # "DONE" =>
               /\ wait_kind[p] \in {"NONE", "EVENT", "EDGE", "COND", "JOIN", "SERVICE"}
               /\ wait_kind[p] = "SERVICE" => ~finished
               /\ wait_kind[p] = "NONE" => state[p] = "BLOCKED"
               /\ wait_kind[p] = "JOIN" => \E c \in Children(p, wait_on[p].tag) :
                                               state[c] # "DONE"

\* The processes some `disable` of another process makes continue elsewhere.
CrossTargets == {i.pid : i \in {j \in Statements : j.op = "DISABLE_CROSS"}}

\* The held value of a delayed `=` is stored by the statement that computed it: a
\* process with the delay bit set is on its way back to that statement, through
\* its wakeup, its branch ending and starting again, and other processes' drains.
\* A `disable` from another process leaves the bit behind: its targets are excepted.
HoldersComeBack ==
    \A p \in Procs \ CrossTargets :
        holding[p] /\ state[p] # "DONE" => ip[p] \in Delayed /\ ~ip[p].nb

\* A process asleep until some time wakes, unless the run halts, provided that the
\* program does not stay in one time step for ever, which it can do in Verilog too.
SleepersWake ==
    []<>(at = "advance" \/ Halted) =>
        \A p \in Procs : wait_kind[p] = "TIME" ~> (wait_kind[p] # "TIME" \/ Halted)

\* A process that waits for a service, its request in the ring, comes back.
ServicesReturn ==
    \A p \in Procs : wait_kind[p] = "SERVICE" /\ p \in requests
                         ~> (wait_kind[p] # "SERVICE" \/ Halted)

\* A READY process gets the VM although every dispatch starts the process loop
\* over from pid 0, while lower pids keep coming back from services.  It needs a
\* step budget of at least the number of processes.
ReadyProcessesRun ==
    \A p \in Procs : state[p] = "READY" ~>
        (state[p] # "READY" \/ (at = "vm" /\ cursor = p) \/ Halted)

----------------------------------------------------------------------------
(* What the scheduler's API document says and the code does not do.        *)

\* docs/GPGA_SCHED_API.md, STATUS_IDLE: no processes are ready.
IdleMeansNoneReady ==
    [][status' = "IDLE" /\ status # "IDLE" => Runnable = {}]_vars

\* docs/GPGA_SCHED_API.md, PHASE_NBA: the `<=` assignments scheduled in the active
\* phase are applied.  So the phase gives a reg only a value some `<=` has.
CommitAppliesScheduled ==
    [][at = "loop" /\ phase = "NBA" => \A t \in NbTargets : sig'[t] # sig[t] =>
        \E p \in Procs : \E i \in Program[p] :
            i.op = "ASSIGN_NB" /\ i.lhs = t /\ i.rhs \in {sig'[t]} \cup Signals]_vars

\* docs/GPGA_SCHED_API.md, WAIT_SERVICE: the process is blocked until the host
\* completes the request.  So the request of a blocked process is still to come.
BlockedUntilServed ==
    \A p \in Procs : wait_kind[p] = "SERVICE" => p \in requests

=============================================================================
