# Verification of metalfpga in TLA+

metalfpga compiles Verilog-2005 to Metal compute kernels. A design that waits,
forks or calls system services does not become a plain function: the compiler
emits an event scheduler, a small bytecode VM that runs the processes, and a
ring through which the GPU asks the host for services. That runtime is where
ordering, budgets, restarts and lost answers can go wrong, and it is the core of
this project. Around it stand the compiler that makes the bytecode, the timing
checks and overrides that share its state, the elaboration that flattens the
design and the nets the kernels compute, and the arithmetic libraries every
kernel is built from.

Paths below are the repository's, under `src/`. Line numbers of every
definition are in `PROJECT.json`, under `map`.

## Inventory

### The parts and how they interact

```
Verilog -> parser -> elaboration -> MSL codegen -> kernels + bytecode
                                                       |
      host: RunMetal (src/main.mm)                     v
        loop: dispatch sched_step ------------> sched_step (one thread per gid)
              [ready pipeline, exec_ready]        active phase -> sched_exec_step
              drain service ring <------------       -> sched_vm_exec (bytecode)
              answer, write back, resume          NBA phase, scans, time
              stop on the status                  status: IDLE FINISHED STOPPED ERROR
```

| Part | State it keeps | Operations | What makes it correct |
|---|---|---|---|
| Scheduler kernel (`src/codegen/msl_codegen.cc`, `_sched_step`) | process states and waits, time, phase, event flags, edge samples, NBA and delayed-NBA buffers, error, status | begin a delta, run processes, scan, commit NBAs, wake, advance time, finish | no process left behind, no wakeup overtaken, `<=` isolated, finish only when stuck |
| Process VM (same file, `_sched_vm_exec`; opcodes in `src/core/scheduler_vm.hh`) | instruction pointer, held delayed values, delay bit | one per opcode | join counts, restarts and disables keep states and waits consistent |
| Service ring (`emit_service_record`; `drain_services` in `src/main.mm`) | free-running head and tail, slots | reserve, fill, drain | a bounded FIFO, overflow reported |
| Host loop (`RunMetal`, `HandleServiceRecords`) | step budget, halt request, open files, dump state | dispatch, drain, resume, stop | every request answered, run ends when the status says so |
| Ready pipeline (`_sched_ready_*`, `_sched_wait_eval`, `_sched_exec_ready`) | ready list and counters | reset, flag, evaluate, compact, dispatch, run in parallel | same outcome as the serial process loop |
| Timing checks (`emit_timing_checks`), `$monitor`, `$strobe` | the last samples, edge times, windows, notifiers | sample after every update of the nets | a report exactly when the edges offend against the check |
| `force`, `release`, procedural `assign` | override ids, shadow values | force, assign, release, deassign, store, combinational update | a target shows its topmost layer, the layers below come back |
| Bytecode compiler (`EmitSchedulerVmStatements`, `BuildSchedulerVmLayoutFromModuleImpl`) | emitter, labels, patches, process table | one per statement kind | the words do what the statements say |
| 4-state, wide and real libraries (`include/gpga_*.h`) | none | one function per operator | the result of the operator on the operands |
| Elaboration (`src/core/elaboration.cc`) | flat module | flatten: parameters, defparams, instance arrays, connections; driver and cycle checks (a cycle is only warned about) | every net of the hierarchy is there once, with its width and drivers; illegal programs are refused |
| Net code (`OrderAssigns`, `emit_continuous_assigns`) | the nets, `__gpga_partial_*` | one update of all nets | one update settles every net |
| Front end, Metal runtime, VCD/SDF/readmem, tools | | | |

The shared state of kernel and host is a set of buffers. The host touches them
only between dispatches: `Dispatch` returns when every GPU thread has ended
(`src/runtime/metal_runtime.mm`).

### What is hard

* One dispatch has a step budget (`sched.max_steps`). It may end the loop at any
  process boundary, and inside a process between a service request and its wait.
* A process can be made to continue by its own wait, by a join, by the host, and
  by `disable` from any other process, in any order.
* Edges and events are sampled by scans, not recorded when they happen.
* The NBA buffer lives across passes, scans and dispatches of one delta.
* In exec-ready mode (`METALFPGA_SCHED_EXEC_READY`) the processes run as threads of
  another kernel than the one that decides phases and time, and share join
  counts and the delayed-`<=` queue without atomics.
* The service ring is filled by several GPU threads at once, with counters that
  wrap.
* The emitter writes jumps before their targets are known, over nestings of loops,
  forks and disables; the words of one process can be left by another.
* Overrides nest in any order over one saved value per reg.
* A timing check judges a whole history by a few remembered values and times.
* Parameters, defparams, arrays and connections of every level meet in one flat name
  space, and one pass over the flat assigns, in an order chosen once, must settle all nets.

`PROJECT.json` lists these as `hazards`, each at its line with the properties
that watch it.

## Modules

| Module | Models |
|---|---|
| `Scheduler` | `sched_step`, `sched_vm_exec` and the host around them, for one instance (gid) |
| `MCScheduler` | the programs TLC runs it on |
| `SchedulerProofs` | its theorems |
| `ExecReady` | exec-ready mode: the ready kernels and the GPU threads that run processes side by side; extends `Scheduler` |
| `MCExecReady`; `ExecReadyProofs` | its programs; its theorems |
| `ServiceRing` | the ring: producers, counters, overflow, drain |
| `ServiceFifo` | what the ring promises: a bounded FIFO |
| `MCServiceRing`, `ServiceRingProofs` | its instance and theorems |
| `Statements` | the statements of a process and what they mean: a reference semantics |
| `VmCompile` | the compiler: task expansion, processes, labels, emitter, patches |
| `VmExec` | the interpreter of the words, next to the reference semantics |
| `MCVmExec` | the programs TLC compiles and runs |
| `TimingChecks` | the timing checks, and what they should report; `MCTimingChecks`, `TimingChecksProofs` |
| `Overrides` | `force`, `release`, `assign`, `deassign` in both forms of the kernel; `MCOverrides`, `OverridesProofs` |
| `LayeredSignal` | what overrides promise: a signal with layers |
| `FourState`, `WideInt`, `RealCore` | the functions of `gpga_4state.h`, `gpga_wide.h` and the core of `gpga_real.h` |
| `FourStateCalls`, `FourStateProofs` | one call of the 4-state library, and what it should answer; its theorems, with the theory of words as sums of bits |
| `Arithmetic`, `MCArithmetic` | the same for the other two, and all three together |
| `WideProofs`, `RealProofs` | the theorem on wide integers; those on doubles |
| `Netlist` | the flat module and the net update emitted for it: order, drivers, resolution |
| `Elaboration` | `Elaborate`: from the modules of the source to the flat module, or to a refusal |
| `Hierarchy` | the reference: scopes, nets, the drivers of every bit, and what they settle to |
| `NetDesign`, `MCNetDesign` | a program that is read, elaborated and run; the programs |

### Scheduler

State. `state`, `wait_kind`, `wait_time`, `join_count` are the arrays of the same
name. `wait_on` is the instruction a process waits in and stands for
`sched_wait_id`, `sched_wait_event` and the edge kind. `holding` is bit 31 of
`sched_wait_id`, which says that a delayed `=` is half done; `held` is
`sched_delay_val`. `sig` is the packed state, `nb` the NBA buffer, `dnba` the
delayed-`<=` queue, each entry with the slot it occupies. `at` is the place in the
kernel's control flow: `host` between dispatches, `loop` the head of the
`while`, `procs` the process loop, `vm` the interpreter, `after` the join code
behind it, `scan`, `wake`, `advance`, `end`.

Actions. One per section of the kernel and one per opcode:

| Code | Action |
|---|---|
| prologue, halt mode | `Dispatch` |
| start of a delta (snapshot, due entries, compaction, nets) | `BeginActive` |
| process loop, `sched_exec_step` | `RunNext`, `ExecReturns`, `EndPass` |
| scan without work | `ScanActive` |
| commit, scan after it | `CommitNba`, `WakeAfterNba` |
| time | `AdvanceTime`, `Quiesce` |
| epilogue | `EndStep` |
| `ASSIGN`, `ASSIGN_NB`, `ASSIGN_DELAY` | `Assign`, `AssignNb`, `StoreHeld`, `AssignDelay`, `AssignDelayNb` |
| `EVENT_TRIGGER`, `WAIT_*` | `EventTrigger`, `WaitTime` (`WAIT_DELTA` too), `WaitEvent`, `WaitEdge`, `WaitCond`, `WaitService` |
| `FORK`, `DISABLE` | `Fork`, `DisableChild`, `DisableCross` |
| `SERVICE_CALL` | `ServiceCall`, `Halt` (for `$finish`, `$stop`) |
| `DONE`, error exits | `Done` |
| `HandleServiceRecords`, `resume_service` | `DrainServices` |

Abstractions.

* A process is the set of instructions its bytecode holds. Jumps, loops, cases
  and the return-value store are left out: the process may fetch any of its
  instructions next. Two pointers are kept exactly, because properties depend on them:
  a delayed `=` comes back to itself, and a call is followed by its wait. Every
  execution of the compiled program is an execution of the model, so a safety
  property that holds here holds there; a violation was checked against a program
  that really has that order.
* `Instructions(p)` says what the compiler may put into process `p`: which
  `disable` targets are possible, that a `<=` target is a member of
  `NbTargets`, and so on. `SchedulerAssumption` requires every program to respect it.
* Signals are single bits with values 0, 1 and x. A net copies a reg.
* A design without `$monitor` and `$strobe`. Timing checks, overrides and the
  `CALL_GROUP` fallback have modules of their own.
* The ring of `Scheduler` is never full; `ServiceRing` treats that case. Only the
  last request of a process since the last drain matters to `resume_service`, so
  `requests` is a set of pids.

`ExecReadyMode` is `GPGA_SCHED_FLAG_EXEC_READY`: the process loop is skipped and every
turn of the `while` leaves no steps (`StepsLeft`). The `Scheduler*` runs set it FALSE.

### ExecReady

`ExecReady` EXTENDS `Scheduler`. One host iteration is the sequence of kernels in
`stage`: `sched_step` (the actions of `Scheduler`, without its process loop), then
`ready_reset`, `wait_eval`, `ready_flags`, `ready_compact`, `ready_dispatch` and
`exec_ready`, between which the command buffer has barriers. `SchedBatch` says that all
are in one command buffer; without it the host may drain after `sched_step` too
(`Drain`). `flags`, `list`, `ready_count` and `grid` are the parts of the
`sched_ready` buffer.

`ExecLaunch` starts one thread per entry of the list, up to the grid. `cursor`, `at`,
`burst`, `steps`, `finished`, `stopped` and `reg` are the locals of the thread that takes
the next step, `thread` keeps those of the others, and `SwitchTo` changes between them
at any point. A thread is `ThreadEnter`, the loop `RunOn` / `VmStep` / `LoopEnds`, the
join code `JoinLoad`, `JoinStore`, `JoinCheck`, and `ThreadExit`.

Abstractions.

* An instruction is atomic, except where two threads of one dispatch write the same
  word: the join count, and the length of the delayed-`<=` queue with the slot behind
  it. These are split into loads and stores; the slot is written together with the
  length. The test of the join count for zero may see the stored value or memory.
* A slot that falls out of the queue because the length went back is gone. With
  three or more slots a later append could bring it back; the bound of two excludes it.
* The order of the list does not matter, since the threads interleave anyway.
* One instance, and no `DISABLE_CROSS` and no inertial path (`ExecReadyAssumption`):
  what these write is held in registers by the thread of the target.

### ServiceRing

A thread takes an index with `atomic_fetch_add` (`Reserve`), compares it with the
head, then fills the slot (`Fill`); other threads may reserve and fill in
between. A full ring has consumed the index all the same and raises the error.
`Drain` copies two spans and sets the head to the tail; `warned` remembers that it has found
more records than the ring holds (`Overflowed`) and said so. `Pending` maps the ring
to the queue of `ServiceFifo`, and the run `service_ring` checks that every
behaviour of the ring is one of the FIFO. The counters are modulo `CounterMod`;
the assumption that the capacity divides it holds for 2^32 and the default
capacity 32, not for every `--service-capacity`.

### Statements, VmCompile, VmExec

`Statements` describes a process body as records and gives each statement its
meaning in steps (`Meaning`, `After`): a list of things still to do, the first of which is
done next. `VmCompile` turns the same body into words, with the functions of
the code: `ExpandTasksInStatements`, `CollectForks`, `CollectBlockLabels`,
`EmitSchedulerVmStatements`, `PatchLabels`, `BuildLayout`. Each emitter is written as
the list of pieces it appends (`Pieces`): words, labels, jumps, bodies.
`VmExec` runs both. One action per opcode interprets the words of process `pid`; an
operation that can be seen from outside (an assignment, a wait, a fork, a service, a
disable) also takes the next step of the source semantics with the same outcome of
its test, and `ExecutesTheSource` says that the two agree. Jumps are silent.
A fork's branches, and the target of a disable, are followed by going on as that
process.

Abstractions: expressions are outcomes, taken at random; a counted loop is a number
of rounds; every wait ends. `Admitted` names the programs a run takes.
`MCAdmitted` keeps out programs with one of the known troubles listed
under "Other differences", unless `Admit` lets the kind in.

### TimingChecks

`Sample` is one run of `emit_timing_checks`: it classifies the edge of each event
(`Pos`, `Neg`, `EdgeOf`), takes the step of the kind of check (`SetupStep` to
`NoChangeStep`) and keeps samples, times and window. `Change` gives the signals new
values, `Tick` lets time pass. `HandleSpecifyTimingCheck` is the parser's translation of
the call. `data`, `ref`, `cond`, `enabled` are the values of the two events and
their conditions. `history` variables record every edge since time 0, by the
definition of the events; `Offends` says from them alone whether a report is due.
Limits are constants; `x` and `z` are values of their own.

### Overrides and LayeredSignal

`value`, `shadow`, `sched_force_id`, `sched_passign_id` are the arrays of the code.
`sched_vm` tells the two forms of the kernel apart: the switch of statements and
the VM, where a blocking assignment to an override target is an error (`Error`). `CombUpdate`
is the update of the nets with the overrides that come after it. `LayeredSignal` is the
specification: a signal has a base value, an `assign` layer and a `force` layer, each
layer follows its operand at the next update, a store changes the base. `Layers` in
`Overrides` maps the shadow to the base of a covered reg.

### FourState, WideInt, RealCore, Arithmetic

The functions of the three headers as operators, over words of `WordBits` bits, limbs of
`LimbBits` and doubles of `FractionBits` and `ExponentBits`. A 4-state vector is its two
planes, each a set of bit positions. `FourStateCalls` and `Arithmetic` call one function with
any operands; their properties define the answer without the code. A word with unknown
bits stands for all its completions: a 4-state result fits its width and must be right for
every completion, and x only where the completions differ for the operators on bits
(`BitsExact`), or where an operand has an unknown bit for the others (`NumbersExact`).
Wide results are those of the integers modulo the width (`WideExact`), real results are the
nearest doubles, ties to even (`RealRounded`, `RealConverted`). `FourStateCalls` is a module of
its own because its theorems need neither of the other two. The bitwise operators of C on
limbs are defined from the bits that are one (`BitsOf`, `FromBits`).

### Netlist, Elaboration, Hierarchy, NetDesign

`NetDesign` reads one of `Programs`. `Accept` is `Elaborate` and `OrderAssigns`, `Refuse` a
return of `nullopt`; then a process writes a reg (`Write`) and the kernel runs
`emit_continuous_assigns` (`Update`), in turn and for ever. `flat` is the flat `Module`,
`order` the order of its assigns, `net` the value of each net.

`Elaboration` follows `InlineModule`: `BuildParamBindings`, the range widths, `AddFlatNet` for
ports and nets, the assigns with `CloneExprWithParamsImpl`, then for each instance
`ApplyDefparamsToInstance`, the expansion of an array, `ResolveConnection` for the slice each
element gets, `ConnectPort` and `Unconnected`. Refusals are the early returns. `Netlist` holds
what the emitter does with the result: `OrderAssigns` (Kahn's algorithm, the ready assign with
the smallest index first), one driver or a resolution (`MultiDriven`, `Resolved`: strengths,
`wand`, `wor`, `tri0`, `tri1`), partial assigns merged into one word, and those emitted last
because they stand alone.

`Hierarchy` says what the program means, without flattening and without an order. It walks the
tree of scopes, each with its parameters; every bit of a net has the list of bits that drive
it, through ports and connections; `Legal` says which programs are. `Settle` starts
with x everywhere and applies all drivers of all bits until nothing changes. Where a
driver is unknown, the bit is what all its completions agree on. Four helpers it takes
from `Elaboration`: `OverridesRefused`, `ConnectionsRefused`, `PortOf` and `Targets`; on
these the reference is not independent.

`MCPrograms` holds 412: 13 middle modules, three leaves and three tops under them (assigns,
concatenations, nested instances, arrays, `z`, implicit and open connections); parameters with
every list of overrides and defparams of several depths; programs with several roots; and
one mistake each in connections, names, directions, drivers and overrides, at the top and
below.

Abstractions.

* A name is the sequence of its segments, joined as the code joins them. A value is a
  sequence of bits 0, 1, x; z occurs in expressions only, for a net stores x for it.
* Expressions are identifiers, selects, concatenations, numbers, inversion and the
  conditional: those a connection treats differently, and one operator whose result depends on
  the width. The other operators are `FourState`.
* The 4-state build. The top has no ports: a testbench. A process is the set of regs it
  writes.
* `UnsizedWidth = 32` is the width of an unsized number and of a name that is not found.
* Out: functions, tasks, memories, events, generate labels, hierarchical references, switches,
  `trireg`, signed and real nets.

## Runs

| Run | Instance | Shows |
|---|---|---|
| `scheduler_fork` | five processes: root 0 forks 2 and 3 under one tag and 4 under another, disables branch 4 and sleeps in a delayed `=`; root 1 disables a block of 0; branches disable each other, sleep, fail, finish and stop the run | `TypeOK`, `WaitsMatchStates`, `JoinAccounting`, `HoldersComeBack`, `FinishedMeansStuck` |
| `scheduler_data` | two roots over regs `a`, `q` and net `w = q`; blocking, `<=`, delays 0, 1 and 2, an inertial path with pulse limits, edges, a condition | `NoOversleep`, `DnbaSlotsDense`, `TimeLeavesNothingBehind`, `NbaIsolation` |
| `scheduler_live` | two roots that sleep, wait for an event, an edge list and a condition, and call services whose answers store into `a` | `SleepersWake`, `ServicesReturn`, `ReadyProcessesRun` |
| `exec_ready_fork` | 0 forks 2 and 3, or disables 2 before; 1 and the branches wait for time, a delta, an event; two exec steps a thread, one command buffer | `ExecTypeOK`, `WaitsMatchStates`, `ReadyAllRun`, `JoinNeverEarly`, `ActiveExhausted` |
| `exec_ready_live` | `<=`, a delayed `<=`, an event, an edge, a condition, a service; one exec step a thread, a drain after `sched_step` too | `FinishedMeansStuck`, `TimeLeavesNothingBehind`, `ReadyProcessesRun` |
| `service_ring` | capacity 3, counters modulo 6, two threads, two records | `RingTypeOK`, `NoSlotShared`, `OverflowIsReported`, `RingIsFifo` |
| `vm_exec` | every nesting of two constructs around every kind of leaf, and programs with several processes, tasks and sensitivities | `ExecutesTheSource`, `NoSilentLoop`, `NoRepeatLeft` |
| `timing_checks` | 24 calls of all kinds with plain, edge-listed and conditioned events; levels 0, 1, x; three time units | `TimingTypeOK`, `LastTimes`, `ExactlyTheViolations` |
| `overrides` | two regs, one wire, two operands, both forms of the kernel | `OverridesTypeOK`, `ImplementsLayers` |
| `arithmetic` | every call on words of 3 bits, limbs of 2 (widths 3 to 6, so up to three limbs), doubles of 3 fraction and 4 exponent bits | `BitsExact`, `NumbersExact`, `WideExact`, `RealRounded`, `RealConverted` |
| `net_design` | 412 programs of three levels; every value of 0, 1, x written to their regs | `LegalIsAccepted`, `FlatNetsAreTheNets`, `SettledNetsFollow` |

One more run ends in a counterexample; see Findings.

The bounds.

* `Horizon` cuts waits that would end later; 2 to 4 time units let two sleepers
  and a queued `<=` be due at the same and at different times, and time advance
  several times.
* `MaxBurst` limits the instructions of one exec step that do not block. One is
  enough where every interesting instruction yields; two lets a process assign and
  trigger, or assign twice, before anybody looks.
* `Budgets` of 1, 2 and 3 steps end a dispatch before, between and after the
  processes of a pass.
* `ProcSteps` of 1 makes a thread end while its process is READY; 2 lets it run on.
  Two threads at once are the least that can race, and two branches and an
  outsider the least where a join can end early.
* `MaxDnba = 2` makes the queue full with the entries of the program.
* Five processes are the least with two forks of one parent and a root outside
  them. The ring's counter wraps after two turns of the ring.
* `UnrollLimit = 2` and `MaxCount = 2`: a repeat below, at and above the limit of
  unrolling, and counters of zero, one and two rounds. Two constructs around a leaf are
  enough for each to be in the body of each other, and the leaf at their ends.
* `MaxTime = 2` in `timing_checks`: limits of 1 and 2 units are met, missed and just
  met by the distances 0, 1 and 2. Edges to and from z are left to the proofs, which
  hold for all values.
* The arithmetic widths include one limb, a full last limb and a partial one; exponents
  include zero, the least, those around 1 and the largest. Subnormal operands occur.
* Three levels of modules in `net_design` give a port that is driven from below and read from
  above, a defparam with a path, and an array below another instance; nets have one or two bits
  and connections up to four, so slices begin in, and reach over, the parts of a concatenation.

`CHECK_DEADLOCK` is on everywhere but in `net_design`, where a refused program stops. The end of
a run is the explicit stuttering action `Stopped`, and a process whose next waits lie behind
`Horizon` always has another instruction.

### Liveness and its fairness

`FairSpec` assumes that a dispatched kernel goes on (`WF` of `Kernel`), that
`RunMetal` dispatches again while the status lets it (`WF` of `Dispatch(FALSE)`;
an interrupt is never forced), and that drains happen again and again
(`SF` of `DrainServices`). The last is strong because `RunMetal` drains only
every `service_drain_every`-th iteration: between two drains it dispatches, and
while the kernel runs a drain is not possible. The code drains at the end of
each such iteration, so it cannot be put off for ever.

`SleepersWake` has a premise: the program does not stay in one time step
for ever, as `always #0 ...` does in any simulator. `ServicesReturn` is about a
blocked process whose request is in the ring. That a process can also
block after its request is gone is among the differences below.
`ReadyProcessesRun` is checked with a budget of at least one step per
process. With a budget of 1, which a design that dumps waves always gets, pid 0
can keep the others from running by returning from services again and again.

`FairExecSpec` assumes that the kernels of an iteration and its threads run on (`WF` of
`SchedStep`, `ReadyKernels`, `ThreadStep`: one dispatch is a finite number of steps,
whichever thread is ahead), and of the host what `FairSpec` does. `SwitchTo` has no
fairness; a thread that is never preempted ends and hands over.

### Findings

One run shows where a document and the code disagree, by a counterexample to
one property:

| Run | Document says | Code does |
|---|---|---|
| `exec_ready_join_doc` | a parent resumes when its children have completed (`docs/GPGA_SCHED_API.md:198`) | two branches that end in one dispatch lose a decrement, and the parent waits for ever |

### Other differences

The models show the following too, most by a property that fails once the case is let in; they
are not among the runs. Four configurations show one such property each, and TLC ends them with
a counterexample: `ExecReadyNbaDoc.cfg`, `ExecReadyDeltaDoc.cfg` (both of `MCExecReady`),
`SchedulerServiceDoc.cfg` (`MCScheduler`) and `VmExecRepeatDoc.cfg` (`MCVmExec`). Line numbers
alone are those of `src/codegen/msl_codegen.cc`, "API" is `docs/GPGA_SCHED_API.md`.

Scheduler:

* `STATUS_IDLE` also when the budget is used up (26182; API 372: no processes are
  ready). Without `$dumpvars` `RunMetal` then ends the run. `IdleMeansNoneReady` fails.
* A commit copies every `<=` target (25852; API 348), so a snapshot undoes a blocking
  assignment or a host store of the same delta. `CommitAppliesScheduled` fails.
* The answer of a service can be drained before the process blocks (31015; API 234),
  which then waits for ever. `BlockedUntilServed` fails with `SchedulerServiceDoc.cfg`.
* A `disable` of a block of a DONE root makes it READY (`DisableCross`), though
  "Process has completed execution and will not resume" (API 320).
* An edge undone before the scan resumes nobody (`Sampled`): one root assigns 0 and
  then 1 to a reg, another waits for its posedge (API 222).
* A `disable` from another process leaves the delay bit of its target set (31348), and the
  next delayed assignment of that process then stores its held value at once, a `<=` too
  (30698). `HoldersComeBack` excepts these processes; the theorem on `NbaIsolation` excludes them.

Exec-ready mode:

* The snapshot that starts a delta is taken after its processes have run (22217, 26152), and
  overwrites their `<=` (API 348). `ScheduledUntilApplied` fails with `ExecReadyNbaDoc.cfg`.
* Two threads that append to the delayed queue at once lose an entry (30918).
  `QueuedUntilDue` fails.
* A branch that a sibling disables while its own thread runs is counted by both, and
  the parent resumes early: three branches, one disables another. `JoinNeverEarly`
  fails on it.
* A process that a drain releases in the NBA phase and that then waits for a delta is
  passed by time (API 210). `TimeLeavesNothingBehind` fails on a root that calls a
  service and then waits `#0`, next to a sleeper. `exec_ready_live` has no delta wait
  because of it. The serial scheduler does not do this, by the theorem below.
* `wait_eval` ends delta waits while other processes are READY, the serial scheduler
  does not (20852; API 210); `METAL4_SCHEDULER_VM_PARALLELISM_PLAN.md:11` asks for identical
  behaviour. `DeltaComesLast` fails with `ExecReadyDeltaDoc.cfg`: a root waits `#0` while the
  branch another has just forked is READY.

So `exec_ready_fork` shows `JoinNeverEarly` for branches that end by themselves,
in any order; what it does not show, and what `exec_ready_join_doc` refutes, is that
the join returns at all.

Compiler (`Admit` lets the programs in):

* `make_comb_wrapper` (10127) gives an `always` with `@*` or one signal, and a delay, wait or
  service in its body, no loop: it runs once (`METAL4_SCHEDULER_VM_PLAN.md:17`, "Do not change
  Verilog semantics"; `docs/VERILOG_REFERENCE.md:248`). `AlwaysNeverEnds` of `VmExec` fails
  with `Admit = {"scheduled_comb"}`.
* A statement the emitter cannot compile, after others it can, leaves their words in front
  of the fallback (10986; `METAL4_SCHEDULER_VM_PLAN.md:26`), so they run twice.
  `FallbackRunsWholeProcess` of `VmExec` fails with `Admit = {"late_fallback"}`.
* The copies of an unrolled repeat and of a task share one label for a named block; the last
  copy wins, and a disable in an earlier one jumps forward over the others.
* A dynamic repeat left by a disable stays active, and the next entry takes the old count
  (31168-31235; `METAL4_SCHEDULER_VM_PLAN.md:298`). `CountOnEntry` of `VmExec` fails with
  `VmExecRepeatDoc.cfg`, which sets `Admit = {"repeat_left"}`. A count with x bits is used as a number
  (31216).
* `collect_block_labels` goes into fork branches (11028, 9537), so a parent can be sent to
  a label in the words of a branch; a disable of a block that is not running jumps to its
  end all the same; a disable of a block around a fork leaves the branches running.
* The inputs of a task are bound by name, not copied (480-520): a task that assigns its
  input assigns the argument.

Timing checks (`Regular` names the calls `ExactlyTheViolations` is about):

* The sample before the first is 0/0, so a signal that starts at x or 1 has an edge at time
  0 (`docs/TIMING_CHECKS_IMPLEMENTATION.md:103`).
* A `$width` on an edge ignores the event's own `&&&` condition (21874 against 22080); conditions
  of the check are sampled for `$setuphold`, `$recrem` and the skew checks only.
* `$skew` and `$timeskew` are two-sided: a reference edge is compared with an older data edge
  (`docs/diff/REV38.md:222`). `$fullskew` reports distances below its limit.
* `$nochange` takes both offsets from the leading edge, and negative ones as 0.
* `$setuphold` with a setup limit not above 0 and a positive hold limit misses
  simultaneous edges.
* The x of an operator is encoded as z (see below), and edge lists see it as z.
* A notifier is set to x, not toggled; a check without a notifier reports nothing.

Overrides:

* A `release` or `deassign` of a reg that is not covered overwrites it with the stale shadow
  (23734-23747, 29791-29818; `docs/SCHEDULER_VM_OPCODES.md:164` "Release a previously
  forced signal."). `StrayReleases = FALSE` keeps these out of the run and the theorem.
* A release gives back the value from before the force; the standard keeps the forced one
  until the next assignment.
* A commit while a reg is forced copies the forced snapshot into the shadow (25852-25880).
* The nets behind a forced wire are computed from its driver, before the override; readers
  of a covered reg follow one update later. Without combinational logic overrides are
  not refreshed at all (16862-16874).
* In the VM every `=` or `<=` to an override target ends in `sched_error`
  (`METAL4_SCHEDULER_VM_PLAN.md:374`), as in `deprecated/verilog/pass/test_force_release.v`.

Arithmetic:

* The x bits of a result are encoded as z, (0,1), for `$display`, dumps and edge lists
  (`include/gpga_4state.h:43`, `docs/FOUR_STATE_TABLES.md:12`). `BitwiseGivesNoZ` fails.
  For the same reason `fs_case_eq` takes x for z (`docs/gpga_4state_api.md:977`).
* `gpga_double_add` and `gpga_double_ldexp` near the subnormals, the double rounding of
  `gpga_double_round_pack`, sqrt(-0), floor and ceil from 2^63 on (`docs/GPGA_REAL_API.md:827`,
  892, 926, 1281). The properties exclude these cases by name.

Elaboration and nets (line numbers of `src/core/elaboration.cc` where the file is not
named). `MCPrograms` keeps clear of what is computed differently here, and counts what is
refused here as illegal:

* A defparam of an element of an instance array is rejected as an unknown instance
  (`deprecated/verilog/pass/test_defparam_array_instance.v` expects it to pass), and one of the
  array as a whole is ignored. One whose instance has the name of a module is rejected. A
  positional override together with a defparam is refused.
* The value of a defparam with a path is evaluated in the parent of its target, not where it
  is written.
* An instance array `u[0]` and an instance `u__0` become one instance.
* A concatenation with as many parts as the array has elements is shared out by part, whatever the
  widths (6911-7008).
* The widths of the parts of an output connection come from the parameters the parser knew:
  32 for a nested name, 1 for a range over a parameter (3783). A constant conditional is
  taken as an output connection (7066).
* `inout` carries values outwards only, and a z that leaves through a port is x inside and
  drives x outside: an identifier drives both planes.
* An unconnected input defaults to z in its low 64 bits (3757), and `pull1` to 1 in bit 0 only.
* A whole assign is refused after a partial one of the same net, and accepted before it.
* A partial assign that stands alone leaves the other bits 0, and all such are emitted after
  all others (`msl_codegen.cc:15927`), so a reader of one follows an update later.
* `OrderAssigns` knows nets by name: two assigns of parts of one net that depend on each
  other through it are a cycle. A cycle is only warned about; `docs/gpga/ir_invariants.md`
  says it is rejected.
* An expression is as wide as its operands and extended then: `~a` in a wider assign has
  zeros above. A conditional with a partly unknown vector merges its branches even when
  a known 1 bit decides.

## Proofs

### Scheduler and ring

TLAPS proves, for every number of processes, every fork structure, program and
budget that satisfies `SchedulerAssumption`:

* `SchedulerTyped`: `Spec => []TypeOK`. The only parts that are not a matter of
  reading the actions are `steps \in Nat` (the process loop tests the budget
  before the exec step takes one) and the finiteness of `dnba`, without which its
  cardinality has no value.
* `WaitsMatch`: `Spec => []WaitsMatchStates`. Not inductive: an instruction that
  ends or blocks the process at the cursor needs to know that the process was
  READY. `WaitInv` adds `RunningIsReady` (in the VM the process at the cursor is
  READY), which itself needs `WaitsMatchStates` when a disable of a branch readies
  the parent.
* `NeverOversleeps`: `Spec => []NoOversleep`, inductive with `TypeOK`: the start
  of a delta removes every due entry, instructions set deadlines after the current
  time, and time moves to the least deadline.
* `JoinsBalance`: `Spec => []JoinAccounting`. `Outstanding(p)` counts the branches
  that are not DONE, and one that has just ended until the join code has run.
  `CountJoinBalances` shows that one decrement goes with one branch leaving that
  set; `SameBranchesCount` covers the steps that leave the set alone. The
  cardinality facts come from `FiniteSetTheorems`.
* `HoldersReturn`: `Spec => []HoldersComeBack`, on top of `WaitInv`: what wakes
  processes never wakes a DONE one, and a process with the bit set can fetch
  nothing but the statement that clears it.
* `TimeIsExhausted`: `Spec => TimeLeavesNothingBehind`, and `OnlyStuckRunsFinish`:
  `Spec => []FinishedMeansStuck`. Both rest on `ClockInv`, which says for each place of
  `sched_step` what holds there: processes run in the active phase only; the NBA phase begins
  when nobody waits for a delta; after the commit the nets are settled and every `<=` has
  landed; and a scan that wakes nobody leaves nothing that would wake somebody (`ScanTakesAll`:
  the events are consumed and the edge waits compare with the present values). The rest is
  `NoOversleep`, and for joins `JoinAccounting`.
* `QueueStaysDense`: `Spec => []DnbaSlotsDense`. It needs that no two entries share a slot.
  Then the rank that compaction gives an entry is an injection of the kept entries into as
  many first slots, hence onto them (`CompactedDense`).
* `NbaIsIsolated`: `DisabledHaveNoDelayedNb => (Spec => NbaIsolation)`. At the start of a delta the
  NBA buffer agrees with the regs that only `<=` assigns, so the snapshot loses nothing.
  The hypothesis keeps out the stale delay bit described above.
* `RingTyped`: `RingSpec => []RingTypeOK`, for every capacity, counter width and
  set of threads.
* `SlotsAreNotShared`, `OverflowsAreReported` and `RingImplementsFifo`: `RingSpec =>
  []NoSlotShared`, `[]OverflowIsReported` and `RingIsFifo`. `OverflowIsReported` says that the
  flag of the device is up exactly if the host has warned of lost records (`warned`) or will at
  its next drain, so a drain that emptied the ring and took the flag back would break it. The
  invariant `RingInv` says that what the threads are writing lies in the window between head and
  tail, at different indexes. A window of at most `Capacity` indexes maps one to one onto the
  slots, across the wrap of the counters too, because the capacity divides `CounterMod`
  (`SlotAfter`). `Pending` maps the ring to the queue: a fill leaves it unchanged, an accepted
  reservation appends, a refused one finds it full, and the two spans of a drain are all of it.

The theorems about `Scheduler` hold with `ExecReadyMode` TRUE too, but then say little: the
processes do not run there.

### Exec-ready mode

`ExecReadyProofs` proves, for every number of processes and threads,
every fork structure, program, budget and interleaving that satisfies `ExecReadyAssumption`:

* `ExecTyped`: `ExecSpec => []ExecTypeOK`. The counter of the ready list stays within the
  processes only because each stage leaves something to the next (`Gathered`: the count is
  zero before the compaction, the list holds exactly the flagged processes after it, the grid is
  its length), and because a READY process is in no wait (`ReadyAreFree`).
* `ExecWaitsMatch`: `ExecSpec => []WaitsMatchStates`, without a hypothesis on the design. `wait_eval`,
  `sched_step`, drains and the threads of other processes all end waits and write states. The
  invariant adds `ExecutingAreFree`: a thread that is about to execute an instruction is in no
  wait, even when its process has been disabled or forked again under it.
* `AllReadyRun`: `ExecSpec => ReadyAllRun`, from `Gathered`: no READY process misses the
  dispatch, whatever the order of the list. `ActiveEndsExhausted`: `ExecSpec => ActiveExhausted`, from
  the same invariant: the scan that ends the active phase finds that no thread has left
  anybody READY.
* `JoinsWait`: `SiblingsLetLive => (ExecSpec => JoinNeverEarly)`. The count of a join is loaded,
  stored and tested by several threads. `NoCountTooLow` says that neither the count nor any
  value a branch has loaded and not yet stored is below the number of branches that have
  not stored their decrement (`Uncounted`). A lost decrement leaves the count too high,
  never too low. That needs that nobody but the branches touches the count meanwhile: the
  parent of a live thread is not live (`ThreadsAgree`), and every branch that can run again
  has its parent in the join (`BranchesAreAwaited`). The hypothesis, that a process disables
  its own branches only, is needed: a branch that a sibling disables while its own thread runs is
  counted twice (see "Other differences").
* `JoinsReturn`: `SiblingsLetLive => (ExecSpec /\ []OneAtATime => []JoinersHaveBranches)`. The
  documented promise that `exec_ready_join_doc` refutes: between two dispatches a process in
  a join has a branch that is not over. `OneAtATime` says that no two branches of a fork are
  both between their load of the count and their store, which an atomic decrement would
  ensure; so the missing atomicity of this one access is the only reason why a join is
  ever left behind. The invariant `CountsExact` sharpens `NoCountTooLow` to an equality, and says
  that a branch that has stored zero is still to test it; for that every fork has at least one
  branch. The separate test needs no atomicity: the branch that stored zero finds it.
  `LoneJoinsReturn` draws the conclusion for designs in which no fork has two branches
  (`LoneBranches`): they never overlap, so the promise holds of all their runs.
* `ExecNeverOversleeps`: `ExecSpec => []NoOversleep`. A thread holds a delayed `<=` for a while
  between the load of the length of the queue and its store, so the invariant `OnTime` adds
  `LoadsAreLate`: what it will queue is still to come.
* `ExecTimeIsExhausted`: `NoDeltaInCallers => (ExecSpec => TimeLeavesNothingBehind)`. Processes may run
  after the active phase has ended, because a drain releases them before the commit.
  `TurnInv` is what `ClockInv` is for the serial scheduler, turn by turn; `CallersInv` says
  that in the NBA phase nobody waits for a delta and that none but the callers of a service can be
  READY when the list is built. `sched_step` scans again for what they trigger, but not
  for a delta wait, so the hypothesis excludes a `#0` in a process with a call; without it
  time passes that process by (see "Other differences").
* `ExecFinishesStuck`: `SiblingsLetLive /\ NoDeltaInCallers =>
  (ExecSpec /\ []OneAtATime => []FinishedMeansStuck)`. It puts the parts together: `TurnInv` and
  `CallersInv` leave nobody READY, triggered or in a delta wait where the loop of `sched_step` ends,
  `EndInv` adds that there is no deadline and that a finished run owes no answer, and
  `JoinsReturn` that a process in a join waits for a branch. `OneAtATime` is needed:
  without it a run can finish with a parent whose branches are all over.

### Timing checks

`TimingChecksProofs` proves, for every set of calls with `RegularCalls`, every limit and
every finite or infinite run:

* `TimingTyped` and `TimesAreLast`: the remembered times are the last edges since time 0.
* `ViolationsAreExact`: `Spec => [][violation' <=> Sample /\ Offends]_vars`. A check keeps
  two values, two times and a window; `Offends` reads the whole history. The bridge is the
  invariant `TimingInv`: `TimingTypeOK`, `LastTimes`, `RemembersValues` (the kept samples
  are those of the last `Sample` of each event) and `RemembersWindow` (an open window began at the
  last leading edge). Each kind of check then has one lemma that its step reports
  iff `Offends`.

### Overrides

`OverridesProofs` proves, for every set of signals, forces, assigns and values, without
stray releases:

* `OverridesTyped`.
* `LayersImplemented`: `Spec => Layers!Spec`. `InitLayers` maps the initial states, one lemma per
  operation maps its step; the shadow of a covered reg is the base layer because a cover
  saves it exactly when it is the first (`Saved`, `SavedUnlessForced`).

### 4-state arithmetic

`FourStateProofs` proves, for words of any number of bits and operands of any width:

* `AnswersAreVectors`: `FsSpec => []FsFits`, for every function of `gpga_4state.h`.
* `BitOperatorsAreExact`: `FsSpec => []BitsExact`, for the bitwise, reduction and logical operators, the
  merge of a mux and the matches of `case`, `casez` and `casex`. A word has a least and a
  greatest completion, and a bit that differs between two of its completions; with
  these the masks of known zeroes and ones are shown to be what all completions share
  (`KnowingExact`, `DecidedExact`). The parity of a reduction changes with one unknown bit
  (`BothParities`).

* `NumberOperatorsAreExact`: `FsSpec => []NumbersExact`, for the operators on numbers.

For the last one `Num` is a sum over a set of bits, and `FourStateCalls` raises to a power by a
recursive function; a prover has to be shown that such functions exist and are unique.

* `SetInduction` is induction over a set of numbers instead of an operator, so every
  induction below is one over a set `{n \in Nat : ...}`. `NumAdd` says that a sum does not depend on
  the order in which its bits are taken, `NumSplit` that a word is its low bits and its
  raised high ones.
* `NumDigit`: bit i is in a word iff `Digit(Num(w), i)`. With `NumInjective` an answer is right
  when its number is the remainder of the integer result modulo 2^width (`FitNum`), and the
  strict operators are arithmetic on remainders (`ModuloSum`, `ModuloProduct`).
* `PowerRight`: square and multiply keeps, after i turns, the power by the low i bits of the
  exponent and the next square (`TurnsDone`), modulo the word.
* `TruncatedIs`: the quotient towards zero of the C language is the one `Truncated` chooses.
* Comparisons and divisions of signed words go through the weight of the sign bit (`SignIs`),
  shifts and extensions bit by bit (`ShiftsExact`, `ExtensionRight`).

`WideProofs` proves `WideOperatorsAreExact`: `Spec => []WideExact`, for limbs of any number of bits
from two on and every width, a single limb, full limbs and a partial last one alike. From `LimbBits`
the proof uses only `LimbBitsAssumption`, from the widths that they are positive.

* A bit of a value has one place: a limb and a bit of it (`Place0`, `EveryBitHasAPlace`, `OnePlace`).
  `WideDigits`: the digits of `WideNum(v)` are the bits of its limbs. So an answer
  is compared with an integer bit by bit, and `MaskedIs` turns limbs that agree
  with an integer below the width into its remainder modulo 2^width. Bitwise operators, masks,
  shifts, resizing and both sign extensions follow; a negative number has infinitely many ones.
* Addition and subtraction: `CarriedSum` says that after n limbs the words done so far and
  the carry are the sum of what has been read. The carry is found from two wrapped sums, of which at
  most one can overflow (`AddWordIs`, `SubWordIs`).
* Comparison: the highest limb that differs decides (`OneWordMore`); signed ones by the sign bit.
* Multiplication, long division and powers are loops over bits. `MulIs`: after i bits of b, a times
  these bits, modulo 2^width. `LongDivisionIs`: after the leading bits of the numerator their
  quotient and remainder; the shifted remainder never leaves the width, since it is below
  both the divisor and the bits seen. `PowerTurnsIs` is square and multiply on limbs.
* `RedXorIs`: after k limbs the parity of the digits below `LimbBits * k`.

### Doubles

`RealProofs` proves `RealOperatorsAreRounded`: `Spec => []RealRounded`, and
`RealConversionsAreExact`: `Spec => []RealConverted`, for every format that satisfies
`RealAssumption`: three fraction bits or more, an exponent range that holds all integers a
significand can (`FractionBits < 2^(ExponentBits - 1)`, 52 and 11 in the code), and integers
wider than the fraction. The range of normal numbers, outside which a result is known
to be rounded twice, is part of the properties.

* `UnitsOrder`: `Units` is strictly increasing in the magnitude, the exponent and fraction read as one
  number. So a double is nearest to a value as soon as it beats its two
  neighbours, and `NearestIs` shows that of a significand rounded to even, at a power
  of two, where the step below is half the step above, and at the last double before infinity too.
* The exact result of an operation may need many more bits than the three extra ones that are kept.
  Rounding needs only that these place it among the multiples of half a last
  place: on one, or strictly between two (`Places`). A sticky bit keeps this (`Sticky`) through
  shifts (`ShiftSticks`, two of them in a row: `ShiftAgain`), alignment (`AlignedIs`), the
  carry of a sum (`AddedIs`) and cancellation (`CancelledIs`: the leading bit moves by more
  than one place only when the alignment has lost nothing).
* `RoundedIs` and `RoundPackIs` join the two: a significand that `Stands` for the exact result is
  packed as the nearest double, with the carry into the exponent. `ProductIs`, `QuotientIs`
  (the remainder of the division is the sticky bit) and `SumIs` show that each operation
  ends with such a significand. `SpecialFacts` and `NaNsAre` are the other operands.
* `HalfEvenIs` is rounding to an integer, `FromU64Is` the way back, exact below
  `2^(FractionBits + 1)` (`NearestExact`). `floor` and `ceil` go through an integer and compare with the
  operand, which sees exactly the whole numbers (`WholeIs`). `ComparesAre`, `NeighboursAre`,
  `FractionIs` and `ScalingIs` rest on `UnitsOrder` again.

### What is only model-checked

* The liveness properties `SleepersWake`, `ServicesReturn`, `ReadyProcessesRun`: fairness and
  `ENABLED` are out of the prover's reach.
* The properties of `VmExec` and `NetDesign`: the compiler and the elaboration are recursive
  operators over trees, and the prover loses its arithmetic in a module that declares one. `vm_exec` and
  `net_design` check them over all nestings of a bounded depth, or a family of programs.

## Plan

Done, in this order: `Scheduler` and `ServiceRing` with their theorems; `ExecReady`;
`FourState`, `WideInt`, `RealCore` and `Arithmetic`; `Statements`, `VmCompile`, `VmExec`;
`TimingChecks` and `Overrides` with their theorems; the theorems about `ExecReady` and the
4-state library; `Elaboration`, `Netlist`, `Hierarchy` and
`NetDesign`; the theorems about numbers, wide integers and doubles.

Open:

1. `HostLoop`: the cadence of the drains, the rule that a drain resumes a process for
   its last record only (`main.mm:5319`) with the records of `$monitor` and `$strobe`,
   several instances of which the host reads the status of the first (`main.mm:7468`), and
   capacities that do not divide 2^32 (22953); composed with `ServiceFifo`.
2. Elaboration: switches and their nets, functions, generate blocks, and the cycle check
   against the emitted order.
3. Proofs: that the compiled code of `VmCompile` does what the source says, for a fragment
   without recursion in the statements.

## Not modelled, and why

The parser, apart from the functions the map names, and the rest of the expression emitter are
sequential translations without state that a model of this size would only repeat. The
elementary functions of `gpga_real.h` are tables and polynomials over 64-bit words, which TLC
cannot enumerate. VCD, SDF and `readmem` are file formats. In the Metal runtime the pipeline
caches, archives and counters are calls into a closed framework; of its behaviour the models
use only that a dispatch returns after its threads. A dispatch that times out ends the program.
