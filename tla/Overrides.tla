------------------------------ MODULE Overrides ------------------------------
(***************************************************************************)
(* force, release, assign and deassign as the scheduler kernel carries     *)
(* them out (msl_codegen.cc): one value and one shadow per signal, and per *)
(* target the id of the force and of the assign statement in effect.  The  *)
(* value is what the design reads.  A reg that is covered keeps the value  *)
(* its procedures give it in the shadow.  Every combinational update ends  *)
(* by evaluating the statements in effect again.                           *)
(*                                                                         *)
(* The kernel exists in two forms: one with a switch over the statements   *)
(* of the design, and one that interprets the tables of the VM.            *)
(***************************************************************************)
CONSTANTS Operands,  \* the signals that right-hand sides and drivers read
          Regs,      \* the targets of type reg
          Wires,     \* the other targets, each with a continuous assignment
          Driver,    \* the operand that drives a wire
          Forces, Assigns,      \* the force and the assign statements: [target, rhs]
          Releases, Deassigns,  \* the targets of the release and the deassign statements
          None,      \* 0xFFFFFFFF: no statement
          Values,
          StrayReleases  \* whether programs release what is not covered

Targets == Regs \cup Wires
Signals == Operands \cup Targets

\* Whether the target has a slot for an assign: some statement of the design names it.
passign_valid(t) == t \in Deassigns \/ \E a \in Assigns : a.target = t

ASSUME OverridesAssumption ==
    /\ Operands \cap Targets = {}
    /\ Regs \cap Wires = {}
    /\ Driver \in [Wires -> Operands]
    /\ Forces \subseteq [target : Targets, rhs : Operands]
    /\ Assigns \subseteq [target : Regs, rhs : Operands]
    /\ Releases \subseteq Targets /\ Deassigns \subseteq Regs
    /\ \A t \in Targets : t \in Releases \/ passign_valid(t) \/ \E f \in Forces : f.target = t
    /\ None \notin Forces \cup Assigns
    /\ Values # {}
    /\ StrayReleases \in BOOLEAN

VARIABLES sched_vm,         \* the form of the kernel
          value,            \* gpga_state
          shadow,           \* sched_force_state
          sched_force_id,   \* the force in effect on a target
          sched_passign_id, \* the assign in effect on a target
          sched_error

vars == <<sched_vm, value, shadow, sched_force_id, sched_passign_id, sched_error>>

force_active(t)   == sched_force_id[t] # None
passign_active(t) == sched_passign_id[t] # None
override_active(t) == force_active(t) \/ passign_active(t)

\* A mutant of Init: the slots start at 0, the id of a statement.
InitWithZeroes ==
    /\ sched_vm \in BOOLEAN
    /\ value \in [Signals -> Values]
    /\ \E v \in Values : shadow = [t \in Targets |-> v]
    /\ \E f \in Forces : sched_force_id = [t \in Targets |-> f]
    /\ sched_passign_id = [t \in Targets |-> None]
    /\ sched_error = FALSE
Init ==
    /\ sched_vm \in BOOLEAN
    /\ value \in [Signals -> Values]
    /\ \E v \in Values : shadow = [t \in Targets |-> v]
    /\ sched_force_id = [t \in Targets |-> None]
    /\ sched_passign_id = [t \in Targets |-> None]
    /\ sched_error = FALSE

\* A process assigns an operand; the operands are not targets.
AssignOperand(s, v) ==
    /\ value' = [value EXCEPT ![s] = v]
    /\ UNCHANGED <<sched_vm, shadow, sched_force_id, sched_passign_id, sched_error>>

Error ==
    /\ sched_error' = TRUE
    /\ UNCHANGED <<sched_vm, value, shadow, sched_force_id, sched_passign_id>>

Store(t, v) ==
    /\ IF override_active(t)
       THEN shadow' = [shadow EXCEPT ![t] = v] /\ value' = value
       ELSE value' = [value EXCEPT ![t] = v] /\ shadow' = shadow
    /\ UNCHANGED <<sched_vm, sched_force_id, sched_passign_id, sched_error>>

\* `=` to a target.  The tables of the VM have no entry for it.
AssignTarget(t, v) == IF sched_vm THEN Error ELSE Store(t, v)

\* The VM stores the answer of a service itself.
ServiceReturn(t, v) == sched_vm /\ Store(t, v)

\* A mutant of Saved: the value is saved again when a force covers an assign.
SavedUnlessForced(t) == IF t \in Regs /\ ~force_active(t) THEN [shadow EXCEPT ![t] = value[t]]
                                                          ELSE shadow
Saved(t) == IF t \in Regs /\ ~override_active(t) THEN [shadow EXCEPT ![t] = value[t]] ELSE shadow

ExecForce(f) ==
    /\ shadow' = Saved(f.target)
    /\ sched_force_id' = [sched_force_id EXCEPT ![f.target] = f]
    /\ value' = [value EXCEPT ![f.target] = value[f.rhs]]
    /\ UNCHANGED <<sched_vm, sched_passign_id, sched_error>>

ExecAssign(a) ==
    /\ shadow' = Saved(a.target)
    /\ sched_passign_id' = [sched_passign_id EXCEPT ![a.target] = a]
    /\ value' = IF force_active(a.target) THEN value
                ELSE [value EXCEPT ![a.target] = value[a.rhs]]
    /\ UNCHANGED <<sched_vm, sched_force_id, sched_error>>

\* The slots come from the statements of all four kinds, so the kernel's test that a
\* target of a deassign or release has one never fails.
ExecDeassign(t) ==
    /\ StrayReleases \/ passign_active(t)
    /\ sched_passign_id' = [sched_passign_id EXCEPT ![t] = None]
    /\ value' = IF force_active(t) THEN value ELSE [value EXCEPT ![t] = shadow[t]]
    /\ UNCHANGED <<sched_vm, shadow, sched_force_id, sched_error>>

\* What a release leaves: the assign in effect, the saved value of a reg, and for a
\* wire the forced value until the next combinational update.
Uncovered(t) ==
    IF passign_active(t) THEN value[sched_passign_id[t].rhs]
    ELSE IF t \in Regs THEN shadow[t] ELSE value[t]

\* The tables of the VM have no release of a target that also has an assign or deassign.
ExecRelease(t) ==
    /\ StrayReleases \/ force_active(t)
    /\ IF sched_vm /\ passign_valid(t)
       THEN Error
       ELSE /\ sched_force_id' = [sched_force_id EXCEPT ![t] = None]
            /\ value' = [value EXCEPT ![t] = Uncovered(t)]
            /\ UNCHANGED <<sched_vm, shadow, sched_passign_id, sched_error>>

\* What a target has before the statements in effect are evaluated: the continuous
\* assignments have just written the wires.
Driven(t) == IF t \in Wires THEN value[Driver[t]] ELSE value[t]

Overridden(t) ==
    IF force_active(t) THEN value[sched_force_id[t].rhs]
    ELSE IF passign_active(t) THEN value[sched_passign_id[t].rhs] ELSE Driven(t)

CombUpdate ==
    /\ value' = [s \in Signals |-> IF s \in Targets THEN Overridden(s) ELSE value[s]]
    /\ UNCHANGED <<sched_vm, shadow, sched_force_id, sched_passign_id, sched_error>>

Next ==
    \/ \E s \in Operands, v \in Values : AssignOperand(s, v)
    \/ \E t \in Regs, v \in Values : AssignTarget(t, v) \/ ServiceReturn(t, v)
    \/ \E f \in Forces : ExecForce(f)
    \/ \E a \in Assigns : ExecAssign(a)
    \/ \E t \in Deassigns : ExecDeassign(t)
    \/ \E t \in Releases : ExecRelease(t)
    \/ CombUpdate

Spec == Init /\ [][Next]_vars

-----------------------------------------------------------------------------
(***************************************************************************)
(* The layers, from the two values and the ids.                            *)
(***************************************************************************)
Operand == [s \in Operands |-> value[s]]
Base    == [t \in Regs |-> IF override_active(t) THEN shadow[t] ELSE value[t]]
Shown   == [t \in Targets |-> value[t]]

Layers == INSTANCE LayeredSignal WITH
    operand <- Operand,
    base    <- Base,
    force   <- sched_force_id,
    assign  <- sched_passign_id,
    shown   <- Shown,
    refused <- sched_error

(***************************************************************************)
(* The kernel implements the layers, whatever the order of the operations, *)
(* the stores and the updates: a value given to a covered reg comes back   *)
(* when the last cover goes, a force hides an assign made before or after  *)
(* it, and an operation without an effect is reported in sched_error.      *)
(***************************************************************************)
ImplementsLayers == Layers!Spec

(***************************************************************************)
(* Every variable has its type, and a statement is in effect on its own    *)
(* target only.                                                            *)
(***************************************************************************)
OverridesTypeOK ==
    /\ sched_vm \in BOOLEAN /\ sched_error \in BOOLEAN
    /\ value \in [Signals -> Values]
    /\ shadow \in [Targets -> Values]
    /\ sched_force_id \in [Targets -> Forces \cup {None}]
    /\ sched_passign_id \in [Targets -> Assigns \cup {None}]
    /\ \A t \in Targets : /\ force_active(t) => sched_force_id[t].target = t
                          /\ passign_active(t) => t \in Regs /\ sched_passign_id[t].target = t
=============================================================================
