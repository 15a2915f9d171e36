---------------------------- MODULE LayeredSignal ----------------------------
(***************************************************************************)
(* What force, release, assign and deassign promise.  A signal has three   *)
(* layers: the value the design gives it, a procedural continuous          *)
(* assignment over it, and a force over both.  The signal shows the        *)
(* topmost layer that is there.  An operation adds or takes away a layer   *)
(* and leaves the others alone, or it is refused and the refusal stays     *)
(* visible.                                                                *)
(***************************************************************************)
CONSTANTS Operands,  \* the signals that right-hand sides and drivers read
          Regs,      \* the targets that procedures assign
          Wires,     \* the targets that continuous assignments drive
          Driver,    \* the operand that drives a wire
          Forces, Assigns,  \* the force and the assign statements: [target, rhs]
          None,      \* no statement
          Values

Targets == Regs \cup Wires

VARIABLES operand,  \* the values of the operands
          base,     \* the value the procedures have given a reg
          force,    \* the force statement in effect on a target, or None
          assign,   \* the assign statement in effect on a target, or None
          shown,    \* the value of a target that the rest of the design reads
          refused   \* whether an operation has been refused

vars == <<operand, base, force, assign, shown, refused>>

Covered(t) == force[t] # None \/ assign[t] # None

Top(t) == IF force[t] # None THEN operand[force[t].rhs]
          ELSE IF assign[t] # None THEN operand[assign[t].rhs]
          ELSE IF t \in Regs THEN base[t] ELSE operand[Driver[t]]

Init ==
    /\ operand \in [Operands -> Values]
    /\ base \in [Regs -> Values]
    /\ force = [t \in Targets |-> None] /\ assign = [t \in Targets |-> None]
    /\ shown \in [Targets -> Values]
    /\ \A t \in Regs : shown[t] = base[t]
    /\ refused = FALSE

\* An operand changes; what depends on it follows when the design settles.
Change(s, v) ==
    /\ operand' = [operand EXCEPT ![s] = v]
    /\ UNCHANGED <<base, force, assign, shown, refused>>

\* A procedure assigns a reg: a covered reg keeps the value for later.
Store(t, v) ==
    /\ base' = [base EXCEPT ![t] = v]
    /\ shown' = [shown EXCEPT ![t] = IF Covered(t) THEN @ ELSE v]
    /\ UNCHANGED <<operand, force, assign, refused>>

Force(f) ==
    /\ force' = [force EXCEPT ![f.target] = f]
    /\ assign' = assign
    /\ shown' = [shown EXCEPT ![f.target] = operand[f.rhs]]
    /\ UNCHANGED <<operand, base, refused>>

\* Below a force an assign changes nothing that is shown.
Assign(a) ==
    /\ assign' = [assign EXCEPT ![a.target] = a]
    /\ force' = force
    /\ shown' = [shown EXCEPT ![a.target] = IF force[a.target] # None THEN @ ELSE operand[a.rhs]]
    /\ UNCHANGED <<operand, base, refused>>

\* A reg shows the layer below at once, a wire its driver when the design settles.
Release(t) ==
    /\ force' = [force EXCEPT ![t] = None]
    /\ shown' = [shown EXCEPT ![t] = IF assign[t] # None THEN operand[assign[t].rhs]
                                     ELSE IF t \in Regs THEN base[t] ELSE @]
    /\ UNCHANGED <<operand, base, assign, refused>>

Deassign(t) ==
    /\ assign' = [assign EXCEPT ![t] = None]
    /\ shown' = [shown EXCEPT ![t] = IF force[t] # None THEN @ ELSE base[t]]
    /\ UNCHANGED <<operand, base, force, refused>>

Settle ==
    /\ shown' = [t \in Targets |-> Top(t)]
    /\ UNCHANGED <<operand, base, force, assign, refused>>

Refuse ==
    /\ refused' = TRUE
    /\ UNCHANGED <<operand, base, force, assign, shown>>

Next ==
    \/ \E s \in Operands, v \in Values : Change(s, v)
    \/ \E t \in Regs, v \in Values : Store(t, v)
    \/ \E f \in Forces : Force(f)
    \/ \E a \in Assigns : Assign(a)
    \/ \E t \in Targets : Release(t)
    \/ \E t \in Regs : Deassign(t)
    \/ Settle
    \/ Refuse

Spec == Init /\ [][Next]_vars
=============================================================================
