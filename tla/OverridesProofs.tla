--------------------------- MODULE OverridesProofs ---------------------------
(* Proofs about Overrides, for every design that satisfies                    *)
(* OverridesAssumption and both forms of the kernel.                          *)
EXTENDS Overrides, TLAPS

\* The kinds of signals do not overlap, and what a statement reads is an operand.
LEMMA DesignFacts ==
  /\ \A s \in Operands : s \in Signals /\ s \notin Targets /\ s \notin Wires
  /\ \A t \in Targets : t \in Signals /\ t \notin Operands
  /\ \A t \in Regs : t \in Targets /\ t \notin Wires
  /\ \A w \in Wires : w \in Targets /\ w \notin Regs /\ Driver[w] \in Operands
  /\ Releases \subseteq Targets /\ Deassigns \subseteq Regs
  /\ \A f \in Forces : f.target \in Targets /\ f.rhs \in Operands /\ f # None
  /\ \A a \in Assigns : a.target \in Regs /\ a.rhs \in Operands /\ a # None
  BY OverridesAssumption DEF Signals, Targets

\* An update gives every target a value of the design.
LEMMA UpdateTyped ==
  ASSUME OverridesTypeOK, NEW t \in Targets
  PROVE  Overridden(t) \in Values
<1>1. Driven(t) \in Values
  BY DesignFacts DEF Driven, OverridesTypeOK
<1> QED
  BY <1>1, DesignFacts DEF Overridden, OverridesTypeOK, force_active, passign_active

\* Each operation keeps the type invariant.
LEMMA TypeKept == OverridesTypeOK /\ [Next]_vars => OverridesTypeOK'
<1> SUFFICES ASSUME OverridesTypeOK, [Next]_vars PROVE OverridesTypeOK'
  OBVIOUS
<1> USE DesignFacts
<1>1. ASSUME NEW s \in Operands, NEW v \in Values, AssignOperand(s, v) PROVE OverridesTypeOK'
  BY <1>1 DEF AssignOperand, OverridesTypeOK, force_active, passign_active
<1>2. ASSUME NEW t \in Regs, NEW v \in Values, Store(t, v) PROVE OverridesTypeOK'
  BY <1>2 DEF Store, OverridesTypeOK, force_active, passign_active
<1>3. ASSUME Error PROVE OverridesTypeOK'
  BY <1>3 DEF Error, OverridesTypeOK, force_active, passign_active
<1>4. \A t \in Targets : Saved(t) \in [Targets -> Values]
  BY DEF Saved, OverridesTypeOK
<1>5. ASSUME NEW f \in Forces, ExecForce(f) PROVE OverridesTypeOK'
  BY <1>4, <1>5 DEF ExecForce, OverridesTypeOK, force_active, passign_active
<1>6. ASSUME NEW a \in Assigns, ExecAssign(a) PROVE OverridesTypeOK'
  BY <1>4, <1>6 DEF ExecAssign, OverridesTypeOK, force_active, passign_active
<1>7. ASSUME NEW t \in Deassigns, ExecDeassign(t) PROVE OverridesTypeOK'
  BY <1>7 DEF ExecDeassign, OverridesTypeOK, force_active, passign_active
<1>8. ASSUME NEW t \in Releases, ExecRelease(t) PROVE OverridesTypeOK'
  <2>1. CASE sched_vm /\ passign_valid(t)
    BY <1>3, <1>8, <2>1 DEF ExecRelease
  <2>2. CASE ~(sched_vm /\ passign_valid(t))
    <3>1. Uncovered(t) \in Values
      BY DEF Uncovered, OverridesTypeOK, passign_active
    <3> QED
      BY <1>8, <2>2, <3>1 DEF ExecRelease, OverridesTypeOK, force_active, passign_active
  <2> QED
    BY <2>1, <2>2
<1>9. ASSUME CombUpdate PROVE OverridesTypeOK'
  <2>1. value' \in [Signals -> Values]
    BY <1>9, UpdateTyped DEF CombUpdate, OverridesTypeOK
  <2> QED
    BY <1>9, <2>1 DEF CombUpdate, OverridesTypeOK, force_active, passign_active
<1>10. ASSUME UNCHANGED vars PROVE OverridesTypeOK'
  BY <1>10 DEF vars, OverridesTypeOK, force_active, passign_active
<1> QED
  BY <1>1, <1>2, <1>3, <1>5, <1>6, <1>7, <1>8, <1>9, <1>10
  DEF Next, AssignTarget, ServiceReturn

\* Type correctness of the override state (sched_force_id, sched_passign_id and the
\* shadow): a statement is never in effect on a target that is not its own.
THEOREM OverridesTyped == Spec => []OverridesTypeOK
<1>1. Init => OverridesTypeOK
  BY DEF Init, OverridesTypeOK, force_active, passign_active
<1> QED
  BY <1>1, TypeKept, PTL DEF Spec

\* A step that changes at most the value of t changes what t shows, and no operand.
LEMMA ShownAt ==
  ASSUME OverridesTypeOK, NEW t \in Targets, NEW v,
         value' = [value EXCEPT ![t] = v]
  PROVE  /\ Operand' = Operand
         /\ Shown' = [Shown EXCEPT ![t] = v]
<1> USE DesignFacts
<1>1. \A s \in Signals : value'[s] = IF s = t THEN v ELSE value[s]
  BY DEF OverridesTypeOK
<1>2. Operand' = Operand
  BY <1>1 DEF Operand
<1>3. \A s \in Targets : Shown'[s] = IF s = t THEN v ELSE Shown[s]
  BY <1>1 DEF Shown
<1>4. Shown \in [Targets -> Values] /\ DOMAIN Shown' = Targets
  BY DEF Shown, OverridesTypeOK
<1>5. Shown' = [s \in Targets |-> Shown'[s]]
  BY DEF Shown
<1>6. [Shown EXCEPT ![t] = v] = [s \in Targets |-> IF s = t THEN v ELSE Shown[s]]
  BY <1>4
<1> QED
  BY <1>2, <1>3, <1>5, <1>6

\* What the layers see of the value of a signal.
LEMMA Seen ==
  /\ \A s \in Operands : Operand[s] = value[s]
  /\ \A t \in Targets : Shown[t] = value[t]
  /\ \A t \in Regs : Base[t] = IF override_active(t) THEN shadow[t] ELSE value[t]
  BY DEF Operand, Shown, Base

\* The values below the covers stay when each of them does.
LEMMA BaseKept ==
  ASSUME \A t \in Regs : Base'[t] = Base[t]
  PROVE  Base' = Base
  BY DEF Base

\* Each step of the kernel is a step of the layers, in designs that release only
\* what is covered.
LEMMA StepImplements ==
  ASSUME OverridesTypeOK, ~StrayReleases, [Next]_vars
  PROVE  [Layers!Next]_(Layers!vars)
<1> USE DesignFacts, Seen
<1>1. ASSUME NEW s \in Operands, NEW v \in Values, AssignOperand(s, v)
      PROVE  Layers!Change(s, v)
  <2>1. \A x \in Signals : value'[x] = IF x = s THEN v ELSE value[x]
    BY <1>1 DEF AssignOperand, OverridesTypeOK
  <2>2. Shown' = Shown
    BY <2>1 DEF Shown
  <2>3. Base' = Base
    BY <1>1, <2>1, BaseKept DEF AssignOperand, Base, override_active, force_active, passign_active
  <2>4. Operand' = [x \in Operands |-> IF x = s THEN v ELSE Operand[x]]
    BY <2>1 DEF Operand
  <2>5. Operand' = [Operand EXCEPT ![s] = v]
    BY <2>4 DEF Operand
  <2> QED
    BY <1>1, <2>2, <2>3, <2>5 DEF AssignOperand, Layers!Change
<1>2. ASSUME NEW t \in Regs, NEW v \in Values, Store(t, v)
      PROVE  Layers!Store(t, v)
  <2>1. Base' = [Base EXCEPT ![t] = v]
    <3>1. \A x \in Regs : Base'[x] = IF x = t THEN v ELSE Base[x]
      BY <1>2 DEF Store, Base, OverridesTypeOK, override_active, force_active, passign_active
    <3>2. Base' = [x \in Regs |-> IF x = t THEN v ELSE Base[x]]
      BY <3>1 DEF Base
    <3> QED
      BY <3>2 DEF Base
  <2>2. CASE override_active(t)
    <3>1. value' = value
      BY <1>2, <2>2 DEF Store
    <3>2. Operand' = Operand /\ Shown' = Shown
      BY <3>1 DEF Operand, Shown
    <3>3. Shown = [Shown EXCEPT ![t] = Shown[t]]
      BY DEF Shown
    <3> QED
      BY <1>2, <2>1, <2>2, <3>2, <3>3
      DEF Store, Layers!Store, Layers!Covered, override_active, force_active, passign_active
  <2>3. CASE ~override_active(t)
    <3>1. Operand' = Operand /\ Shown' = [Shown EXCEPT ![t] = v]
      BY <1>2, <2>3, ShownAt DEF Store
    <3> QED
      BY <1>2, <2>1, <2>3, <3>1
      DEF Store, Layers!Store, Layers!Covered, override_active, force_active, passign_active
  <2> QED
    BY <2>2, <2>3
<1>3. ASSUME Error PROVE Layers!Refuse
  <2>1. Operand' = Operand /\ Shown' = Shown /\ Base' = Base
    BY <1>3 DEF Error, Operand, Shown, Base, override_active, force_active, passign_active
  <2> QED
    BY <1>3, <2>1 DEF Error, Layers!Refuse
<1>4. ASSUME NEW f \in Forces, ExecForce(f) PROVE Layers!Force(f)
  <2>1. Operand' = Operand /\ Shown' = [Shown EXCEPT ![f.target] = value[f.rhs]]
    BY <1>4, ShownAt DEF ExecForce
  <2>2. \A t \in Targets : override_active(t)' <=> t = f.target \/ override_active(t)
    BY <1>4 DEF ExecForce, OverridesTypeOK, override_active, force_active, passign_active
  <2>3. \A t \in Targets : shadow'[t] = IF t = f.target /\ t \in Regs /\ ~override_active(t)
                                        THEN value[t] ELSE shadow[t]
    BY <1>4 DEF ExecForce, Saved, OverridesTypeOK
  <2>4. \A t \in Targets \ {f.target} : value'[t] = value[t]
    BY <1>4 DEF ExecForce, OverridesTypeOK
  <2>5. \A t \in Regs : Base'[t] = IF override_active(t)' THEN shadow'[t] ELSE value'[t]
    BY DEF Base
  <2>6. Base' = Base
    BY <2>2, <2>3, <2>4, <2>5, BaseKept
  <2> QED
    BY <1>4, <2>1, <2>6 DEF ExecForce, Layers!Force
<1>5. ASSUME NEW a \in Assigns, ExecAssign(a) PROVE Layers!Assign(a)
  <2> DEFINE t == a.target
  <2>1. Operand' = Operand /\ Shown' = [Shown EXCEPT ![t] = IF force_active(t) THEN @
                                                           ELSE value[a.rhs]]
    <3>1. CASE force_active(t)
      <4>1. Operand' = Operand /\ Shown' = Shown
        BY <1>5, <3>1 DEF ExecAssign, Operand, Shown
      <4> QED
        BY <3>1, <4>1 DEF Shown
    <3>2. CASE ~force_active(t)
      BY <1>5, <3>2, ShownAt DEF ExecAssign
    <3> QED
      BY <3>1, <3>2
  <2>2. \A x \in Targets : override_active(x)' <=> x = t \/ override_active(x)
    BY <1>5 DEF ExecAssign, OverridesTypeOK, override_active, force_active, passign_active
  <2>3. \A x \in Targets : shadow'[x] = IF x = t /\ ~override_active(x) THEN value[x] ELSE shadow[x]
    BY <1>5 DEF ExecAssign, Saved, OverridesTypeOK
  <2>4. \A x \in Targets \ {t} : value'[x] = value[x]
    BY <1>5 DEF ExecAssign, OverridesTypeOK
  <2>5. \A x \in Regs : Base'[x] = IF override_active(x)' THEN shadow'[x] ELSE value'[x]
    BY DEF Base
  <2>6. Base' = Base
    BY <2>2, <2>3, <2>4, <2>5, BaseKept
  <2> QED
    BY <1>5, <2>1, <2>6 DEF ExecAssign, Layers!Assign, force_active
<1>6. ASSUME NEW t \in Deassigns, ExecDeassign(t) PROVE Layers!Deassign(t)
  <2>0. t \in Regs /\ t \in Targets
    OBVIOUS
  <2>1. Base[t] = shadow[t]
    BY <1>6, <2>0 DEF ExecDeassign, override_active
  <2>2. Operand' = Operand /\ Shown' = [Shown EXCEPT ![t] = IF force_active(t) THEN @
                                                           ELSE shadow[t]]
    <3>1. CASE force_active(t)
      <4>1. Operand' = Operand /\ Shown' = Shown
        BY <1>6, <3>1 DEF ExecDeassign, Operand, Shown
      <4> QED
        BY <3>1, <4>1 DEF Shown
    <3>2. CASE ~force_active(t)
      <4>1. value' = [value EXCEPT ![t] = shadow[t]]
        BY <1>6, <3>2 DEF ExecDeassign
      <4>2. Operand' = Operand /\ Shown' = [Shown EXCEPT ![t] = shadow[t]]
        BY <2>0, <4>1, ShownAt
      <4> QED
        BY <3>2, <4>2
    <3> QED
      BY <3>1, <3>2
  <2>3. \A x \in Targets : override_active(x)' <=> IF x = t THEN force_active(t)
                                                          ELSE override_active(x)
    BY <1>6 DEF ExecDeassign, OverridesTypeOK, override_active, force_active, passign_active
  <2>4. \A x \in Targets : value'[x] = IF x = t /\ ~force_active(t) THEN shadow[t] ELSE value[x]
    BY <1>6 DEF ExecDeassign, OverridesTypeOK
  <2>5. \A x \in Regs : Base'[x] = IF override_active(x)' THEN shadow[x] ELSE value'[x]
    BY <1>6 DEF ExecDeassign, Base
  <2>6. Base' = Base
    BY <2>1, <2>3, <2>4, <2>5, BaseKept
  <2> QED
    BY <1>6, <2>0, <2>1, <2>2, <2>6 DEF ExecDeassign, Layers!Deassign, force_active
<1>7. ASSUME NEW t \in Releases, ExecRelease(t) PROVE Layers!Release(t) \/ Layers!Refuse
  <2>1. CASE sched_vm /\ passign_valid(t)
    BY <1>3, <1>7, <2>1 DEF ExecRelease
  <2>2. CASE ~(sched_vm /\ passign_valid(t))
    <3>1. t \in Regs => Base[t] = shadow[t]
      BY <1>7 DEF ExecRelease, override_active
    <3>2. Operand' = Operand /\ Shown' = [Shown EXCEPT ![t] = Uncovered(t)]
      BY <1>7, <2>2, ShownAt DEF ExecRelease
    <3>3. \A x \in Targets : override_active(x)' <=> IF x = t THEN passign_active(t)
                                                            ELSE override_active(x)
      BY <1>7, <2>2 DEF ExecRelease, OverridesTypeOK, override_active, force_active, passign_active
    <3>4. \A x \in Targets : value'[x] = IF x = t THEN Uncovered(t) ELSE value[x]
      BY <1>7, <2>2 DEF ExecRelease, OverridesTypeOK
    <3>5. \A x \in Regs : Base'[x] = IF override_active(x)' THEN shadow[x] ELSE value'[x]
      BY <1>7, <2>2 DEF ExecRelease, Base
    <3>6. t \in Regs /\ ~passign_active(t) => Uncovered(t) = shadow[t]
      BY DEF Uncovered
    <3>7. Base' = Base
      BY <3>1, <3>3, <3>4, <3>5, <3>6, BaseKept
    <3>8. Uncovered(t) = IF passign_active(t) THEN Operand[sched_passign_id[t].rhs]
                         ELSE IF t \in Regs THEN Base[t] ELSE Shown[t]
      BY <3>1 DEF Uncovered, OverridesTypeOK, passign_active
    <3> QED
      BY <1>7, <2>2, <3>2, <3>7, <3>8 DEF ExecRelease, Layers!Release, passign_active
  <2> QED
    BY <2>1, <2>2
<1>8. ASSUME CombUpdate PROVE Layers!Settle
  <2>1. Operand' = Operand
    BY <1>8 DEF CombUpdate, Driven, Operand, Signals
  <2>2. \A t \in Targets : value'[t] = Overridden(t)
    BY <1>8 DEF CombUpdate
  <2>3. \A t \in Targets : Overridden(t) = Layers!Top(t)
    BY OverridesAssumption
    DEF Overridden, Driven, Layers!Top, OverridesTypeOK, force_active, passign_active,
        override_active, Targets
  <2>4. Shown' = [t \in Targets |-> Layers!Top(t)]
    BY <2>2, <2>3 DEF Shown
  <2>5. \A t \in Regs : override_active(t)' = override_active(t) /\ shadow'[t] = shadow[t]
    BY <1>8 DEF CombUpdate, override_active, force_active, passign_active
  <2>6. \A t \in Regs : ~override_active(t) => value'[t] = value[t]
    BY <2>2 DEF Overridden, Driven, override_active
  <2>7. \A t \in Regs : Base'[t] = IF override_active(t)' THEN shadow'[t] ELSE value'[t]
    BY DEF Base
  <2>8. Base' = Base
    BY <2>5, <2>6, <2>7, BaseKept
  <2> QED
    BY <1>8, <2>1, <2>4, <2>8 DEF CombUpdate, Layers!Settle, Layers!Targets, Targets
<1>9. ASSUME UNCHANGED vars PROVE UNCHANGED Layers!vars
  BY <1>9 DEF vars, Layers!vars, Operand, Shown, Base, override_active, force_active, passign_active
<1>10. ASSUME NEW t \in Regs, NEW v \in Values, AssignTarget(t, v) \/ ServiceReturn(t, v)
       PROVE  Layers!Store(t, v) \/ Layers!Refuse
  BY <1>2, <1>3, <1>10 DEF AssignTarget, ServiceReturn
<1>11. CASE Next
  BY <1>1, <1>4, <1>5, <1>6, <1>7, <1>8, <1>10, <1>11
  DEF Next, Layers!Next, Layers!Targets, Targets
<1> QED
  BY <1>9, <1>11

\* Both forms of the kernel implement the three layers (value, assign, force) with one
\* value, one shadow and two ids per target: nothing a procedure gives a covered reg is
\* lost, for every set of signals and statements and every order of operations.
THEOREM LayersImplemented ==
  ASSUME ~StrayReleases
  PROVE  Spec => ImplementsLayers
<1>1. Init => Layers!Init
  <2> SUFFICES ASSUME Init PROVE Layers!Init
    OBVIOUS
  <2>1. Operand \in [Operands -> Values] /\ Shown \in [Targets -> Values]
    BY DesignFacts DEF Init, Operand, Shown
  <2>2. \A t \in Regs : Base[t] = value[t] /\ Shown[t] = value[t]
    BY DesignFacts DEF Init, Base, Shown, override_active, force_active, passign_active
  <2>3. Base \in [Regs -> Values]
    BY <2>2, DesignFacts DEF Init, Base
  <2> QED
    BY <2>1, <2>2, <2>3 DEF Init, Layers!Init, Layers!Targets, Targets
<1>2. OverridesTypeOK /\ [Next]_vars => [Layers!Next]_(Layers!vars)
  BY StepImplements
<1> QED
  BY <1>1, <1>2, OverridesTyped, PTL DEF Spec, Layers!Spec, ImplementsLayers

=============================================================================
