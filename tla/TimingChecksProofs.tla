-------------------------- MODULE TimingChecksProofs --------------------------
(* Proofs about TimingChecks, for every set of calls, every limit and any     *)
(* bound on time that satisfy TimingAssumption.                               *)
EXTENDS TimingChecks, TLAPS

(***************************************************************************)
(* Sets of times and the one time that is remembered of them.              *)
(***************************************************************************)
\* A time that is updated with the edge of each sample stays the last one.
LEMMA StillLast ==
  ASSUME now \in Nat, NEW times \in SUBSET (0 .. now), NEW time \in (0 .. now) \cup {Never},
         Remembers(time, times), NEW edge \in BOOLEAN
  PROVE  /\ Remembers(At(edge, time), AddIf(times, edge, now))
         /\ At(edge, time) \in (0 .. now) \cup {Never}
         /\ AddIf(times, edge, now) \in SUBSET (0 .. now)
  BY DEF Remembers, At, AddIf, Last, Never

\* Whether some edge is close is decided by the last one.
LEMMA LastDecides ==
  ASSUME now \in Nat, NEW times \in SUBSET (0 .. now), NEW time \in (0 .. now) \cup {Never},
         Remembers(time, times), NEW limit \in Int
  PROVE  Within(time, limit) <=> \E t \in times : now - t < limit
  BY DEF Remembers, Within, Last, Never

\* The same for a pulse that began with the last edge.
LEMMA LastBegins ==
  ASSUME now \in Nat, NEW times \in SUBSET (0 .. now), NEW time \in (0 .. now) \cup {Never},
         Remembers(time, times), NEW limit \in Int, check.threshold \in Int
  PROVE  (Within(time, limit) /\ LongEnough(time)) <=> ShortPulse(times, limit)
  BY DEF Remembers, Within, LongEnough, ShortPulse, Last, Never

\* The kernel's tables of edges are those of the events.
LEMMA SameEdges ==
  ASSUME NEW from \in Values, NEW to \in Values
  PROVE  (Pos(from, to) <=> Up(from, to)) /\ (Neg(from, to) <=> Down(from, to))
  BY DEF Values, Pos, Neg, Up, Down, Unknown

(***************************************************************************)
(* The inductive invariant: the remembered values are those of the sample  *)
(* before, and the window of a $nochange is that of the last reference     *)
(* edge.                                                                   *)
(***************************************************************************)
RemembersValues ==
  /\ check.data.edge # "none" => prevData = seenData
  /\ check.ref.edge # "none" => prevRef = seenRef
  /\ seenData \in Values /\ seenRef \in Values

Offset(limit) == IF limit > 0 THEN limit ELSE 0

RemembersWindow ==
  check.kind = "nochange" =>
     IF refEdges = {} THEN window.start = Never
     ELSE \E r \in refEdges : /\ Last(refEdges, r)
                              /\ window.start = r + Offset(check.limit)
                              /\ window.end = r + Offset(check.limit2)

TimingInv == TimingTypeOK /\ LastTimes /\ RemembersValues /\ RemembersWindow

\* What is known of the check of a run.
LEMMA CheckFacts ==
  ASSUME TimingTypeOK
  PROVE  /\ IsCheck(check)
         /\ RegularCalls => Regular(check)
         /\ now \in Nat
  BY TimingAssumption DEF TimingTypeOK, RegularCalls, Times

\* The kernel sees an edge exactly when the event happens.
LEMMA EdgesAgree ==
  ASSUME TimingInv
  PROVE  /\ data_edge = DataNow
         /\ ref_edge = RefNow
         /\ check.ref.edge # "none" /\ ~check.ref.guarded =>
               (ref_pos <=> UpNow) /\ (ref_neg <=> DownNow)
         /\ data_edge \in BOOLEAN /\ ref_edge \in BOOLEAN
<1>1. IsCheck(check) /\ data \in Values /\ ref \in Values /\ seenData \in Values /\ seenRef \in Values
  BY CheckFacts DEF TimingInv, TimingTypeOK, RemembersValues
<1>2. data_edge <=> DataNow
  <2>1. check.data \in Events
    BY <1>1 DEF IsCheck
  <2>2. check.data.edge # "none" => prevData = seenData
    BY DEF TimingInv, RemembersValues
  <2> QED
    BY <1>1, <2>1, <2>2, SameEdges DEF data_edge, DataNow, EdgeOf, Guard, Happens, Events, Edges
<1>3. ref_edge <=> RefNow
  <2>1. check.ref \in Events
    BY <1>1 DEF IsCheck
  <2>2. check.ref.edge # "none" => prevRef = seenRef
    BY DEF TimingInv, RemembersValues
  <2> QED
    BY <1>1, <2>1, <2>2, SameEdges DEF ref_edge, RefNow, EdgeOf, Guard, Happens, Events, Edges
<1>4. ASSUME check.ref.edge # "none", ~check.ref.guarded
      PROVE  (ref_pos <=> UpNow) /\ (ref_neg <=> DownNow)
  <2>1. check.ref \in Events
    BY <1>1 DEF IsCheck
  <2>2. prevRef = seenRef
    BY <1>4 DEF TimingInv, RemembersValues
  <2> QED
    BY <1>1, <1>4, <2>1, <2>2, SameEdges DEF ref_pos, ref_neg, UpNow, DownNow, Happens, Events
<1>5. /\ data_edge \in BOOLEAN /\ DataNow \in BOOLEAN
      /\ ref_edge \in BOOLEAN /\ RefNow \in BOOLEAN
  BY DEF data_edge, ref_edge, DataNow, RefNow, Happens
<1> QED
  BY <1>2, <1>3, <1>4, <1>5

(***************************************************************************)
(* The step of each kind.                                                  *)
(***************************************************************************)
MayBeTime == (0 .. now) \cup {Never}

\* A step remembers times up to now, whatever its kind.
LEMMA StepTyped ==
  ASSUME TimingTypeOK
  PROVE  /\ Step.dataTime \in MayBeTime /\ Step.refTime \in MayBeTime
         /\ Step.window.start \in Int /\ Step.window.end \in Int
         /\ Step.bad \in BOOLEAN
<1>1. IsCheck(check) /\ now \in Nat
  BY CheckFacts
<1>2. ASSUME NEW edge, NEW time \in MayBeTime PROVE At(edge, time) \in MayBeTime
  BY <1>1 DEF At, MayBeTime
<1>3. dataTime \in MayBeTime /\ refTime \in MayBeTime /\ window.start \in Int /\ window.end \in Int
  BY DEF TimingTypeOK, MayBeTime
<1>4. CASE check.kind \in {"setup", "recovery"}
  BY <1>2, <1>3, <1>4 DEF Step, SetupStep, Outcome, ref_edge, Within
<1>5. CASE check.kind \in {"hold", "removal"}
  BY <1>2, <1>3, <1>5 DEF Step, HoldStep, Outcome, data_edge, Within
<1>6. CASE check.kind \in {"setuphold", "recrem"}
  BY <1>2, <1>3, <1>6 DEF Step, SetupHoldStep, Outcome, data_edge, ref_edge, Within
<1>7. CASE check.kind = "period"
  BY <1>2, <1>3, <1>7 DEF Step, PeriodStep, Outcome, ref_edge, Within
<1>8. CASE check.kind \in {"width", "pulsewidth"}
  <2>1. Step = WidthStep
    BY <1>8 DEF Step
  <2>2. CASE Direction(check.ref) = "rise"
    BY <1>2, <1>3, <2>1, <2>2 DEF WidthStep, WidthRiseStep, Outcome, ref_neg, Within
  <2>3. CASE Direction(check.ref) = "fall"
    BY <1>2, <1>3, <2>1, <2>3 DEF WidthStep, WidthFallStep, Outcome, ref_pos, Within
  <2>4. CASE Direction(check.ref) = "any"
    BY <1>2, <1>3, <2>1, <2>4 DEF WidthStep, WidthAnyStep, Outcome, ref_edge, Within
  <2> QED
    BY <2>2, <2>3, <2>4 DEF Direction
<1>9. CASE check.kind \in {"skew", "timeskew", "fullskew"}
  BY <1>2, <1>3, <1>9 DEF Step, SkewStep, Outcome, data_edge, ref_edge
<1>10. CASE check.kind = "nochange"
  <2>1. Step = NoChangeStep
    BY <1>10 DEF Step
  <2>2. check.limit \in Int /\ check.limit2 \in Int
    BY <1>1 DEF IsCheck
  <2> QED
    BY <1>1, <1>3, <2>1, <2>2 DEF NoChangeStep, data_edge
<1> QED
  BY <1>1, <1>4, <1>5, <1>6, <1>7, <1>8, <1>9, <1>10 DEF IsCheck, Kinds

\* Every step keeps the type invariant.
LEMMA TypeKept == TimingTypeOK /\ [Next]_vars => TimingTypeOK'
<1> SUFFICES ASSUME TimingTypeOK, [Next]_vars PROVE TimingTypeOK'
  OBVIOUS
<1>1. CASE Change
  BY <1>1 DEF Change, TimingTypeOK, SignalsMayBe, memory, history
<1>2. CASE Tick
  <2>1. now \in Nat /\ now' \in Times /\ 0 .. now \subseteq 0 .. now'
    BY <1>2, TimingAssumption DEF Tick, TimingTypeOK, Times
  <2> QED
    BY <1>2, <2>1 DEF Tick, TimingTypeOK, signals, memory, history
<1>3. CASE Sample
  <2>1. now \in Nat
    BY CheckFacts
  <2>2. \A S \in SUBSET (0 .. now), b \in BOOLEAN : AddIf(S, b, now) \in SUBSET (0 .. now)
    BY <2>1 DEF AddIf
  <2>3. /\ dataEdges' \in SUBSET (0 .. now) /\ refEdges' \in SUBSET (0 .. now)
        /\ rises' \in SUBSET (0 .. now) /\ falls' \in SUBSET (0 .. now)
    BY <1>3, <2>2 DEF Sample, Record, TimingTypeOK, AddIf
  <2>4. prevData' \in Values /\ prevRef' \in Values
    BY <1>3 DEF Sample, Kept, TimingTypeOK
  <2> QED
    BY <1>3, <2>3, <2>4, StepTyped DEF Sample, TimingTypeOK, MayBeTime, signals
<1>4. CASE UNCHANGED vars
  BY <1>4 DEF vars, signals, memory, history, TimingTypeOK
<1> QED
  BY <1>1, <1>2, <1>3, <1>4 DEF Next

\* Type correctness: what the kernel remembers of a check is a time that has been, or
\* ~0 (sched_timing_data_time, sched_timing_ref_time), for every call.
THEOREM TimingTyped == Spec => []TimingTypeOK
<1>1. Init => TimingTypeOK
  <2> SUFFICES ASSUME Init PROVE TimingTypeOK
    OBVIOUS
  <2>1. now \in Times /\ prevData \in Values /\ prevRef \in Values
    BY TimingAssumption DEF Init, Times, Values
  <2>2. window.start \in Int /\ window.end \in Int
    BY DEF Init, Never
  <2> QED
    BY <2>1, <2>2 DEF Init, TimingTypeOK
<1> QED
  BY <1>1, TypeKept, PTL DEF Spec

(***************************************************************************)
(* What a sample records, and what each kind decides from it.              *)
(***************************************************************************)
\* The history after a sample, in terms of the events of this moment.
LEMMA Recorded ==
  ASSUME TimingInv, Sample, check.ref.edge # "none"
  PROVE  /\ check' = check /\ now' = now
         /\ dataEdges' = AddIf(dataEdges, DataNow, now)
         /\ refEdges' = AddIf(refEdges, RefNow, now)
         /\ rises' = AddIf(rises, UpNow, now)
         /\ falls' = AddIf(falls, DownNow, now)
<1>1. check.ref \in Events
  BY CheckFacts DEF TimingInv, IsCheck
<1>2. UpNow <=> enabled /\ (check.ref.guarded => cond) /\ Up(seenRef, ref)
  BY <1>1 DEF UpNow, Happens, Events
<1>3. DownNow <=> enabled /\ (check.ref.guarded => cond) /\ Down(seenRef, ref)
  BY <1>1 DEF DownNow, Happens, Events
<1> QED
  BY <1>2, <1>3 DEF Sample, Record, DataNow, RefNow, AddIf

\* The two times of a check that remembers the edges of its two events.
LEMMA TwoTimes ==
  ASSUME TimingInv, Sample, check.ref.edge # "none", check.kind # "nochange", ~Pulsing,
         Step.dataTime = At(data_edge, dataTime) \/ (~DataNow /\ Step.dataTime = dataTime),
         Step.refTime = At(ref_edge, refTime)
  PROVE  /\ LastTimes'
         /\ Remembers(Step.dataTime, dataEdges') /\ Remembers(Step.refTime, refEdges')
         /\ Step.dataTime \in MayBeTime /\ Step.refTime \in MayBeTime
         /\ dataEdges' \in SUBSET (0 .. now) /\ refEdges' \in SUBSET (0 .. now)
<1>1. /\ now \in Nat
      /\ dataEdges \in SUBSET (0 .. now) /\ refEdges \in SUBSET (0 .. now)
      /\ dataTime \in MayBeTime /\ refTime \in MayBeTime
  BY CheckFacts DEF TimingInv, TimingTypeOK, MayBeTime
<1>2. Remembers(dataTime, dataEdges) /\ Remembers(refTime, refEdges)
  BY DEF TimingInv, LastTimes
<1>3. /\ data_edge = DataNow /\ ref_edge = RefNow
      /\ data_edge \in BOOLEAN /\ ref_edge \in BOOLEAN
  BY EdgesAgree
<1>4. Step.dataTime = At(data_edge, dataTime)
  BY <1>3 DEF At
<1>5. /\ Remembers(Step.dataTime, dataEdges') /\ dataEdges' \in SUBSET (0 .. now)
      /\ Step.dataTime \in MayBeTime
  <2>1. dataEdges' = AddIf(dataEdges, data_edge, now)
    BY <1>3, Recorded DEF AddIf
  <2> QED
    BY <1>1, <1>2, <1>3, <1>4, <2>1, StillLast DEF MayBeTime
<1>6. /\ Remembers(Step.refTime, refEdges') /\ refEdges' \in SUBSET (0 .. now)
      /\ Step.refTime \in MayBeTime
  <2>1. refEdges' = AddIf(refEdges, ref_edge, now)
    BY <1>3, Recorded DEF AddIf
  <2> QED
    <3>1. refTime \in (0 .. now) \cup {Never}
      BY <1>1 DEF MayBeTime
    <3>2. /\ Remembers(At(ref_edge, refTime), AddIf(refEdges, ref_edge, now))
          /\ At(ref_edge, refTime) \in (0 .. now) \cup {Never}
          /\ AddIf(refEdges, ref_edge, now) \in SUBSET (0 .. now)
      BY <1>1, <1>2, <1>3, <3>1, StillLast
    <3> QED
      BY <2>1, <3>2 DEF MayBeTime
<1>7. check' = check /\ dataTime' = Step.dataTime /\ refTime' = Step.refTime
  BY DEF Sample
<1>8. ~Pulsing'
  BY <1>7 DEF Pulsing, Direction
<1>9. Remembers(dataTime', dataEdges') /\ Remembers(refTime', refEdges')
  BY <1>5, <1>6, <1>7
<1> QED
  BY <1>5, <1>6, <1>8, <1>9 DEF LastTimes, Remembers
\* $setup and $recovery: the data edge is remembered before the reference edge is
\* compared with it.
LEMMA SetupDecides ==
  ASSUME TimingInv, Regular(check), Sample, check.kind \in {"setup", "recovery"}
  PROVE  LastTimes' /\ (Step.bad <=> Offends)
<1> DEFINE dt == At(data_edge, dataTime)
<1>1. Step = Outcome(dt, At(ref_edge, refTime), ref_edge /\ Within(dt, check.limit) /\ LongEnough(dt))
  BY DEF Step, SetupStep
<1>2. Step.dataTime = dt /\ Step.refTime = At(ref_edge, refTime)
  BY <1>1 DEF Outcome
<1>3. check.ref.edge # "none" /\ check.kind # "nochange" /\ ~Pulsing
  BY DEF Regular, Pulsing
<1>4. now \in Nat /\ check.limit \in Int /\ check.threshold = 0
  BY CheckFacts DEF TimingInv, IsCheck
<1>5. /\ LastTimes' /\ Remembers(dt, dataEdges')
      /\ dt \in MayBeTime /\ dataEdges' \in SUBSET (0 .. now)
  BY <1>2, <1>3, TwoTimes
<1>6. Within(dt, check.limit) <=> \E t \in dataEdges' : now - t < check.limit
  BY <1>4, <1>5, LastDecides DEF MayBeTime
<1>7. LongEnough(dt)
  BY <1>4 DEF LongEnough
<1>8. Step.bad <=> ref_edge /\ Within(dt, check.limit)
  BY <1>1, <1>7 DEF Outcome
<1>9. Offends <=> RefNow /\ \E t \in dataEdges' : now - t < check.limit
  BY DEF Offends
<1> QED
  BY <1>5, <1>6, <1>8, <1>9, EdgesAgree

\* $hold and $removal, the other way round.
LEMMA HoldDecides ==
  ASSUME TimingInv, Regular(check), Sample, check.kind \in {"hold", "removal"}
  PROVE  LastTimes' /\ (Step.bad <=> Offends)
<1> DEFINE rt == At(ref_edge, refTime)
<1>1. Step = Outcome(At(data_edge, dataTime), rt, data_edge /\ Within(rt, check.limit))
  BY DEF Step, HoldStep
<1>2. Step.dataTime = At(data_edge, dataTime) /\ Step.refTime = rt
  BY <1>1 DEF Outcome
<1>3. check.ref.edge # "none" /\ check.kind # "nochange" /\ ~Pulsing
  BY DEF Regular, Pulsing
<1>4. now \in Nat /\ check.limit \in Int
  BY CheckFacts DEF TimingInv, IsCheck
<1>5. /\ LastTimes' /\ Remembers(rt, refEdges')
      /\ rt \in MayBeTime /\ refEdges' \in SUBSET (0 .. now)
  BY <1>2, <1>3, TwoTimes
<1>6. Within(rt, check.limit) <=> \E t \in refEdges' : now - t < check.limit
  BY <1>4, <1>5, LastDecides DEF MayBeTime
<1>7. Step.bad <=> data_edge /\ Within(rt, check.limit)
  BY <1>1 DEF Outcome
<1>8. Offends <=> DataNow /\ \E t \in refEdges' : now - t < check.limit
  BY DEF Offends
<1> QED
  BY <1>5, <1>6, <1>7, <1>8, EdgesAgree

\* $setuphold and $recrem: the hold side compares with the reference edges before
\* this moment; two edges at once are caught by the setup side.
LEMMA SetupHoldDecides ==
  ASSUME TimingInv, Regular(check), Sample, check.kind \in {"setuphold", "recrem"}
  PROVE  LastTimes' /\ (Step.bad <=> Offends)
<1> DEFINE dt == At(data_edge, dataTime)
<1>1. Step = Outcome(dt, At(ref_edge, refTime),
                     \/ data_edge /\ Within(refTime, check.limit2)
                     \/ ref_edge /\ Within(dt, check.limit))
  BY DEF Step, SetupHoldStep
<1>2. Step.dataTime = dt /\ Step.refTime = At(ref_edge, refTime)
  BY <1>1 DEF Outcome
<1>3. check.ref.edge # "none" /\ check.kind # "nochange" /\ ~Pulsing
  BY DEF Regular, Pulsing
<1>4. now \in Nat /\ check.limit \in Int /\ check.limit2 \in Int
  BY CheckFacts DEF TimingInv, IsCheck
<1>5. /\ LastTimes' /\ Remembers(dt, dataEdges')
      /\ dt \in MayBeTime /\ dataEdges' \in SUBSET (0 .. now)
  BY <1>2, <1>3, TwoTimes
<1>6. Within(dt, check.limit) <=> \E t \in dataEdges' : now - t < check.limit
  BY <1>4, <1>5, LastDecides DEF MayBeTime
<1>7. Remembers(refTime, refEdges) /\ refTime \in MayBeTime /\ refEdges \in SUBSET (0 .. now)
  BY <1>3 DEF TimingInv, LastTimes, TimingTypeOK, MayBeTime
<1>8. Within(refTime, check.limit2) <=> \E t \in refEdges : now - t < check.limit2
  BY <1>4, <1>7, LastDecides DEF MayBeTime
<1>9. Step.bad <=> \/ data_edge /\ Within(refTime, check.limit2)
                   \/ ref_edge /\ Within(dt, check.limit)
  BY <1>1 DEF Outcome
<1>10. /\ dataEdges' = AddIf(dataEdges, data_edge, now) /\ refEdges' = AddIf(refEdges, ref_edge, now)
       /\ data_edge \in BOOLEAN /\ ref_edge \in BOOLEAN
  BY <1>3, EdgesAgree, Recorded
<1>11. check.limit > 0 \/ check.limit2 <= 0
  BY DEF Regular
<1>12. Offends <=> \/ RefNow /\ \E t \in dataEdges' : now - t < check.limit
                   \/ DataNow /\ \E t \in refEdges' : now - t < check.limit2
  BY DEF Offends
<1>13. CASE data_edge /\ ref_edge
  <2>1. now \in dataEdges' /\ now \in refEdges'
    BY <1>10, <1>13 DEF AddIf
  <2>2. (\E t \in refEdges' : now - t < check.limit2) => check.limit2 > 0
    BY <1>4, <1>7, <1>10 DEF AddIf
  <2>3. (\E t \in refEdges : now - t < check.limit2) => check.limit2 > 0
    BY <1>4, <1>7
  <2>4. check.limit > 0 => \E t \in dataEdges' : now - t < check.limit
    BY <1>4, <2>1
  <2> DEFINE setup == \E t \in dataEdges' : now - t < check.limit
             hold == \E t \in refEdges' : now - t < check.limit2
             holdBefore == \E t \in refEdges : now - t < check.limit2
  <2>5. (hold => setup) /\ (holdBefore => setup)
    BY <1>4, <1>11, <2>2, <2>3, <2>4
  <2>6. (Step.bad <=> holdBefore \/ setup) /\ (Offends <=> setup \/ hold)
    BY <1>6, <1>8, <1>9, <1>12, <1>13, EdgesAgree
  <2> HIDE DEF setup, hold, holdBefore
  <2> QED
    BY <1>5, <2>5, <2>6
<1>14. CASE ~(data_edge /\ ref_edge)
  <2>1. data_edge => refEdges' = refEdges
    BY <1>10, <1>14 DEF AddIf
  <2> QED
    BY <1>5, <1>6, <1>8, <1>9, <1>12, <1>14, <2>1, EdgesAgree
<1> QED
  BY <1>13, <1>14

\* $period and the width checks without a direction: the last reference edge before
\* this moment.
LEMMA PeriodDecides ==
  ASSUME TimingInv, Regular(check), Sample,
         \/ check.kind = "period"
         \/ check.kind \in {"width", "pulsewidth"} /\ Direction(check.ref) = "any"
  PROVE  LastTimes' /\ (Step.bad <=> Offends)
<1>1. IsCheck(check) /\ now \in Nat
  BY CheckFacts DEF TimingInv
<1>2. check.limit \in Int /\ check.threshold \in Int /\ check.data.edge = "none"
  BY <1>1 DEF IsCheck
<1>3. ~DataNow
  BY <1>2 DEF DataNow, Happens
<1>4. Step.dataTime = dataTime /\ Step.refTime = At(ref_edge, refTime)
  BY DEF Step, PeriodStep, WidthStep, WidthAnyStep, Outcome
<1>5. check.ref.edge # "none" /\ check.kind # "nochange" /\ ~Pulsing
  BY DEF Regular, Pulsing
<1>6. LastTimes'
  BY <1>3, <1>4, <1>5, TwoTimes
<1>7. Remembers(refTime, refEdges) /\ refTime \in MayBeTime /\ refEdges \in SUBSET (0 .. now)
  BY <1>5 DEF TimingInv, LastTimes, TimingTypeOK, MayBeTime
<1>8. CASE check.kind = "period"
  <2>1. Step.bad <=> ref_edge /\ Within(refTime, check.limit)
    BY <1>8 DEF Step, PeriodStep, Outcome
  <2>2. Within(refTime, check.limit) <=> \E t \in refEdges : now - t < check.limit
    BY <1>1, <1>2, <1>7, LastDecides DEF MayBeTime
  <2> QED
    BY <1>6, <1>8, <2>1, <2>2, EdgesAgree DEF Offends
<1>9. CASE check.kind \in {"width", "pulsewidth"} /\ Direction(check.ref) = "any"
  <2>1. Step.bad <=> ref_edge /\ Within(refTime, check.limit) /\ LongEnough(refTime)
    BY <1>9 DEF Step, WidthStep, WidthAnyStep, Outcome
  <2>2. Within(refTime, check.limit) /\ LongEnough(refTime) <=> ShortPulse(refEdges, check.limit)
    BY <1>1, <1>2, <1>7, LastBegins DEF MayBeTime
  <2>3. ShortPulseNow <=> RefNow /\ ShortPulse(refEdges, check.limit)
    BY <1>9 DEF ShortPulseNow
  <2>4. Offends <=> ShortPulseNow
    BY <1>9 DEF Offends
  <2> QED
    BY <1>6, <2>1, <2>2, <2>3, <2>4, EdgesAgree
<1> QED
  BY <1>8, <1>9
\* The width checks of one direction: a pulse is measured from the last opposite edge.
LEMMA WidthDecides ==
  ASSUME TimingInv, Regular(check), Sample,
         check.kind \in {"width", "pulsewidth"}, Direction(check.ref) # "any"
  PROVE  LastTimes' /\ (Step.bad <=> Offends)
<1> DEFINE dt == At(ref_pos, dataTime)
           rt == At(ref_neg, refTime)
           limitUp == IF check.kind = "pulsewidth" /\ check.limit2 # 0 THEN check.limit2
                      ELSE check.limit
<1>1. /\ IsCheck(check) /\ now \in Nat /\ Pulsing
      /\ check.ref.edge # "none" /\ ~check.ref.guarded
  BY CheckFacts DEF TimingInv, Regular, Pulsing
<1>2. check.limit \in Int /\ check.limit2 \in Int /\ check.threshold \in Int
  BY <1>1 DEF IsCheck
<1>3. limitUp \in Int
  BY <1>2
<1>4. (ref_pos <=> UpNow) /\ (ref_neg <=> DownNow)
  BY <1>1, EdgesAgree
<1>5. ref_pos \in BOOLEAN /\ ref_neg \in BOOLEAN /\ ~(ref_pos /\ ref_neg)
  BY DEF ref_pos, ref_neg, Pos, Neg, Unknown
<1>6. /\ Remembers(dataTime, rises) /\ Remembers(refTime, falls)
      /\ dataTime \in MayBeTime /\ refTime \in MayBeTime
      /\ rises \in SUBSET (0 .. now) /\ falls \in SUBSET (0 .. now)
  BY <1>1 DEF TimingInv, LastTimes, Pulsing, TimingTypeOK, MayBeTime
<1>7. Direction(check.ref) \in {"rise", "fall"}
  BY DEF Direction
<1>8. /\ Step = WidthStep
      /\ Direction(check.ref) = "rise" => Step = WidthRiseStep
      /\ Direction(check.ref) = "fall" => Step = WidthFallStep
  BY DEF Step, WidthStep
<1>9. Step.dataTime = dt /\ Step.refTime = rt
  BY <1>7, <1>8 DEF WidthRiseStep, WidthFallStep, Outcome
<1>10. LastTimes'
  <2>1. rises' = AddIf(rises, ref_pos, now) /\ falls' = AddIf(falls, ref_neg, now)
    BY <1>1, <1>4, Recorded DEF AddIf
  <2>2. Remembers(dt, rises') /\ Remembers(rt, falls')
    BY <1>1, <1>5, <1>6, <2>1, StillLast DEF MayBeTime
  <2>3. check' = check /\ dataTime' = dt /\ refTime' = rt
    BY <1>9 DEF Sample
  <2>4. Pulsing'
    BY <1>1, <2>3 DEF Pulsing, Direction
  <2>5. Remembers(dataTime', rises') /\ Remembers(refTime', falls')
    BY <2>2, <2>3
  <2> QED
    BY <2>4, <2>5 DEF LastTimes, Remembers
<1>11. CASE Direction(check.ref) = "rise"
  <2>1. Step.bad <=> ref_neg /\ Within(dt, check.limit) /\ LongEnough(dt)
    <3>1. Step = Outcome(dt, rt, ref_neg /\ Within(dt, check.limit) /\ LongEnough(dt))
      BY <1>8, <1>11 DEF WidthRiseStep
    <3> QED
      BY <3>1 DEF Outcome
  <2>2. ref_neg => dt = dataTime
    BY <1>5 DEF At
  <2>3. Within(dataTime, check.limit) /\ LongEnough(dataTime) <=> ShortPulse(rises, check.limit)
    BY <1>1, <1>2, <1>6, LastBegins DEF MayBeTime
  <2>4. Offends <=> DownNow /\ ShortPulse(rises, check.limit)
    <3>1. Offends <=> ShortPulseNow
      BY DEF Offends
    <3> QED
      BY <1>11, <3>1 DEF ShortPulseNow
  <2> QED
    BY <1>4, <1>10, <2>1, <2>2, <2>3, <2>4
<1>12. CASE Direction(check.ref) = "fall"
  <2>1. Step.bad <=> ref_pos /\ Within(rt, limitUp) /\ LongEnough(rt)
    <3>1. Step = Outcome(dt, rt, ref_pos /\ Within(rt, limitUp) /\ LongEnough(rt))
      BY <1>8, <1>12 DEF WidthFallStep
    <3> QED
      BY <3>1 DEF Outcome
  <2>2. ref_pos => rt = refTime
    BY <1>5 DEF At
  <2>3. Within(refTime, limitUp) /\ LongEnough(refTime) <=> ShortPulse(falls, limitUp)
    BY <1>1, <1>2, <1>3, <1>6, LastBegins DEF MayBeTime
  <2>4. Offends <=> UpNow /\ ShortPulse(falls, limitUp)
    <3>1. Offends <=> ShortPulseNow
      BY DEF Offends
    <3> QED
      BY <1>12, <3>1 DEF ShortPulseNow
  <2> QED
    BY <1>4, <1>10, <2>1, <2>2, <2>3, <2>4
<1> QED
  BY <1>7, <1>11, <1>12

\* The skew checks: the last edges of the two events, whichever came first.
LEMMA SkewDecides ==
  ASSUME TimingInv, Regular(check), Sample, check.kind \in {"skew", "timeskew", "fullskew"}
  PROVE  LastTimes' /\ (Step.bad <=> Offends)
<1> DEFINE dt == At(data_edge, dataTime)
           rt == At(ref_edge, refTime)
           max == IF check.limit2 # 0 THEN check.limit2 ELSE check.limit
<1>1. /\ IsCheck(check) /\ now \in Nat
      /\ check.ref.edge # "none" /\ check.kind # "nochange" /\ ~Pulsing
  BY CheckFacts DEF TimingInv, Regular, Pulsing
<1>2. check.limit \in Int /\ check.limit2 \in Int
  BY <1>1 DEF IsCheck
<1>3. Step = SkewStep
  BY DEF Step
<1>4. /\ Step.dataTime = dt /\ Step.refTime = rt
      /\ Step.bad <=> /\ data_edge \/ ref_edge
                      /\ dt # Never /\ rt # Never
                      /\ IF check.kind = "fullskew"
                         THEN Distance(dt, rt) < check.limit \/ (max >= 0 /\ Distance(dt, rt) > max)
                         ELSE Distance(dt, rt) > check.limit
  BY <1>3 DEF SkewStep, Outcome
<1>5. /\ LastTimes' /\ Remembers(dt, dataEdges') /\ Remembers(rt, refEdges')
      /\ dt \in MayBeTime /\ rt \in MayBeTime
      /\ dataEdges' \in SUBSET (0 .. now) /\ refEdges' \in SUBSET (0 .. now)
  BY <1>1, <1>4, TwoTimes
<1>6. \A d \in dataEdges' : Last(dataEdges', d) <=> dt # Never /\ d = dt
  BY <1>1, <1>5 DEF Remembers, Last, Never, MayBeTime
<1>7. \A r \in refEdges' : Last(refEdges', r) <=> rt # Never /\ r = rt
  BY <1>1, <1>5 DEF Remembers, Last, Never, MayBeTime
<1>8. (dt # Never => dt \in dataEdges') /\ (rt # Never => rt \in refEdges')
  BY <1>5 DEF Remembers, Last
<1>9. CASE check.kind = "fullskew"
  <2>1. Offends <=> \E d \in dataEdges', r \in refEdges' :
                      /\ Last(dataEdges', d) /\ Last(refEdges', r)
                      /\ DataNow \/ RefNow
                      /\ ~(Distance(d, r) \in check.limit .. max)
    BY <1>9 DEF Offends
  <2>2. Offends <=> /\ dt # Never /\ rt # Never
                    /\ DataNow \/ RefNow
                    /\ ~(Distance(dt, rt) \in check.limit .. max)
    BY <1>6, <1>7, <1>8, <2>1
  <2>3. max \in Int /\ max >= 0
    BY <1>2, <1>9 DEF Regular
  <2>4. dt # Never /\ rt # Never => Distance(dt, rt) \in Int
    BY <1>1, <1>5 DEF Distance, MayBeTime
  <2>5. dt # Never /\ rt # Never =>
          (~(Distance(dt, rt) \in check.limit .. max) <=>
             Distance(dt, rt) < check.limit \/ (max >= 0 /\ Distance(dt, rt) > max))
    <3> HIDE DEF dt, rt, max
    <3> QED
      BY <1>2, <2>3, <2>4
  <2> QED
    BY <1>4, <1>5, <1>9, <2>2, <2>5, EdgesAgree
<1>10. CASE check.kind \in {"skew", "timeskew"}
  <2>1. Offends <=> \E d \in dataEdges', r \in refEdges' :
                      /\ Last(dataEdges', d) /\ Last(refEdges', r)
                      /\ DataNow \/ RefNow
                      /\ d - r > check.limit \/ r - d > check.limit
    BY <1>10 DEF Offends
  <2>2. Offends <=> /\ dt # Never /\ rt # Never
                    /\ DataNow \/ RefNow
                    /\ dt - rt > check.limit \/ rt - dt > check.limit
    BY <1>6, <1>7, <1>8, <2>1
  <2>3. dt # Never /\ rt # Never =>
          (Distance(dt, rt) > check.limit <=> dt - rt > check.limit \/ rt - dt > check.limit)
    BY <1>1, <1>2, <1>5 DEF Distance, MayBeTime, Never
  <2> QED
    BY <1>4, <1>5, <1>10, <2>2, <2>3, EdgesAgree
<1> QED
  BY <1>9, <1>10
\* $nochange: the window of the last reference edge.
LEMMA NoChangeDecides ==
  ASSUME TimingInv, Regular(check), Sample, check.kind = "nochange"
  PROVE  RemembersWindow' /\ (Step.bad <=> Offends)
<1> DEFINE from == Offset(check.limit)
           upto == Offset(check.limit2)
           w == IF ref_edge THEN [start |-> now + from, end |-> now + upto] ELSE window
<1>1. IsCheck(check) /\ now \in Nat /\ check.ref.edge # "none" /\ check.limit2 >= 0
  BY CheckFacts DEF TimingInv, Regular
<1>2. /\ check.limit \in Int /\ check.limit2 \in Int
      /\ from \in Int /\ upto \in Int /\ from >= 0 /\ upto >= 0
      /\ from = check.limit \/ (check.limit <= 0 /\ from = 0)
      /\ upto = check.limit2
  BY <1>1 DEF IsCheck, Offset
<1>3. /\ Step.window = w
      /\ Step.bad <=> data_edge /\ w.start # Never /\ now >= w.start /\ now <= w.end
  <2>1. Step = NoChangeStep
    BY DEF Step
  <2> QED
    BY <2>1 DEF NoChangeStep, Offset
<1>4. /\ refEdges' = AddIf(refEdges, ref_edge, now) /\ refEdges \in SUBSET (0 .. now)
      /\ ref_edge \in BOOLEAN /\ check' = check /\ window' = w
  BY <1>1, <1>3, EdgesAgree, Recorded DEF Sample, TimingInv, TimingTypeOK
<1>5. CASE refEdges' = {}
  <2>1. w = window /\ refEdges = {}
    BY <1>4, <1>5 DEF AddIf
  <2>2. w.start = Never
    BY <2>1 DEF TimingInv, RemembersWindow
  <2>3. RemembersWindow'
    BY <1>4, <1>5, <2>2 DEF RemembersWindow
  <2>4. ~Offends
    BY <1>5 DEF Offends
  <2> QED
    BY <1>3, <2>2, <2>3, <2>4
<1>6. CASE refEdges' # {}
  <2>1. PICK r \in refEdges' : /\ Last(refEdges', r)
                               /\ w.start = r + from /\ w.end = r + upto
    <3>1. CASE ref_edge
      <4>1. now \in refEdges' /\ Last(refEdges', now)
        BY <1>1, <1>4, <3>1 DEF AddIf, Last
      <4> QED
        BY <3>1, <4>1
    <3>2. CASE ~ref_edge
      <4>1. refEdges' = refEdges /\ w = window
        BY <1>4, <3>2 DEF AddIf
      <4> QED
        BY <1>6, <4>1 DEF TimingInv, RemembersWindow
    <3> QED
      BY <3>1, <3>2
  <2>2. r \in 0 .. now
    BY <1>1, <1>4, <2>1 DEF AddIf
  <2>3. RemembersWindow'
    <3>1. window'.start = r + Offset(check'.limit) /\ window'.end = r + Offset(check'.limit2)
      BY <1>4, <2>1
    <3>2. r \in refEdges' /\ \A s \in refEdges' : s <= r
      BY <2>1 DEF Last
    <3> QED
      BY <1>6, <3>1, <3>2 DEF RemembersWindow, Offset, Last
  <2>4. \A x \in refEdges' : Last(refEdges', x) <=> x = r
    BY <1>1, <1>4, <2>1, <2>2 DEF Last, AddIf
  <2>5. Offends <=> DataNow /\ now >= r + check.limit /\ now <= r + check.limit2
    BY <2>1, <2>4 DEF Offends
  <2>6. w.start # Never
    BY <1>2, <2>1, <2>2 DEF Never
  <2>7. /\ (now >= w.start) <=> (now >= r + check.limit)
        /\ (now <= w.end) <=> (now <= r + check.limit2)
    <3> HIDE DEF from, upto, w
    <3>1. r \in Int /\ r <= now
      BY <1>1, <2>2
    <3>2. (now >= r + from) <=> (now >= r + check.limit)
      BY <1>1, <1>2, <3>1
    <3> QED
      BY <1>2, <2>1, <3>2
  <2>8. Step.bad <=> Offends
    <3> HIDE DEF w
    <3> QED
      BY <1>3, <2>5, <2>6, <2>7, EdgesAgree
  <2> QED
    BY <2>3, <2>8
<1> QED
  BY <1>5, <1>6
(***************************************************************************)
(* The theorems.                                                           *)
(***************************************************************************)
\* A sample decides as the history does and keeps the remembered times, for every kind.
LEMMA SampleDecides ==
  ASSUME TimingInv, Regular(check), Sample
  PROVE  LastTimes' /\ RemembersWindow' /\ (Step.bad <=> Offends)
<1>1. check.kind \in Kinds /\ check' = check
  BY CheckFacts DEF TimingInv, IsCheck, Sample
<1>2. check.kind = "nochange" => LastTimes'
  BY <1>1 DEF LastTimes
<1>3. check.kind # "nochange" => RemembersWindow'
  BY <1>1 DEF RemembersWindow
<1>4. CASE check.kind \in {"setup", "recovery"}
  BY <1>3, <1>4, SetupDecides
<1>5. CASE check.kind \in {"hold", "removal"}
  BY <1>3, <1>5, HoldDecides
<1>6. CASE check.kind \in {"setuphold", "recrem"}
  BY <1>3, <1>6, SetupHoldDecides
<1>7. CASE check.kind = "period"
  BY <1>3, <1>7, PeriodDecides
<1>8. CASE check.kind \in {"width", "pulsewidth"}
  BY <1>3, <1>8, PeriodDecides, WidthDecides
<1>9. CASE check.kind \in {"skew", "timeskew", "fullskew"}
  BY <1>3, <1>9, SkewDecides
<1>10. CASE check.kind = "nochange"
  BY <1>2, <1>10, NoChangeDecides
<1> QED
  BY <1>1, <1>4, <1>5, <1>6, <1>7, <1>8, <1>9, <1>10 DEF Kinds

\* Between samples nothing that is remembered changes.
LEMMA BetweenSamples ==
  ASSUME TimingInv, UNCHANGED <<check, memory, history>>
  PROVE  LastTimes' /\ RemembersValues' /\ RemembersWindow'
<1>1. LastTimes'
  BY DEF TimingInv, LastTimes, Remembers, Last, Pulsing, Direction, memory, history
<1>2. RemembersValues'
  BY DEF TimingInv, RemembersValues, memory, history
<1>3. RemembersWindow'
  BY DEF TimingInv, RemembersWindow, Last, Offset, memory, history
<1> QED
  BY <1>1, <1>2, <1>3

LEMMA InvKept ==
  ASSUME RegularCalls, TimingInv, [Next]_vars
  PROVE  TimingInv'
<1>1. TimingTypeOK'
  BY TypeKept DEF TimingInv
<1>2. CASE Change
  BY <1>1, <1>2, BetweenSamples DEF Change, TimingInv
<1>3. CASE Tick
  BY <1>1, <1>3, BetweenSamples DEF Tick, TimingInv
<1>4. CASE UNCHANGED vars
  BY <1>1, <1>4, BetweenSamples DEF vars, TimingInv
<1>5. CASE Sample
  <2>1. Regular(check)
    BY CheckFacts DEF TimingInv
  <2>2. RemembersValues'
    BY <1>5 DEF Sample, Record, Kept, RemembersValues, TimingInv, TimingTypeOK
  <2> QED
    BY <1>1, <1>5, <2>1, <2>2, SampleDecides DEF TimingInv
<1> QED
  BY <1>2, <1>3, <1>4, <1>5 DEF Next

LEMMA InvStarts == Init => TimingInv
<1> SUFFICES ASSUME Init PROVE TimingInv
  OBVIOUS
<1>1. TimingTypeOK
  <2>1. now \in Times /\ prevData \in Values /\ prevRef \in Values
    BY TimingAssumption DEF Init, Times, Values
  <2>2. window.start \in Int /\ window.end \in Int
    BY DEF Init, Never
  <2> QED
    BY <2>1, <2>2 DEF Init, TimingTypeOK
<1>2. LastTimes
  BY DEF Init, LastTimes, Remembers
<1>3. RemembersValues /\ RemembersWindow
  BY DEF Init, RemembersValues, RemembersWindow, Values
<1> QED
  BY <1>1, <1>2, <1>3 DEF TimingInv

\* The two times the kernel keeps of a check (sched_timing_data_time and
\* sched_timing_ref_time) are always those of the last edges that count.
THEOREM TimesAreLast ==
  ASSUME RegularCalls
  PROVE  Spec => []LastTimes
<1>1. Init => TimingInv
  BY InvStarts
<1>2. TimingInv /\ [Next]_vars => TimingInv'
  BY InvKept
<1>3. TimingInv => LastTimes
  BY DEF TimingInv
<1> QED
  BY <1>1, <1>2, <1>3, PTL DEF Spec

\* A sample reports a violation exactly when the edges since time 0 offend against the
\* check, for every regular call, every limit and every sequence of samples.
THEOREM ViolationsAreExact ==
  ASSUME RegularCalls
  PROVE  Spec => ExactlyTheViolations
<1>1. Init => TimingInv
  BY InvStarts
<1>2. TimingInv /\ [Next]_vars => TimingInv'
  BY InvKept
<1>3. TimingInv /\ [Next]_vars => [violation' <=> Sample /\ Offends]_vars
  <2> SUFFICES ASSUME TimingInv, Next PROVE violation' <=> Sample /\ Offends
    BY DEF vars
  <2>1. CASE Change
    <3>1. ~violation' /\ ~sampled'
      BY <2>1 DEF Change
    <3>2. ~Sample
      BY <3>1 DEF Sample
    <3> QED
      BY <3>1, <3>2
  <2>2. CASE Tick
    <3>1. ~violation' /\ now' # now
      BY <2>2, CheckFacts DEF Tick, TimingInv
    <3>2. ~Sample
      BY <3>1 DEF Sample
    <3> QED
      BY <3>1, <3>2
  <2>3. CASE Sample
    <3>1. Regular(check)
      BY CheckFacts DEF TimingInv
    <3>2. violation' = Step.bad
      BY <2>3 DEF Sample
    <3> QED
      BY <2>3, <3>1, <3>2, SampleDecides
  <2> QED
    BY <2>1, <2>2, <2>3 DEF Next
<1> QED
  BY <1>1, <1>2, <1>3, PTL DEF Spec, ExactlyTheViolations
=============================================================================
