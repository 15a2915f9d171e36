---------------------------- MODULE TimingChecks ----------------------------
(***************************************************************************)
(* The timing checks of specify blocks: how the parser assigns the         *)
(* arguments of a call ($setup, $hold, ... verilog_parser.cc) and how the  *)
(* scheduler kernel carries a check out (emit_timing_checks in             *)
(* msl_codegen.cc).  Each time the kernel comes to rest, before a scan of  *)
(* the waits and after a commit, it samples the two signals of a check,    *)
(* compares them with the previous sample, and decides from two remembered *)
(* times whether a limit is violated.                                      *)
(*                                                                         *)
(* The signals are one bit wide.  History variables keep every edge, so    *)
(* that what the kernel decides from its two times can be compared with    *)
(* what the edges themselves say.                                          *)
(***************************************************************************)
EXTENDS Integers, Sequences

CONSTANTS Calls,    \* the calls: [task, args]
          Levels,   \* the values the design gives the signals
          MaxTime   \* the bound on time

Values == {"0", "1", "x", "z"}

\* ~0ul: no edge has been seen.
Never == -1

(***************************************************************************)
(* The calls.  An event names an edge - "any", "posedge", "negedge" or the *)
(* pairs of an edge list - and whether a condition (&&&) guards it.        *)
(***************************************************************************)
Event(edge, list, guarded) == [edge |-> edge, list |-> list, guarded |-> guarded]
NoEvent == Event("none", {}, FALSE)

HandleSpecifyTimingCheck(call) ==
    LET Arg(i) == IF i <= Len(call.args) THEN call.args[i] ELSE 0
        Check(data, ref, limit, limit2, threshold) ==
            [kind |-> call.task, data |-> data, ref |-> ref,
             limit |-> limit, limit2 |-> limit2, threshold |-> threshold]
    IN  CASE call.task = "hold" -> Check(Arg(2), Arg(1), Arg(3), 0, 0)
          [] call.task \in {"setuphold", "nochange"} -> Check(Arg(2), Arg(1), Arg(3), Arg(4), 0)
          [] call.task \in {"setup", "recovery", "removal", "skew", "timeskew"} ->
                Check(Arg(1), Arg(2), Arg(3), 0, 0)
          [] call.task \in {"recrem", "fullskew"} -> Check(Arg(1), Arg(2), Arg(3), Arg(4), 0)
          [] call.task = "width" -> Check(NoEvent, Arg(1), Arg(2), 0, Arg(3))
          [] call.task = "pulsewidth" -> Check(NoEvent, Arg(1), Arg(2), Arg(3), Arg(4))
          [] call.task = "period" -> Check(NoEvent, Arg(1), Arg(2), 0, 0)

Edges  == {"none", "any", "posedge", "negedge", "list"}
Events == [edge : Edges, list : SUBSET (Values \X Values), guarded : BOOLEAN]
Kinds  == {"setup", "hold", "setuphold", "recovery", "removal", "recrem", "skew", "timeskew",
           "fullskew", "width", "pulsewidth", "period", "nochange"}

\* A declared limit may be negative or left out; then it is 0.  A check of one signal
\* has no data event, and only those that measure pulses have a threshold.
IsCheck(c) ==
    /\ c.kind \in Kinds
    /\ c.data \in Events /\ c.ref \in Events
    /\ c.kind \in {"period", "width", "pulsewidth"} => c.data.edge = "none"
    /\ c.kind \notin {"width", "pulsewidth"} => c.threshold = 0
    /\ c.limit \in Int /\ c.limit2 \in Int /\ c.threshold \in Int

Checks == {HandleSpecifyTimingCheck(call) : call \in Calls}

ASSUME TimingAssumption ==
    /\ \A c \in Checks : IsCheck(c)
    /\ Levels \subseteq Values
    /\ MaxTime \in Nat

VARIABLES check,       \* the check
          now,         \* sched_time
          data, ref,   \* the signals of its two events
          cond,        \* the value of the conditions that guard events
          enabled,     \* the value of the condition of the check
          sampled,     \* whether the present values have been sampled
          prevData, prevRef,      \* sched_timing_prev_val, sched_timing_prev_xz
          dataTime, refTime,      \* sched_timing_data_time, sched_timing_ref_time
          window,                 \* sched_timing_window_start, sched_timing_window_end
          violation,              \* whether the last sample set the notifier to x
          seenData, seenRef,      \* history: the values of the sample before
          dataEdges, refEdges,    \* history: when the edges of the events happened
          rises, falls            \* history: and those of the reference signal

signals == <<data, ref, cond, enabled>>
memory  == <<prevData, prevRef, dataTime, refTime, window>>
history == <<seenData, seenRef, dataEdges, refEdges, rises, falls>>
vars    == <<check, now, signals, sampled, memory, violation, history>>

(***************************************************************************)
(* The environment: the processes change the signals, and time goes on     *)
(* when everything has been sampled.  What no check looks at stays as it   *)
(* is; only some kinds have a condition of their own.                      *)
(***************************************************************************)
HasCondition == check.kind \in {"setuphold", "recrem", "skew", "timeskew", "fullskew"}
Guarded == check.data.guarded \/ check.ref.guarded

Given(declared, values) == IF declared THEN values ELSE {TRUE}

SignalsMayBe(d, r, c, e) ==
    /\ d \in IF check.data.edge = "none" THEN {"0"} ELSE Levels
    /\ r \in Levels
    /\ c \in Given(Guarded, BOOLEAN)
    /\ e \in Given(HasCondition, BOOLEAN)

Init ==
    /\ check \in Checks
    /\ now = 0
    /\ \E d \in Values, r \in Values, c \in BOOLEAN, e \in BOOLEAN :
          SignalsMayBe(d, r, c, e) /\ data = d /\ ref = r /\ cond = c /\ enabled = e
    /\ sampled = FALSE
    /\ prevData = "0" /\ prevRef = "0"
    /\ dataTime = Never /\ refTime = Never
    /\ window = [start |-> Never, end |-> 0]
    /\ violation = FALSE
    /\ seenData = "0" /\ seenRef = "0"
    /\ dataEdges = {} /\ refEdges = {} /\ rises = {} /\ falls = {}

Change ==
    /\ sampled
    /\ \E d \in Values, r \in Values, c \in BOOLEAN, e \in BOOLEAN :
          /\ SignalsMayBe(d, r, c, e)
          /\ <<d, r, c, e>> # signals
          /\ data' = d /\ ref' = r /\ cond' = c /\ enabled' = e
    /\ sampled' = FALSE
    /\ violation' = FALSE
    /\ UNCHANGED <<check, now, memory, history>>

Tick ==
    /\ sampled
    /\ now < MaxTime
    /\ now' = now + 1
    /\ violation' = FALSE
    /\ UNCHANGED <<check, signals, sampled, memory, history>>

(***************************************************************************)
(* Edges, from the previous and the current (val, xz) of a bit.            *)
(***************************************************************************)
Unknown(v) == v \in {"x", "z"}
Pos(prev, curr) == \/ prev = "0" /\ (curr = "1" \/ Unknown(curr))
                   \/ Unknown(prev) /\ curr = "1"
Neg(prev, curr) == \/ prev = "1" /\ (curr = "0" \/ Unknown(curr))
                   \/ Unknown(prev) /\ curr = "0"

EdgeOf(event, prev, curr) ==
    CASE event.edge = "posedge" -> Pos(prev, curr)
      [] event.edge = "negedge" -> Neg(prev, curr)
      [] event.edge = "list" -> <<prev, curr>> \in event.list
      [] event.edge = "any" -> prev # curr
      [] event.edge = "none" -> FALSE

Guard(event) == event.guarded => cond

data_edge == enabled /\ EdgeOf(check.data, prevData, data) /\ Guard(check.data)
ref_edge  == enabled /\ EdgeOf(check.ref, prevRef, ref) /\ Guard(check.ref)
ref_pos   == enabled /\ check.ref.edge # "none" /\ Pos(prevRef, ref)
ref_neg   == enabled /\ check.ref.edge # "none" /\ Neg(prevRef, ref)

\* The direction of the pulses a width check measures, from its event; a list that
\* has edges of both directions, or a plain change, measures every interval.
Rising(pair)  == pair[2] = "1" \/ (Unknown(pair[2]) /\ pair[1] # "1")
Falling(pair) == pair[2] = "0" \/ (Unknown(pair[2]) /\ pair[1] # "0")
Direction(event) ==
    LET rise == \E p \in event.list : Rising(p)
        fall == \E p \in event.list : Falling(p)
    IN  CASE event.edge = "posedge" -> "rise"
          [] event.edge = "negedge" -> "fall"
          [] event.edge = "list" /\ rise /\ ~fall -> "rise"
          [] event.edge = "list" /\ fall /\ ~rise -> "fall"
          [] OTHER -> "any"

(***************************************************************************)
(* What each kind of check does with a sample: the times it remembers and  *)
(* whether a limit is violated.                                            *)
(***************************************************************************)
Outcome(dt, rt, bad) == [dataTime |-> dt, refTime |-> rt, window |-> window, bad |-> bad]
\* A mutant of At: the edge is dated at the next step.
AtNextTime(edge, time) == IF edge THEN now + 1 ELSE time
At(edge, time) == IF edge THEN now ELSE time

\* An edge at the given time, if any, is less than the limit ago.
Within(time, limit) == time # Never /\ now - time < limit
LongEnough(time) == check.threshold <= 0 \/ now - time >= check.threshold

SetupStep ==
    LET dt == At(data_edge, dataTime)
    IN  Outcome(dt, At(ref_edge, refTime), ref_edge /\ Within(dt, check.limit) /\ LongEnough(dt))

\* A mutant of HoldStep: the data edge is compared before the reference edge is recorded.
HoldBeforeTheReference ==
    Outcome(At(data_edge, dataTime), At(ref_edge, refTime), data_edge /\ Within(refTime, check.limit))
HoldStep ==
    LET rt == At(ref_edge, refTime)
    IN  Outcome(At(data_edge, dataTime), rt, data_edge /\ Within(rt, check.limit))

\* A mutant of SetupHoldStep: a data edge after a reference edge is not recorded.
SetupHoldForgetsData ==
    Outcome(At(data_edge /\ refTime = Never, dataTime), At(ref_edge, refTime),
            \/ data_edge /\ Within(refTime, check.limit2)
            \/ ref_edge /\ Within(At(data_edge, dataTime), check.limit))
SetupHoldStep ==
    LET dt == At(data_edge, dataTime)
    IN  Outcome(dt, At(ref_edge, refTime),
                \/ data_edge /\ Within(refTime, check.limit2)
                \/ ref_edge /\ Within(dt, check.limit))

PeriodStep ==
    Outcome(dataTime, At(ref_edge, refTime), ref_edge /\ Within(refTime, check.limit))

WidthAnyStep ==
    Outcome(dataTime, At(ref_edge, refTime),
            ref_edge /\ Within(refTime, check.limit) /\ LongEnough(refTime))

WidthRiseStep ==
    LET dt == At(ref_pos, dataTime)
    IN  Outcome(dt, At(ref_neg, refTime), ref_neg /\ Within(dt, check.limit) /\ LongEnough(dt))

WidthFallStep ==
    LET rt == At(ref_neg, refTime)
        limit == IF check.kind = "pulsewidth" /\ check.limit2 # 0 THEN check.limit2 ELSE check.limit
    IN  Outcome(At(ref_pos, dataTime), rt, ref_pos /\ Within(rt, limit) /\ LongEnough(rt))

WidthStep ==
    CASE Direction(check.ref) = "rise" -> WidthRiseStep
      [] Direction(check.ref) = "fall" -> WidthFallStep
      [] Direction(check.ref) = "any" -> WidthAnyStep

Distance(s, t) == IF s >= t THEN s - t ELSE t - s

SkewStep ==
    LET dt == At(data_edge, dataTime)
        rt == At(ref_edge, refTime)
        far == Distance(dt, rt)
        max == IF check.limit2 # 0 THEN check.limit2 ELSE check.limit
    IN  Outcome(dt, rt,
                /\ data_edge \/ ref_edge
                /\ dt # Never /\ rt # Never
                /\ IF check.kind = "fullskew" THEN far < check.limit \/ (max >= 0 /\ far > max)
                   ELSE far > check.limit)

NoChangeStep ==
    LET Later(offset) == now + (IF offset > 0 THEN offset ELSE 0)
        w == IF ref_edge THEN [start |-> Later(check.limit), end |-> Later(check.limit2)] ELSE window
    IN  [dataTime |-> dataTime, refTime |-> refTime, window |-> w,
         bad |-> data_edge /\ w.start # Never /\ now >= w.start /\ now <= w.end]

Step ==
    CASE check.kind \in {"setup", "recovery"} -> SetupStep
      [] check.kind \in {"hold", "removal"} -> HoldStep
      [] check.kind \in {"setuphold", "recrem"} -> SetupHoldStep
      [] check.kind = "period" -> PeriodStep
      [] check.kind \in {"width", "pulsewidth"} -> WidthStep
      [] check.kind \in {"skew", "timeskew", "fullskew"} -> SkewStep
      [] check.kind = "nochange" -> NoChangeStep

(***************************************************************************)
(* The history records the same moment from the source's point of view: an *)
(* edge is a change from the sample before, and counts for an event while  *)
(* the condition of the check and of the event holds.                      *)
(***************************************************************************)
Up(from, to)   == <<from, to>> \in {<<"0", "1">>, <<"0", "x">>, <<"0", "z">>, <<"x", "1">>, <<"z", "1">>}
Down(from, to) == <<from, to>> \in {<<"1", "0">>, <<"1", "x">>, <<"1", "z">>, <<"x", "0">>, <<"z", "0">>}

Happens(event, from, to) ==
    /\ enabled
    /\ event.guarded => cond
    /\ \/ event.edge = "any" /\ from # to
       \/ event.edge = "posedge" /\ Up(from, to)
       \/ event.edge = "negedge" /\ Down(from, to)
       \/ event.edge = "list" /\ <<from, to>> \in event.list

AddIf(set, happens, x) == IF happens THEN set \cup {x} ELSE set

Record ==
    LET measured == enabled /\ (check.ref.guarded => cond) /\ check.ref.edge # "none"
    IN  /\ dataEdges' = AddIf(dataEdges, Happens(check.data, seenData, data), now)
        /\ refEdges' = AddIf(refEdges, Happens(check.ref, seenRef, ref), now)
        /\ rises' = AddIf(rises, measured /\ Up(seenRef, ref), now)
        /\ falls' = AddIf(falls, measured /\ Down(seenRef, ref), now)
        /\ seenData' = data /\ seenRef' = ref

\* Only an event that was declared is compared and remembered.
Kept(event, prev, curr) == IF event.edge = "none" THEN prev ELSE curr

Sample ==
    /\ sampled' = TRUE
    /\ dataTime' = Step.dataTime /\ refTime' = Step.refTime /\ window' = Step.window
    /\ violation' = Step.bad
    /\ prevData' = Kept(check.data, prevData, data) /\ prevRef' = Kept(check.ref, prevRef, ref)
    /\ Record
    /\ UNCHANGED <<check, now, signals>>

Next == Change \/ Tick \/ Sample

Spec == Init /\ [][Next]_vars

-----------------------------------------------------------------------------
(***************************************************************************)
(* What the checks promise, said of the whole history and not of the two   *)
(* times the kernel remembers.                                             *)
(***************************************************************************)
Last(times, t) == t \in times /\ \A s \in times : s <= t

\* The pulse that ends now began with the last edge of the other direction.
ShortPulse(begins, limit) ==
    \E t \in begins : /\ Last(begins, t)
                      /\ now - t < limit
                      /\ check.threshold > 0 => now - t >= check.threshold

DataNow == Happens(check.data, seenData, data)
RefNow  == Happens(check.ref, seenRef, ref)
UpNow   == Happens([check.ref EXCEPT !.edge = "posedge"], seenRef, ref)
DownNow == Happens([check.ref EXCEPT !.edge = "negedge"], seenRef, ref)

ShortPulseNow ==
    CASE Direction(check.ref) = "rise" -> DownNow /\ ShortPulse(rises, check.limit)
      [] Direction(check.ref) = "fall" ->
            UpNow /\ ShortPulse(falls, IF check.kind = "pulsewidth" /\ check.limit2 # 0
                                       THEN check.limit2 ELSE check.limit)
      [] Direction(check.ref) = "any" -> RefNow /\ ShortPulse(refEdges, check.limit)

Offends ==
    LET Close(times, limit) == \E t \in times : now - t < limit
    IN  CASE check.kind \in {"setup", "recovery"} -> RefNow /\ Close(dataEdges', check.limit)
          [] check.kind \in {"hold", "removal"} -> DataNow /\ Close(refEdges', check.limit)
          [] check.kind \in {"setuphold", "recrem"} ->
                \/ RefNow /\ Close(dataEdges', check.limit)
                \/ DataNow /\ Close(refEdges', check.limit2)
          [] check.kind = "period" -> RefNow /\ Close(refEdges, check.limit)
          [] check.kind \in {"width", "pulsewidth"} -> ShortPulseNow
          [] check.kind \in {"skew", "timeskew"} ->
                \E d \in dataEdges', r \in refEdges' :
                    /\ Last(dataEdges', d) /\ Last(refEdges', r)
                    /\ DataNow \/ RefNow
                    /\ d - r > check.limit \/ r - d > check.limit
          [] check.kind = "fullskew" ->
                \E d \in dataEdges', r \in refEdges' :
                    /\ Last(dataEdges', d) /\ Last(refEdges', r)
                    /\ DataNow \/ RefNow
                    /\ ~(Distance(d, r) \in check.limit .. (IF check.limit2 # 0 THEN check.limit2
                                                                              ELSE check.limit))
          [] check.kind = "nochange" ->
                \E r \in refEdges' :
                    /\ DataNow /\ Last(refEdges', r)
                    /\ now >= r + check.limit /\ now <= r + check.limit2

(***************************************************************************)
(* A sample reports a violation exactly when the edges that have happened  *)
(* since time 0, under the conditions that held when they happened, offend *)
(* against the check: no earlier edge is forgotten, no edge is counted     *)
(* again at a later sample of the same time, and a change sampled while    *)
(* the check was off is not seen when it is on again.                      *)
(***************************************************************************)
ExactlyTheViolations == [][violation' <=> Sample /\ Offends]_vars

\* The calls of which the promise is true: a two-sided check with a limit on one side
\* has one on the other, a width check of a direction has no condition on its event,
\* and the upper limits of $fullskew and $nochange are not negative.
Regular(c) ==
    /\ c.ref.edge # "none"
    /\ c.kind \in {"setuphold", "recrem"} => c.limit > 0 \/ c.limit2 <= 0
    /\ c.kind \in {"width", "pulsewidth"} => ~c.ref.guarded \/ Direction(c.ref) = "any"
    /\ c.kind = "fullskew" => c.limit2 > 0 \/ (c.limit2 = 0 /\ c.limit >= 0)
    /\ c.kind = "nochange" => c.limit2 >= 0

RegularCalls == \A c \in Checks : Regular(c)

Times == 0 .. MaxTime

Pulsing == check.kind \in {"width", "pulsewidth"} /\ Direction(check.ref) # "any"
Remembers(time, times) == IF times = {} THEN time = Never ELSE Last(times, time)

\* Every variable has its type, and no time is in the future.
TimingTypeOK ==
    /\ check \in Checks
    /\ now \in Times
    /\ data \in Values /\ ref \in Values /\ cond \in BOOLEAN /\ enabled \in BOOLEAN
    /\ sampled \in BOOLEAN /\ violation \in BOOLEAN
    /\ prevData \in Values /\ prevRef \in Values
    /\ dataTime \in (0 .. now) \cup {Never} /\ refTime \in (0 .. now) \cup {Never}
    /\ window.start \in Int /\ window.end \in Int
    /\ dataEdges \in SUBSET (0 .. now) /\ refEdges \in SUBSET (0 .. now)
    /\ rises \in SUBSET (0 .. now) /\ falls \in SUBSET (0 .. now)

(***************************************************************************)
(* The two times the kernel remembers are those of the last edges of the   *)
(* history - for a directed width check, of the last rise and fall - and   *)
(* ~0 while there is none, whatever was decided at the samples before.     *)
(***************************************************************************)
LastTimes ==
    check.kind # "nochange" => /\ Remembers(dataTime, IF Pulsing THEN rises ELSE dataEdges)
                               /\ Remembers(refTime, IF Pulsing THEN falls ELSE refEdges)
=============================================================================
