----------------------------- MODULE MCExecReady -----------------------------
(* Programs for the exec-ready pipeline. *)
EXTENDS ExecReady, MCScheduler

\* 0 forks 2 and 3 under one tag; 1 sleeps, raises an event, ends the run.
PairParent == 0 :> 4 @@ 1 :> 4 @@ 2 :> 0 @@ 3 :> 0
PairTag == 0 :> 0 @@ 1 :> 0 @@ 2 :> 1 @@ 3 :> 1
PairProgram ==
    0 :> {ForkOf(1), Kill(2), T(1), Op("DONE")}
    @@ 1 :> {T(0), T(1), Raise("e"), Op("FINISH"), Op("DONE")}
    @@ 2 :> {T(0), On("e"), Op("DONE")}
    @@ 3 :> {T(1), Op("DONE")}

\* Data and services: 0 assigns q with `<=` and a delay, 1 watches the net of q.
WatchProgram ==
    0 :> {Nba("q", "1"), After(1, "q", "0"), T(2), Raise("e"), Op("DONE")}
    @@ 1 :> {On("e"), Until("w"), OnEdge("w", "ANY"), T(1), Op("CALL"), Op("DONE")}
WatchDelayed == DelayedIn(WatchProgram)

\* Documented behaviour that exec-ready mode does not have: two branches that end
\* together, a `<=` after a delay, two delayed `<=` at once, a `#0` next to a fork.
EndTogether == 0 :> {ForkOf(1), Op("DONE")} @@ 1 :> {Op("DONE")} @@ 2 :> {Op("DONE")}
TwoBranches == 0 :> 3 @@ 1 :> 0 @@ 2 :> 0
TwoTags == 0 :> 0 @@ 1 :> 1 @@ 2 :> 1
LostProgram == 0 :> {T(1), Nba("q", "1"), Op("DONE")} @@ 1 :> {Op("DONE")}
QueueProgram == 0 :> {After(1, "q", "1"), T(1), Op("DONE")}
                @@ 1 :> {After(2, "a", "1"), T(1), Op("DONE")}
QueueDelayed == DelayedIn(QueueProgram)
ForkAndWait == 0 :> {ForkOf(1), Op("DONE")} @@ 1 :> {T(0), Op("DONE")} @@ 2 :> {Op("DONE")}
OneBranch == 0 :> 3 @@ 1 :> 3 @@ 2 :> 0
OneTag == 0 :> 0 @@ 1 :> 0 @@ 2 :> 1
=============================================================================
