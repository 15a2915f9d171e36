----------------------------- MODULE MCScheduler -----------------------------
(* Programs for the model checker.  Every instance has root processes 0 and 1. *)
EXTENDS Scheduler, TLC

NoStore == [r \in {} |-> "0"]
OneDriver(net, reg) == net :> reg

T(d) == [op |-> "WAIT_TIME", delay |-> d]
Put(r, v) == [op |-> "ASSIGN", lhs |-> r, rhs |-> v]
Nba(r, v) == [op |-> "ASSIGN_NB", lhs |-> r, rhs |-> v]
Held(d, r, v) == [op |-> "ASSIGN_DELAY", lhs |-> r, rhs |-> v, delay |-> d, nb |-> FALSE,
                  inertial |-> FALSE, reject |-> 0, error |-> 0]
After(d, r, v) == [Held(d, r, v) EXCEPT !.nb = TRUE]
Path(d, r, v, rej, err) ==
    [After(d, r, v) EXCEPT !.inertial = TRUE, !.reject = rej, !.error = err]
OnEdge(s, k) == [op |-> "WAIT_EDGE", items |-> {<<s, k>>}]
Until(s) == [op |-> "WAIT_COND", cond |-> s]
On(e) == [op |-> "WAIT_EVENT", ev |-> e]
Raise(e) == [op |-> "EVENT_TRIGGER", ev |-> e]
ForkOf(t) == [op |-> "FORK", tag |-> t]
Kill(p) == [op |-> "DISABLE_CHILD", pid |-> p]
Leave(p) == [op |-> "DISABLE_CROSS", pid |-> p]
Op(o) == [op |-> o]

NoStores == {NoStore}
DelayedIn(prog) == {i \in UNION {prog[p] : p \in DOMAIN prog} : i.op = "ASSIGN_DELAY"}
NoDelayed == {}

\* Fork and join: 0 has two forks, of 2 and 3 and of 4; 1 disables 0's block.
ForkParent == 0 :> 5 @@ 1 :> 5 @@ 2 :> 0 @@ 3 :> 0 @@ 4 :> 0
ForkTag == 0 :> 0 @@ 1 :> 0 @@ 2 :> 1 @@ 3 :> 1 @@ 4 :> 2
ForkProgram ==
    0 :> {ForkOf(1), ForkOf(2), Kill(4), Held(1, "a", "0"), Op("DONE")}
    @@ 1 :> {Leave(0), T(1), Op("DONE")}
    @@ 2 :> {Kill(3), T(0), Held(1, "a", "1"), Op("DONE")}
    @@ 3 :> {Kill(2), Leave(0), T(1), Op("DONE"), Op("FAIL")}
    @@ 4 :> {Kill(3), T(1), Op("FINISH"), Op("STOP"), Op("DONE")}
ForkDelayed == DelayedIn(ForkProgram)
NoDriver == [n \in {} |-> "a"]

\* Data: two roots over regs a, q (q assigned with `<=` only) and net w = q.
NoFork == 0 :> 2 @@ 1 :> 2
NoTag == 0 :> 0 @@ 1 :> 0
NetOfQ == OneDriver("w", "q")
DataProgram ==
    0 :> {Nba("q", "a"), After(1, "q", "0"), Path(2, "q", "1", 1, 2), After(0, "q", "1"), T(1),
          OnEdge("a", "NEGEDGE"), Op("DONE")}
    @@ 1 :> {Put("a", "w"), Held(2, "a", "1"), Held(0, "a", "1"), OnEdge("w", "POSEDGE"),
             Until("w"), Op("DONE")}
DataDelayed == DelayedIn(DataProgram)

\* Waiting, in any order: time, an event, an edge list, a condition, services.
LiveProgram ==
    0 :> {Raise("e"), Nba("q", "1"), T(0), T(1), Op("CALL"), Op("DONE")}
    @@ 1 :> {On("e"), [op |-> "WAIT_EDGE", items |-> {<<"a", "ANY">>, <<"w", "NEGEDGE">>}],
             Until("w"), T(2), Op("CALL"), Op("TASK"), Op("DONE")}
StoreA == {NoStore, "a" :> "1"}

\* Documented behaviour the code does not have.
IdleProgram == 0 :> {T(1), Op("DONE")} @@ 1 :> {T(1), Op("DONE")}
ServiceProgram == 0 :> {Op("CALL"), Op("DONE")} @@ 1 :> {Op("DONE")}
SnapshotProgram ==
    0 :> {Put("q", "0"), T(1), Op("DONE")} @@ 1 :> {Nba("q", "1"), T(1), Op("DONE")}
=============================================================================
