--------------------------- MODULE MCTimingChecks ---------------------------
(***************************************************************************)
(* The calls TimingChecks is checked on: every task, with plain, posedge,  *)
(* negedge and edge-list events, guarded and not, and limits on both sides *)
(* of the distances that MaxTime allows.                                   *)
(***************************************************************************)
EXTENDS TimingChecks

Plain == Event("any", {}, FALSE)
Pos0  == Event("posedge", {}, FALSE)
PosIf == Event("posedge", {}, TRUE)
Neg0  == Event("negedge", {}, FALSE)
AnyIf == Event("any", {}, TRUE)
\* edge [01, x1], edge [10, 1z] and an edge list of both directions
RiseList == Event("list", {<<"0", "1">>, <<"x", "1">>}, FALSE)
FallList == Event("list", {<<"1", "0">>, <<"1", "z">>}, FALSE)
BothList == Event("list", {<<"0", "1">>, <<"z", "x">>}, FALSE)

Call(task, args) == [task |-> task, args |-> args]

MCCalls ==
    {Call("setup", <<Plain, PosIf, 2>>), Call("setup", <<BothList, Pos0, 2>>),
     Call("hold", <<PosIf, Plain, 2>>), Call("hold", <<Neg0, AnyIf, 1>>),
     Call("setuphold", <<Pos0, Plain, 1, 2>>), Call("setuphold", <<Pos0, Plain, 2, -1>>),
     Call("recovery", <<Neg0, Pos0, 2>>), Call("removal", <<Neg0, Pos0, 2>>),
     Call("recrem", <<Neg0, Pos0, 2, 1>>),
     Call("skew", <<Pos0, Pos0, 1>>), Call("timeskew", <<Pos0, Neg0, 1>>),
     Call("fullskew", <<Pos0, Pos0, 1, 2>>), Call("nochange", <<Pos0, Plain, 1, 2>>),
     Call("period", <<PosIf, 2>>), Call("period", <<FallList, 2>>),
     Call("width", <<Plain, 2>>), Call("width", <<Pos0, 2, 1, 0>>), Call("width", <<Neg0, 2>>),
     Call("width", <<RiseList, 2>>), Call("width", <<BothList, 2, 1, 0>>),
     Call("pulsewidth", <<Pos0, 1, 2, 0>>), Call("pulsewidth", <<Neg0, 1, 2, 0>>),
     Call("pulsewidth", <<FallList, 1, 2, 1>>), Call("pulsewidth", <<AnyIf, 2, 0, 0>>)}

MCLevels == {"0", "1", "x"}

ASSUME MCRegular == RegularCalls
=============================================================================
