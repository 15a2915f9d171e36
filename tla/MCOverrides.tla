----------------------------- MODULE MCOverrides -----------------------------
(***************************************************************************)
(* A reg with force and assign statements, a reg with force statements     *)
(* only, and a wire; two operands.                                         *)
(***************************************************************************)
EXTENDS Overrides

CONSTANTS a, b, p, q, w

MCOperands == {a, b}
MCRegs     == {p, q}
MCWires    == {w}
MCDriver   == [n \in MCWires |-> a]
MCForces   == {[target |-> t, rhs |-> b] : t \in {p, q, w}} \cup {[target |-> p, rhs |-> a]}
MCAssigns  == {[target |-> p, rhs |-> s] : s \in {a, b}}
MCReleases == {p, q, w}
MCDeassigns == {p}
=============================================================================
