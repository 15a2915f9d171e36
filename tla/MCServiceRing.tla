---------------------------- MODULE MCServiceRing ----------------------------
(* ServiceRing with a counter that wraps after two turns of the ring. *)
EXTENDS ServiceRing
==============================================================================
