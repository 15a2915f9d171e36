----------------------------- MODULE ServiceFifo -----------------------------
(***************************************************************************)
(* What the service ring of the scheduler promises to the host.            *)
(*                                                                         *)
(* A kernel publishes service records; while fewer than Capacity records   *)
(* are pending the record is queued, otherwise it is refused and the       *)
(* scheduler's error flag is raised.  The host takes all pending records   *)
(* at once, in the order they were published.                              *)
(***************************************************************************)
EXTENDS Naturals, Sequences

CONSTANTS Capacity,  \* sched.service_capacity: most records pending at once
          Records    \* the payloads a record may carry

VARIABLES queue,     \* records published and not yet taken, oldest first
          batch,     \* what the host took last
          error      \* sched_error: a record was refused

fifoVars == <<queue, batch, error>>

FifoInit == queue = <<>> /\ batch = <<>> /\ error = FALSE

FifoPublish(r) ==
  /\ Len(queue) < Capacity
  /\ queue' = Append(queue, r)
  /\ UNCHANGED <<batch, error>>

FifoRefuse ==
  /\ Len(queue) = Capacity
  /\ error' = TRUE
  /\ UNCHANGED <<queue, batch>>

FifoDrain ==
  /\ batch' = queue
  /\ queue' = <<>>
  /\ UNCHANGED error

FifoNext == (\E r \in Records : FifoPublish(r)) \/ FifoRefuse \/ FifoDrain

\* The refinement target of the ring in ServiceRing.
FifoSpec == FifoInit /\ [][FifoNext]_fifoVars
==============================================================================
