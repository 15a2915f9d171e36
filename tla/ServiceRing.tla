----------------------------- MODULE ServiceRing -----------------------------
(***************************************************************************)
(* The ring through which the GPU scheduler asks the host for services     *)
(* ($display, $fopen, $finish, ...), for one gid.                          *)
(*                                                                         *)
(* sched_service_count[gid] is the tail, sched_service_count[count + gid]  *)
(* the head; both are free-running counters of CounterMod values (uint32). *)
(* A GPU thread reserves an index with an atomic add and only then fills   *)
(* the slot; the threads of a dispatch run at the same time (exec_ready    *)
(* runs one thread per ready process).  The host drains between            *)
(* dispatches, and only every service_drain_every-th time.                 *)
(***************************************************************************)
EXTENDS Naturals, Sequences, FiniteSets

CONSTANTS Capacity,    \* sched.service_capacity
          CounterMod,  \* number of values of the uint32 counters
          Threads,     \* GPU threads of one dispatch that publish for this gid
          Records,     \* payloads
          NoRecord     \* a slot never written, a thread that publishes nothing

\* 2^32 is a multiple of the default capacity 32; index % capacity is
\* continuous across the wrap of the counter only for such capacities.
ASSUME RingAssumption ==
  /\ Capacity \in Nat \ {0}
  /\ CounterMod \in Nat
  /\ CounterMod > Capacity
  /\ CounterMod % Capacity = 0
  /\ NoRecord \notin Records

Slots == 0 .. Capacity - 1
Counter == 0 .. CounterMod - 1

VARIABLES tail,     \* sched_service_count[gid]
          head,     \* sched_service_count[sched.count + gid]
          slot,     \* sched_service[gid * capacity + i]
          index,    \* __gpga_svc_index of each thread
          writing,  \* the record a thread has reserved a slot for, or NoRecord
          error,    \* sched_error[gid]
          running,  \* a dispatch is in flight
          batch,    \* the staging copy the host decoded last
          warned    \* a drain has printed "warning: service record overflow"

ringVars == <<tail, head, slot, index, writing, error, running, batch, warned>>

RingTypeOK ==
  /\ tail \in Counter /\ head \in Counter
  /\ slot \in [Slots -> Records \cup {NoRecord}]
  /\ index \in [Threads -> Counter]
  /\ writing \in [Threads -> Records \cup {NoRecord}]
  /\ error \in BOOLEAN /\ running \in BOOLEAN /\ warned \in BOOLEAN
  /\ batch \in Seq(Records \cup {NoRecord})

\* uint32 subtraction.
Distance(a, b) == (a + CounterMod - b) % CounterMod

RingInit ==
  /\ tail = 0 /\ head = 0
  /\ slot = [s \in Slots |-> NoRecord]
  /\ index = [t \in Threads |-> 0]
  /\ writing = [t \in Threads |-> NoRecord]
  /\ error = FALSE /\ running = FALSE
  /\ batch = <<>> /\ warned = FALSE

SlotOf(i) == i % Capacity

\* atomic_fetch_add on a uint32.
NextIndexUnbounded(i) == i + 1
NextIndex(i) == (i + 1) % CounterMod

\* The test each producer makes on the index it was given.
FullOffByOne(used) == used > Capacity
Full(used) == used >= Capacity

\* The host commits a command buffer.
Launch ==
  /\ ~running
  /\ running' = TRUE
  /\ UNCHANGED <<tail, head, slot, index, writing, error, batch, warned>>

\* The thread takes the next index; when the ring is full it has consumed the
\* index all the same, and raises the error.  The first conjunct is the bound on
\* the requests made between two drains: one turn of the counter.
Reserve(t, r) ==
  /\ Distance(tail, head) < CounterMod - 1
  /\ running /\ writing[t] = NoRecord
  /\ tail' = NextIndex(tail)
  /\ IF Full(Distance(tail, head))
       THEN error' = TRUE /\ UNCHANGED <<index, writing>>
       ELSE /\ index' = [index EXCEPT ![t] = tail]
            /\ writing' = [writing EXCEPT ![t] = r]
            /\ UNCHANGED error
  /\ UNCHANGED <<head, slot, running, batch, warned>>

Fill(t) ==
  /\ writing[t] # NoRecord
  /\ slot' = [slot EXCEPT ![SlotOf(index[t])] = writing[t]]
  /\ writing' = [writing EXCEPT ![t] = NoRecord]
  /\ index' = [index EXCEPT ![t] = 0]
  /\ UNCHANGED <<tail, head, error, running, batch, warned>>

\* The dispatch ends when all its threads have; the host waits for that.
Complete ==
  /\ running /\ \A t \in Threads : writing[t] = NoRecord
  /\ running' = FALSE
  /\ UNCHANGED <<tail, head, slot, index, writing, error, batch, warned>>

\* The number of records the host copies: everything up to the tail, or a ring
\* full after an overflow.
DrainCount ==
  LET used == Distance(tail, head) IN IF used > Capacity THEN Capacity ELSE used

StagedFromTheStart(used) == [i \in 1 .. used |-> slot[i - 1]]

\* Two spans: from the head's slot to the end of the ring, then from slot 0.
Staged(used) ==
  LET headSlot == SlotOf(head)
      span == IF used < Capacity - headSlot THEN used ELSE Capacity - headSlot
  IN  [i \in 1 .. span |-> slot[headSlot + i - 1]]
        \o [i \in 1 .. used - span |-> slot[i - 1]]

\* More indices taken than the ring has slots: the host's own test.
Overflowed == Distance(tail, head) > Capacity

\* A drain that takes the error for settled by its warning.
DrainClearsError ==
  /\ ~running
  /\ DrainCount # 0
  /\ batch' = Staged(DrainCount)
  /\ warned' = (warned \/ Overflowed)
  /\ error' = FALSE
  /\ head' = tail
  /\ UNCHANGED <<tail, slot, index, writing, running>>

Drain ==
  /\ ~running
  /\ DrainCount # 0
  /\ batch' = Staged(DrainCount)
  /\ warned' = (warned \/ Overflowed)
  /\ head' = tail
  /\ UNCHANGED <<tail, slot, index, writing, error, running>>

RingNext ==
  \/ Launch \/ Complete \/ Drain
  \/ \E t \in Threads : Fill(t)
  \/ \E t \in Threads, r \in Records : Reserve(t, r)

RingSpec == RingInit /\ [][RingNext]_ringVars
-----------------------------------------------------------------------------
\* The records between head and tail, those a thread has yet to fill included.
Pending ==
  [i \in 1 .. DrainCount |->
     LET x == (head + i - 1) % CounterMod
         filling == {t \in Threads : writing[t] # NoRecord /\ index[t] = x}
     IN  IF filling # {} THEN writing[CHOOSE t \in filling : TRUE]
                         ELSE slot[SlotOf(x)]]

\* The ring is a bounded queue (src/main.mm drain_services with the producers of
\* src/codegen/msl_codegen.cc): whatever the wrap of the counters, the place of the head in
\* the ring and the threads that fill slots out of order, the host takes exactly
\* the records accepted since the last drain, once, in the order of their index.
Fifo == INSTANCE ServiceFifo WITH queue <- Pending
RingIsFifo == Fifo!FifoSpec

\* Two threads of a dispatch never fill the same slot: the full check uses the index
\* the thread itself reserved, so a late reader of the tail cannot slip in.
NoSlotShared ==
  \A t, u \in Threads :
    (t # u /\ writing[t] # NoRecord /\ writing[u] # NoRecord)
      => SlotOf(index[t]) # SlotOf(index[u])

\* The device and the host agree about lost records, each by a test of its own: the
\* flag a producer raises when its index finds the ring full (used >= capacity, before
\* the index counts) is up exactly if the host has warned of an overflow or will at its
\* next drain (used > capacity, over all indices taken since the last one).  So no
\* record is lost silently, and what is drained afterwards, or how often, does not
\* take the error back.
OverflowIsReported == error = (warned \/ Overflowed)
==============================================================================
