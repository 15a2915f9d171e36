-------------------------- MODULE ServiceRingProofs --------------------------
(***************************************************************************)
(* The ring of ServiceRing is type correct, its threads never share a      *)
(* slot, and it implements the queue of ServiceFifo, for every capacity,   *)
(* counter width and set of threads that satisfies RingAssumption.         *)
(***************************************************************************)
EXTENDS ServiceRing, Integers, SequenceTheorems, TLAPS

-----------------------------------------------------------------------------
(* Type correctness.                                                       *)

\* The modulus of a natural number lies below the divisor.
LEMMA ModRange ==
  ASSUME NEW a \in Nat, NEW m \in Nat \ {0}
  PROVE  a % m \in 0 .. m - 1
  OBVIOUS

\* A wrapped counter difference is a counter value.
LEMMA DistanceType ==
  ASSUME NEW a \in Counter, NEW b \in Counter
  PROVE  Distance(a, b) \in Counter
  BY RingAssumption, ModRange DEF Distance, Counter

\* What the host copies fits in the ring.
LEMMA DrainCountType ==
  ASSUME RingTypeOK
  PROVE  DrainCount \in 0 .. Capacity
  BY RingAssumption, DistanceType DEF RingTypeOK, DrainCount, Counter

\* The two spans of the staging copy read slots of the ring only.
LEMMA StagedType ==
  ASSUME RingTypeOK, NEW used \in 0 .. Capacity
  PROVE  Staged(used) \in Seq(Records \cup {NoRecord})
<1> DEFINE headSlot == SlotOf(head)
           span == IF used < Capacity - headSlot THEN used ELSE Capacity - headSlot
           R == Records \cup {NoRecord}
<1>1. headSlot \in Slots
  BY RingAssumption, ModRange DEF RingTypeOK, Slots, Counter, SlotOf
<1>2. span \in Nat /\ used - span \in Nat /\ used - span <= headSlot
  BY RingAssumption, <1>1 DEF Slots
<1>3. \A i \in 1 .. span : headSlot + i - 1 \in Slots
  BY RingAssumption, <1>1 DEF Slots
<1>4. \A i \in 1 .. used - span : i - 1 \in Slots
  BY RingAssumption, <1>1, <1>2 DEF Slots
<1>5. [i \in 1 .. span |-> slot[headSlot + i - 1]] \in Seq(R)
  BY <1>2, <1>3 DEF RingTypeOK
<1>6. [i \in 1 .. used - span |-> slot[i - 1]] \in Seq(R)
  BY <1>2, <1>4 DEF RingTypeOK
<1> QED
  BY <1>5, <1>6 DEF Staged

\* Type correctness of the ring, for every capacity and counter width.
THEOREM RingTyped == RingSpec => []RingTypeOK
<1>1. RingInit => RingTypeOK
  <2> SUFFICES ASSUME RingInit PROVE RingTypeOK
    OBVIOUS
  <2>1. 0 \in Counter
    BY RingAssumption DEF Counter
  <2>2. batch \in Seq(Records \cup {NoRecord})
    BY DEF RingInit
  <2> QED
    BY <2>1, <2>2 DEF RingInit, RingTypeOK
<1>2. RingTypeOK /\ [RingNext]_ringVars => RingTypeOK'
  <2> SUFFICES ASSUME RingTypeOK, [RingNext]_ringVars PROVE RingTypeOK'
    OBVIOUS
  <2>1. CASE Launch
    BY <2>1 DEF Launch, RingTypeOK
  <2>2. CASE Complete
    BY <2>2 DEF Complete, RingTypeOK
  <2>3. CASE Drain
    <3>1. batch' \in Seq(Records \cup {NoRecord})
      BY <2>3, DrainCountType, StagedType DEF Drain
    <3> QED
      BY <2>3, <3>1 DEF Drain, RingTypeOK
  <2>4. ASSUME NEW t \in Threads, Fill(t) PROVE RingTypeOK'
    <3>0. index[t] \in Nat
      BY RingAssumption DEF RingTypeOK, Counter
    <3>1. SlotOf(index[t]) \in Slots
      BY <3>0, RingAssumption, ModRange DEF Slots, SlotOf
    <3> QED
      BY <2>4, <3>1, RingAssumption DEF Fill, RingTypeOK, Counter
  <2>5. ASSUME NEW t \in Threads, NEW r \in Records, Reserve(t, r)
        PROVE  RingTypeOK'
    <3>1. tail' \in Counter
      BY <2>5, RingAssumption, ModRange DEF Reserve, RingTypeOK, Counter, NextIndex
    <3> QED
      BY <2>5, <3>1 DEF Reserve, RingTypeOK
  <2>6. CASE UNCHANGED ringVars
    BY <2>6 DEF ringVars, RingTypeOK
  <2> QED
    BY <2>1, <2>2, <2>3, <2>4, <2>5, <2>6 DEF RingNext
<1> QED
  BY <1>1, <1>2, PTL DEF RingSpec
-----------------------------------------------------------------------------
(* Arithmetic modulo the capacity and the counter.                         *)

\* Division with remainder.
LEMMA Division ==
  ASSUME NEW a \in Nat, NEW m \in Nat \ {0}
  PROVE  /\ a = m * (a \div m) + (a % m)
         /\ a \div m \in Int
         /\ a % m \in 0 .. m - 1
  OBVIOUS

\* A multiple of m that is not 0 is at least m.
LEMMA MultipleIsLarge ==
  ASSUME NEW m \in Nat \ {0}, NEW d \in Int, d >= 1
  PROVE  m * d >= m
  OBVIOUS

\* The remainder is unique.
LEMMA RemainderUnique ==
  ASSUME NEW m \in Nat \ {0}, NEW p \in Int, NEW q \in Int,
         NEW e \in 0 .. m - 1, NEW r \in 0 .. m - 1, m * p + e = m * q + r
  PROVE  e = r
<1>1. m * (q - p) = e - r
  OBVIOUS
<1>2. CASE q - p >= 1
  BY <1>1, <1>2, MultipleIsLarge
<1>3. CASE p - q >= 1
  <2>1. m * (p - q) >= m
    BY <1>3, MultipleIsLarge
  <2>2. m * (p - q) = r - e
    BY <1>1
  <2> QED
    BY <2>1, <2>2
<1>4. CASE p = q
  BY <1>4
<1> QED
  BY <1>2, <1>3, <1>4

\* A number that is a multiple of m and r more leaves r.
LEMMA RemainderIs ==
  ASSUME NEW a \in Nat, NEW m \in Nat \ {0}, NEW q \in Int, NEW r \in 0 .. m - 1,
         a = m * q + r
  PROVE  a % m = r
  BY Division, RemainderUnique

\* Index d places after i.
After(i, d) == (i + d) % CounterMod

\* Up to one turn, the counter is a circle.
LEMMA Wrap ==
  ASSUME NEW i \in Counter, NEW d \in 0 .. CounterMod
  PROVE  After(i, d) = IF i + d < CounterMod THEN i + d ELSE i + d - CounterMod
<1> CounterMod \in Nat \ {0}
  BY RingAssumption
<1>1. CASE i + d < CounterMod
  BY <1>1, RemainderIs, i + d = CounterMod * 0 + (i + d) DEF Counter, After
<1>2. CASE i + d >= CounterMod
  BY <1>2, RemainderIs, i + d = CounterMod * 1 + (i + d - CounterMod) DEF Counter, After
<1> QED
  BY <1>1, <1>2 DEF Counter

\* The distance of two counters is that on the circle.
LEMMA DistanceIs ==
  ASSUME NEW a \in Counter, NEW b \in Counter
  PROVE  Distance(a, b) = IF a >= b THEN a - b ELSE a + CounterMod - b
<1> CounterMod \in Nat \ {0}
  BY RingAssumption
<1>0. /\ a \in Nat /\ b \in Nat /\ a < CounterMod /\ b < CounterMod
      /\ a + CounterMod - b \in Nat
  BY DEF Counter
<1>1. CASE a >= b
  <2>1. a + CounterMod - b = CounterMod * 1 + (a - b) /\ a - b \in 0 .. CounterMod - 1
    BY <1>0, <1>1
  <2>2. (a + CounterMod - b) % CounterMod = a - b
    BY <1>0, <2>1, RemainderIs
  <2> QED
    BY <1>1, <2>2 DEF Distance
<1>2. CASE a < b
  <2>1. /\ a + CounterMod - b = CounterMod * 0 + (a + CounterMod - b)
        /\ a + CounterMod - b \in 0 .. CounterMod - 1
    BY <1>0, <1>2
  <2>2. (a + CounterMod - b) % CounterMod = a + CounterMod - b
    BY <1>0, <2>1, RemainderIs
  <2> QED
    BY <1>0, <1>2, <2>2 DEF Distance
<1> QED
  BY <1>0, <1>1, <1>2

\* The next index is one place further.
LEMMA NextIs ==
  ASSUME NEW i \in Counter
  PROVE  NextIndex(i) = After(i, 1)
  BY DEF NextIndex, After

\* An index is as far from the head as its distance says.
LEMMA AfterDistance ==
  ASSUME NEW h \in Counter, NEW x \in Counter
  PROVE  After(h, Distance(x, h)) = x
<1>1. Distance(x, h) \in Counter
  BY DistanceType
<1>2. Distance(x, h) \in 0 .. CounterMod
  BY <1>1, RingAssumption DEF Counter
<1>3. After(h, Distance(x, h)) = IF h + Distance(x, h) < CounterMod THEN h + Distance(x, h)
                                 ELSE h + Distance(x, h) - CounterMod
  BY <1>2, Wrap
<1>4. Distance(x, h) = IF x >= h THEN x - h ELSE x + CounterMod - h
  BY DistanceIs
<1>5. x \in 0 .. CounterMod - 1 /\ h \in 0 .. CounterMod - 1 /\ CounterMod \in Nat
  BY RingAssumption DEF Counter
<1> QED
  BY <1>3, <1>4, <1>5

\* And the other way round.
LEMMA DistanceAfter ==
  ASSUME NEW h \in Counter, NEW d \in 0 .. CounterMod - 1
  PROVE  After(h, d) \in Counter /\ Distance(After(h, d), h) = d
<1>1. After(h, d) = IF h + d < CounterMod THEN h + d ELSE h + d - CounterMod
  BY Wrap, RingAssumption
<1>2. After(h, d) \in Counter
  BY <1>1, RingAssumption DEF Counter
<1> QED
  BY <1>1, <1>2, DistanceIs, RingAssumption DEF Counter

\* Within one turn of the ring the slots go round with the indices, also where the
\* counter wraps: this is what the capacity must divide CounterMod for.
LEMMA SlotAfter ==
  ASSUME NEW h \in Counter, NEW d \in 0 .. Capacity - 1
  PROVE  SlotOf(After(h, d)) = IF SlotOf(h) + d < Capacity THEN SlotOf(h) + d
                               ELSE SlotOf(h) + d - Capacity
<1> DEFINE q == h \div Capacity
           s == h % Capacity
           k == CounterMod \div Capacity
<1>1. /\ Capacity \in Nat \ {0} /\ CounterMod \in Nat /\ CounterMod > Capacity
      /\ h \in Nat /\ h < CounterMod
  BY RingAssumption DEF Counter
<1>2. h = Capacity * q + s /\ q \in Int /\ s \in 0 .. Capacity - 1
  BY <1>1, Division
<1>3. CounterMod = Capacity * k /\ k \in Int
  BY <1>1, Division, RingAssumption
<1>4. After(h, d) = IF h + d < CounterMod THEN h + d ELSE h + d - CounterMod
  BY <1>1, Wrap
<1>5. SlotOf(h) = s
  BY DEF SlotOf
<1> HIDE DEF q, s, k
<1>6. \E p \in Int : After(h, d) = Capacity * p + (s + d)
  <2>1. CASE h + d < CounterMod
    BY <1>1, <1>2, <1>4, <2>1
  <2>2. CASE h + d >= CounterMod
    <3>1. Capacity * (q - k) = Capacity * q - Capacity * k
      BY <1>1, <1>2, <1>3
    <3>2. After(h, d) = Capacity * (q - k) + (s + d)
      BY <1>1, <1>2, <1>3, <1>4, <2>2, <3>1
    <3> QED
      BY <1>2, <1>3, <3>2
  <2> QED
    BY <1>1, <2>1, <2>2
<1>7. PICK p \in Int : After(h, d) = Capacity * p + (s + d)
  BY <1>6
<1>8. After(h, d) \in Nat
  BY <1>1, <1>4
<1>9. CASE s + d < Capacity
  <2>1. s + d \in 0 .. Capacity - 1
    BY <1>1, <1>2, <1>9
  <2>2. After(h, d) % Capacity = s + d
    BY <1>1, <1>7, <1>8, <2>1, RemainderIs
  <2> QED
    BY <1>5, <1>9, <2>2 DEF SlotOf
<1>10. CASE s + d >= Capacity
  <2>1. Capacity * (p + 1) = Capacity * p + Capacity
    BY <1>1
  <2>2. After(h, d) = Capacity * (p + 1) + (s + d - Capacity)
    BY <1>1, <1>2, <1>7, <2>1
  <2>3. s + d - Capacity \in 0 .. Capacity - 1
    BY <1>1, <1>2, <1>10
  <2>4. p + 1 \in Int
    BY <1>7
  <2>5. After(h, d) % Capacity = s + d - Capacity
    BY <1>1, <1>8, <2>2, <2>3, <2>4, RemainderIs
  <2> QED
    BY <1>1, <1>2, <1>5, <1>10, <2>5 DEF SlotOf
<1> QED
  BY <1>1, <1>2, <1>9, <1>10

\* Two indices of one window have different slots.
LEMMA SlotsDiffer ==
  ASSUME NEW h \in Counter, NEW d \in 0 .. Capacity - 1, NEW e \in 0 .. Capacity - 1, d # e
  PROVE  SlotOf(After(h, d)) # SlotOf(After(h, e))
<1>1. SlotOf(h) \in 0 .. Capacity - 1
  BY RingAssumption, Division DEF Counter, SlotOf
<1> QED
  BY <1>1, SlotAfter, RingAssumption

-----------------------------------------------------------------------------
(* Sequences as functions.                                                 *)

\* A function on 1 .. n is a sequence of length n.
LEMMA FunctionIsSeq ==
  ASSUME NEW S, NEW n \in Nat, NEW f \in [1 .. n -> S]
  PROVE  f \in Seq(S) /\ Len(f) = n
  OBVIOUS

\* Append, element by element.
LEMMA AppendIs ==
  ASSUME NEW S, NEW s \in Seq(S), NEW e \in S
  PROVE  Append(s, e) = [i \in 1 .. Len(s) + 1 |-> IF i <= Len(s) THEN s[i] ELSE e]
<1> DEFINE f == [i \in 1 .. Len(s) + 1 |-> IF i <= Len(s) THEN s[i] ELSE e]
<1>1. Len(s) \in Nat /\ s \in [1 .. Len(s) -> S]
  BY LenProperties
<1>2. f \in [1 .. Len(s) + 1 -> S]
  BY <1>1
<1>3. f \in Seq(S) /\ Len(f) = Len(s) + 1
  BY <1>1, <1>2, FunctionIsSeq
<1>4. /\ Append(s, e) \in Seq(S)
      /\ Len(Append(s, e)) = Len(s) + 1
      /\ \A i \in 1 .. Len(s) : Append(s, e)[i] = s[i]
      /\ Append(s, e)[Len(s) + 1] = e
  BY AppendProperties
<1>5. \A i \in 1 .. Len(s) + 1 : f[i] = Append(s, e)[i]
  BY <1>1, <1>4
<1> HIDE DEF f
<1>6. Append(s, e) = f
  BY <1>3, <1>4, <1>5, SeqEqual
<1> QED
  BY <1>6 DEF f

\* Concatenation, element by element.
LEMMA ConcatIs ==
  ASSUME NEW S, NEW s \in Seq(S), NEW t \in Seq(S)
  PROVE  s \o t = [i \in 1 .. Len(s) + Len(t) |-> IF i <= Len(s) THEN s[i] ELSE t[i - Len(s)]]
<1> DEFINE f == [i \in 1 .. Len(s) + Len(t) |-> IF i <= Len(s) THEN s[i] ELSE t[i - Len(s)]]
<1>1. /\ Len(s) \in Nat /\ s \in [1 .. Len(s) -> S]
      /\ Len(t) \in Nat /\ t \in [1 .. Len(t) -> S]
  BY LenProperties
<1>2. f \in [1 .. Len(s) + Len(t) -> S]
  BY <1>1
<1>3. f \in Seq(S) /\ Len(f) = Len(s) + Len(t)
  BY <1>1, <1>2, FunctionIsSeq
<1>4. /\ s \o t \in Seq(S)
      /\ Len(s \o t) = Len(s) + Len(t)
      /\ \A i \in 1 .. Len(s) + Len(t) : (s \o t)[i] = IF i <= Len(s) THEN s[i]
                                                      ELSE t[i - Len(s)]
  BY ConcatProperties
<1>5. \A i \in 1 .. Len(s) + Len(t) : f[i] = (s \o t)[i]
  BY <1>4
<1> HIDE DEF f
<1>6. s \o t = f
  BY <1>3, <1>4, <1>5, SeqEqual
<1> QED
  BY <1>6 DEF f

-----------------------------------------------------------------------------
(* The invariant: threads write inside the window between head and tail.   *)

\* What a thread writes lies among the records the host will copy.
ReservedInWindow ==
  \A t \in Threads :
    writing[t] # NoRecord => running /\ Distance(index[t], head) < DrainCount

\* No two threads have reserved the same index.
IndexesDiffer ==
  \A t, u \in Threads :
    (t # u /\ writing[t] # NoRecord /\ writing[u] # NoRecord) => index[t] # index[u]

RingInv == RingTypeOK /\ ReservedInWindow /\ IndexesDiffer /\ OverflowIsReported

\* The number of records to copy is the distance of the counters, cut at the capacity.
LEMMA DrainCountIs ==
  ASSUME RingTypeOK
  PROVE  /\ Distance(tail, head) \in 0 .. CounterMod - 1
         /\ DrainCount = IF Distance(tail, head) > Capacity THEN Capacity
                         ELSE Distance(tail, head)
         /\ DrainCount \in 0 .. Capacity
  BY DistanceType, DrainCountType DEF RingTypeOK, Counter, DrainCount

\* A reservation moves the tail one place away from the head.
LEMMA TailMoves ==
  ASSUME RingTypeOK, NEW t \in Threads, NEW r \in Records, Reserve(t, r)
  PROVE  /\ tail' = After(tail, 1)
         /\ tail' \in Counter
         /\ Distance(tail', head) = Distance(tail, head) + 1
<1>1. tail \in Counter /\ head \in Counter
  BY DEF RingTypeOK
<1>2. tail' = After(tail, 1)
  BY <1>1, NextIs DEF Reserve
<1>3. tail' = IF tail + 1 < CounterMod THEN tail + 1 ELSE tail + 1 - CounterMod
  BY <1>1, <1>2, Wrap, RingAssumption
<1>4. tail' \in Counter
  BY <1>1, <1>3, RingAssumption DEF Counter
<1>5. /\ Distance(tail, head) = IF tail >= head THEN tail - head ELSE tail + CounterMod - head
      /\ Distance(tail', head) = IF tail' >= head THEN tail' - head
                                 ELSE tail' + CounterMod - head
  BY <1>1, <1>4, DistanceIs
<1>6. Distance(tail, head) < CounterMod - 1
  BY DEF Reserve
<1>7. tail \in 0 .. CounterMod - 1 /\ head \in 0 .. CounterMod - 1 /\ CounterMod \in Nat
  BY <1>1, RingAssumption DEF Counter
<1> QED
  BY <1>2, <1>3, <1>4, <1>5, <1>6, <1>7

\* The invariant is inductive.
LEMMA RingInvHolds == RingSpec => []RingInv
<1>1. RingInit => ReservedInWindow /\ IndexesDiffer /\ OverflowIsReported
  <2> SUFFICES ASSUME RingInit PROVE ReservedInWindow /\ IndexesDiffer /\ OverflowIsReported
    OBVIOUS
  <2>1. 0 \in Counter
    BY RingAssumption DEF Counter
  <2>2. Distance(tail, head) = 0
    BY <2>1, DistanceIs DEF RingInit
  <2>3. ~Overflowed
    BY <2>2, RingAssumption DEF Overflowed
  <2>4. OverflowIsReported
    BY <2>3, Zenon DEF RingInit, OverflowIsReported
  <2> QED
    BY <2>4 DEF RingInit, ReservedInWindow, IndexesDiffer
<1>2. RingInv /\ RingTypeOK' /\ [RingNext]_ringVars
      => ReservedInWindow' /\ IndexesDiffer' /\ OverflowIsReported'
  <2> SUFFICES ASSUME RingInv, RingTypeOK', [RingNext]_ringVars
               PROVE  ReservedInWindow' /\ IndexesDiffer' /\ OverflowIsReported'
    OBVIOUS
  <2>0. RingTypeOK /\ ReservedInWindow /\ IndexesDiffer /\ OverflowIsReported
    BY DEF RingInv
  <2>1. CASE Launch
    BY <2>0, <2>1 DEF Launch, ReservedInWindow, IndexesDiffer, OverflowIsReported, Overflowed, DrainCount,
       Distance
  <2>2. CASE Complete
    BY <2>0, <2>2
       DEF Complete, ReservedInWindow, IndexesDiffer, OverflowIsReported, Overflowed, Distance
  <2>3. CASE Drain
    <3>1. \A t \in Threads : writing'[t] = NoRecord
      BY <2>0, <2>3 DEF Drain, ReservedInWindow
    <3>2. Distance(tail', head') = 0
      BY <2>0, <2>3, DistanceIs, RingAssumption DEF Drain, RingTypeOK, Counter
    <3>3. OverflowIsReported'
      <4>1. ~Overflowed'
        BY <3>2, RingAssumption DEF Overflowed
      <4>2. error' = warned'
        BY <2>0, <2>3, Zenon DEF Drain, OverflowIsReported
      <4>3. warned' \in BOOLEAN
        BY DEF RingTypeOK
      <4> QED
        BY <4>1, <4>2, <4>3, Zenon DEF OverflowIsReported
    <3> QED
      BY <3>1, <3>3 DEF ReservedInWindow, IndexesDiffer
  <2>4. ASSUME NEW t \in Threads, Fill(t)
        PROVE  ReservedInWindow' /\ IndexesDiffer' /\ OverflowIsReported'
    <3>1. \A u \in Threads : writing'[u] # NoRecord
                              => u # t /\ writing'[u] = writing[u] /\ index'[u] = index[u]
      BY <2>0, <2>4 DEF Fill, RingTypeOK
    <3>2. UNCHANGED <<tail, head, running, error>> /\ DrainCount' = DrainCount
      BY <2>4 DEF Fill, DrainCount, Distance
    <3> QED
      BY <2>0, <2>4, <3>1, <3>2
         DEF Fill, ReservedInWindow, IndexesDiffer, OverflowIsReported, Overflowed, Distance
  <2>5. ASSUME NEW t \in Threads, NEW r \in Records, Reserve(t, r)
        PROVE  ReservedInWindow' /\ IndexesDiffer' /\ OverflowIsReported'
    <3> DEFINE used == Distance(tail, head)
    <3>1. head' = head /\ running' = running /\ running
      BY <2>5 DEF Reserve
    <3>2. Distance(tail', head') = used + 1 /\ used \in Nat
      BY <2>0, <2>5, <3>1, TailMoves, DrainCountIs
    <3>3. Capacity \in Nat
      BY RingAssumption
    <3>4. DrainCount = IF used > Capacity THEN Capacity ELSE used
      BY DEF DrainCount
    <3>5. DrainCount' = IF used + 1 > Capacity THEN Capacity ELSE used + 1
      BY <3>2 DEF DrainCount
    <3> HIDE DEF used
    <3>6. CASE Full(used)
      <4>1. used >= Capacity /\ error' = TRUE /\ UNCHANGED <<index, writing>>
        BY <2>5, <3>6 DEF Reserve, Full, used
      <4>2. DrainCount' = DrainCount
        BY <3>2, <3>3, <3>4, <3>5, <4>1
      <4>3. OverflowIsReported'
        <5>1. Overflowed'
          BY <3>2, <3>3, <4>1 DEF Overflowed
        <5> QED
          BY <4>1, <5>1 DEF OverflowIsReported
      <4> QED
        BY <2>0, <3>1, <4>1, <4>2, <4>3 DEF ReservedInWindow, IndexesDiffer, Distance
    <3>7. CASE ~Full(used)
      <4>1. /\ used < Capacity
            /\ error' = error
            /\ index' = [index EXCEPT ![t] = tail]
            /\ writing' = [writing EXCEPT ![t] = r]
        BY <2>5, <3>2, <3>3, <3>7 DEF Reserve, Full, used
      <4>2. DrainCount = used /\ DrainCount' = used + 1
        BY <3>2, <3>3, <3>4, <3>5, <4>1
      <4>3. \A u \in Threads : writing[u] # NoRecord
                                => Distance(index[u], head) < used
        BY <2>0, <4>2 DEF ReservedInWindow
      <4>4. \A u \in Threads : Distance(index[u], head) \in Nat
        <5>1. \A u \in Threads : Distance(index[u], head) \in Counter
          BY <2>0, DistanceType DEF RingTypeOK
        <5> QED
          BY <5>1, RingAssumption DEF Counter
      <4>5. \A u \in Threads \ {t} : index'[u] = index[u] /\ writing'[u] = writing[u]
        BY <2>0, <4>1 DEF RingTypeOK
      <4>6. index'[t] = tail
        BY <2>0, <4>1 DEF RingTypeOK
      <4>7. ReservedInWindow'
        <5> SUFFICES ASSUME NEW u \in Threads, writing'[u] # NoRecord
                     PROVE  running' /\ Distance(index'[u], head') < DrainCount'
          BY DEF ReservedInWindow, Distance
        <5>1. CASE u = t
          BY <3>1, <3>2, <4>2, <4>6, <5>1 DEF used
        <5>2. CASE u # t
          BY <3>1, <3>2, <4>2, <4>3, <4>4, <4>5, <5>2
        <5> QED
          BY <5>1, <5>2
      <4>8. \A u \in Threads : writing[u] # NoRecord => index[u] # tail
        BY <3>2, <4>3 DEF used
      <4>9. IndexesDiffer'
        BY <2>0, <4>5, <4>6, <4>8 DEF IndexesDiffer
      <4>10. OverflowIsReported'
        <5>1. ~Overflowed /\ ~Overflowed'
          BY <3>2, <3>3, <4>1 DEF Overflowed, used
        <5>2. warned' = warned
          BY <2>5 DEF Reserve
        <5> QED
          BY <2>0, <4>1, <5>1, <5>2 DEF OverflowIsReported
      <4> QED
        BY <4>7, <4>9, <4>10
    <3> QED
      BY <3>6, <3>7
  <2>6. CASE UNCHANGED ringVars
    BY <2>0, <2>6
       DEF ringVars, ReservedInWindow, IndexesDiffer, OverflowIsReported, Overflowed, DrainCount,
           Distance
  <2> QED
    BY <2>1, <2>2, <2>3, <2>4, <2>5, <2>6 DEF RingNext
<1> QED
  BY <1>1, <1>2, RingTyped, PTL DEF RingSpec, RingInv
-----------------------------------------------------------------------------
(* No slot is shared.                                                      *)

\* A thread writes the slot of an index at a place of the window.
LEMMA WrittenPlace ==
  ASSUME RingInv, NEW t \in Threads, writing[t] # NoRecord
  PROVE  /\ head \in Counter
         /\ Distance(index[t], head) \in 0 .. Capacity - 1
         /\ Distance(index[t], head) < DrainCount
         /\ After(head, Distance(index[t], head)) = index[t]
<1>1. head \in Counter /\ index[t] \in Counter
  BY DEF RingInv, RingTypeOK
<1>2. Distance(index[t], head) \in Nat
  <2>1. Distance(index[t], head) \in Counter
    BY <1>1, DistanceType
  <2> QED
    BY <2>1, RingAssumption DEF Counter
<1>3. Distance(index[t], head) < DrainCount
  BY DEF RingInv, ReservedInWindow
<1>4. DrainCount \in 0 .. Capacity
  BY DrainCountIs DEF RingInv
<1> QED
  BY <1>1, <1>2, <1>3, <1>4, AfterDistance, RingAssumption

\* Two threads of a dispatch never write the same slot, for every capacity that divides
\* the range of the counters: their indices lie in one window, and a window maps to the
\* slots one to one.
THEOREM SlotsAreNotShared == RingSpec => []NoSlotShared
<1>1. RingInv => NoSlotShared
  <2> SUFFICES ASSUME RingInv, NEW t \in Threads, NEW u \in Threads,
                      t # u, writing[t] # NoRecord, writing[u] # NoRecord
               PROVE  SlotOf(index[t]) # SlotOf(index[u])
    BY DEF NoSlotShared
  <2>1. index[t] # index[u]
    BY DEF RingInv, IndexesDiffer
  <2>2. Distance(index[t], head) # Distance(index[u], head)
    BY <2>1, WrittenPlace
  <2> QED
    BY <2>2, WrittenPlace, SlotsDiffer
<1> QED
  BY <1>1, RingInvHolds, PTL

\* The error flag of the device is up exactly if the host has warned of lost records or
\* will at its next drain, through every refusal, drain and wrap of the counters.
THEOREM OverflowsAreReported == RingSpec => []OverflowIsReported
<1>1. RingInv => OverflowIsReported
  BY DEF RingInv
<1> QED
  BY <1>1, RingInvHolds, PTL

-----------------------------------------------------------------------------
(* The refinement.                                                         *)

Filling(x) == {t \in Threads : writing[t] # NoRecord /\ index[t] = x}

\* The record of index x: the one a thread is about to write, else that of the slot.
RecordAt(x) ==
  IF Filling(x) # {} THEN writing[CHOOSE t \in Filling(x) : TRUE] ELSE slot[SlotOf(x)]

\* The index of place i of the queue.
Place(i) == (head + i - 1) % CounterMod

\* The queue, place by place.
LEMMA PendingIs == Pending = [i \in 1 .. DrainCount |-> RecordAt(Place(i))]
  BY DEF Pending, RecordAt, Filling, Place

\* Places count from 1, distances from 0.
LEMMA PlaceIs ==
  ASSUME RingTypeOK, NEW i \in 1 .. DrainCount
  PROVE  Place(i) = After(head, i - 1) /\ i - 1 \in 0 .. Capacity - 1
<1>1. head \in Nat /\ DrainCount \in 0 .. Capacity /\ Capacity \in Nat
  BY DrainCountType, RingAssumption DEF RingTypeOK, Counter
<1>2. head + i - 1 = head + (i - 1)
  BY <1>1
<1> QED
  BY <1>1, <1>2 DEF Place, After

\* At most one thread writes an index.
LEMMA RecordReserved ==
  ASSUME RingInv, NEW t \in Threads, writing[t] # NoRecord
  PROVE  Filling(index[t]) = {t} /\ RecordAt(index[t]) = writing[t]
<1>1. Filling(index[t]) = {t}
  BY DEF Filling, RingInv, IndexesDiffer
<1> QED
  BY <1>1 DEF RecordAt

\* Places of the window have different indices, and different slots.
LEMMA PlacesDiffer ==
  ASSUME RingTypeOK, NEW d \in 0 .. Capacity - 1, NEW e \in 0 .. Capacity - 1, d # e
  PROVE  /\ After(head, d) # After(head, e)
         /\ SlotOf(After(head, d)) # SlotOf(After(head, e))
  BY SlotsDiffer DEF RingTypeOK

\* Filling a slot changes nothing the queue shows.
LEMMA FillKeepsPending ==
  ASSUME RingInv, RingTypeOK', NEW t \in Threads, Fill(t)
  PROVE  Pending' = Pending
<1> DEFINE place == Distance(index[t], head)
<1>1. /\ head' = head /\ DrainCount' = DrainCount /\ RingTypeOK /\ writing[t] # NoRecord
      /\ slot' = [slot EXCEPT ![SlotOf(index[t])] = writing[t]]
  BY DEF Fill, DrainCount, Distance, RingInv
<1>2. \A u \in Threads : writing'[u] = (IF u = t THEN NoRecord ELSE writing[u])
                          /\ (u # t => index'[u] = index[u])
  BY DEF Fill, RingInv, RingTypeOK
<1>3. /\ head \in Counter /\ place \in 0 .. Capacity - 1 /\ After(head, place) = index[t]
  BY <1>1, WrittenPlace
<1> HIDE DEF place
<1>4. ASSUME NEW i \in 1 .. DrainCount
      PROVE  RecordAt(Place(i))' = RecordAt(Place(i))
  <2> DEFINE x == Place(i)
  <2>1. x = After(head, i - 1) /\ i - 1 \in 0 .. Capacity - 1
    BY <1>1, PlaceIs
  <2>2. Place(i)' = x
    BY <1>1 DEF Place
  <2>3. RecordAt(Place(i))' =
          LET filling == {u \in Threads : writing'[u] # NoRecord /\ index'[u] = x}
          IN  IF filling # {} THEN writing'[CHOOSE u \in filling : TRUE] ELSE slot'[SlotOf(x)]
    BY <2>2 DEF RecordAt, Filling, SlotOf
  <2>4. x \in Counter
    BY <1>3, <2>1, DistanceAfter, RingAssumption
  <2>5. x \in Nat
    BY <2>4, RingAssumption DEF Counter
  <2>6. SlotOf(x) \in Slots
    BY <2>5, RingAssumption, ModRange DEF Slots, SlotOf
  <2> HIDE DEF x
  <2>7. CASE i - 1 = place
    <3>1. x = index[t]
      BY <1>3, <2>1, <2>7
    <3>2. Filling(x) = {t} /\ RecordAt(x) = writing[t]
      BY <1>1, <3>1, RecordReserved
    <3>3. {u \in Threads : writing'[u] # NoRecord /\ index'[u] = x} = {}
      BY <1>2, <3>2 DEF Filling
    <3>4. slot'[SlotOf(x)] = writing[t]
      BY <1>1, <2>6, <3>1 DEF RingTypeOK
    <3> QED
      BY <2>3, <3>2, <3>3, <3>4 DEF x
  <2>8. CASE i - 1 # place
    <3>1. x # index[t] /\ SlotOf(x) # SlotOf(index[t])
      BY <1>1, <1>3, <2>1, <2>8, PlacesDiffer
    <3>2. {u \in Threads : writing'[u] # NoRecord /\ index'[u] = x} = Filling(x)
      BY <1>2, <3>1 DEF Filling
    <3>3. \A u \in Filling(x) : writing'[u] = writing[u]
      BY <1>2, <3>1 DEF Filling
    <3>4. slot'[SlotOf(x)] = slot[SlotOf(x)]
      BY <1>1, <2>6, <3>1 DEF RingTypeOK
    <3> QED
      BY <2>3, <3>2, <3>3, <3>4 DEF RecordAt, x
  <2> QED
    BY <2>7, <2>8
<1>5. Pending' = [i \in 1 .. DrainCount' |-> RecordAt(Place(i))']
  BY DEF Pending, RecordAt, Filling, Place
<1> QED
  BY <1>1, <1>4, <1>5, PendingIs

\* The queue is a sequence as long as the number of records to copy.
LEMMA PendingLength ==
  ASSUME RingTypeOK, NEW S, \A i \in 1 .. DrainCount : Pending[i] \in S
  PROVE  Pending \in Seq(S) /\ Len(Pending) = DrainCount
<1>1. DrainCount \in Nat
  BY DrainCountType, RingAssumption
<1>2. Pending \in [1 .. DrainCount -> S]
  BY PendingIs
<1> QED
  BY <1>1, <1>2, FunctionIsSeq

\* A refused record leaves a full queue as it is.
LEMMA RefusalKeepsPending ==
  ASSUME RingInv, NEW t \in Threads, NEW r \in Records, Reserve(t, r),
         Full(Distance(tail, head))
  PROVE  Pending' = Pending /\ Len(Pending) = Capacity /\ error' = TRUE
<1> DEFINE used == Distance(tail, head)
<1>1. used >= Capacity /\ error' = TRUE /\ UNCHANGED <<index, writing, slot, head>>
  BY DEF Reserve, Full
<1>2. Distance(tail', head') = used + 1 /\ used \in Nat /\ Capacity \in Nat
  BY <1>1, TailMoves, DrainCountIs, RingAssumption DEF RingInv
<1>3. /\ DrainCount = IF used > Capacity THEN Capacity ELSE used
      /\ DrainCount' = IF used + 1 > Capacity THEN Capacity ELSE used + 1
  BY <1>2 DEF DrainCount
<1> HIDE DEF used
<1>4. DrainCount = Capacity /\ DrainCount' = Capacity
  BY <1>1, <1>2, <1>3
<1>5. Pending' = Pending
  BY <1>1, <1>4 DEF Pending, SlotOf
<1>6. Len(Pending) = DrainCount
  <2> DEFINE S == {Pending[i] : i \in 1 .. DrainCount}
  <2>1. \A i \in 1 .. DrainCount : Pending[i] \in S
    OBVIOUS
  <2> HIDE DEF S
  <2> QED
    BY <2>1, PendingLength DEF RingInv
<1> QED
  BY <1>1, <1>4, <1>5, <1>6

\* An accepted record is appended, before it is in its slot.
LEMMA ReservationAppends ==
  ASSUME RingInv, RingInv', NEW t \in Threads, NEW r \in Records, Reserve(t, r),
         ~Full(Distance(tail, head))
  PROVE  Pending' = Append(Pending, r) /\ Len(Pending) < Capacity
<1>0. PICK used \in Nat : used = Distance(tail, head)
  BY DrainCountIs DEF RingInv
<1>1. /\ head' = head /\ slot' = slot /\ writing[t] = NoRecord
      /\ index' = [index EXCEPT ![t] = tail]
      /\ writing' = [writing EXCEPT ![t] = r]
  BY DEF Reserve
<1>2. /\ Distance(tail', head') = used + 1 /\ used \in Nat /\ Capacity \in Nat
      /\ used < Capacity
  BY <1>0, <1>1, TailMoves, RingAssumption DEF RingInv, Full
<1>3. /\ DrainCount = IF used > Capacity THEN Capacity ELSE used
      /\ DrainCount' = IF used + 1 > Capacity THEN Capacity ELSE used + 1
  BY <1>0, <1>2 DEF DrainCount
<1>4. RingTypeOK /\ head \in Counter /\ tail \in Counter
  BY DEF RingInv, RingTypeOK
<1>5. After(head, used) = tail
  BY <1>0, <1>4, AfterDistance
<1>6. DrainCount = used /\ DrainCount' = used + 1
  BY <1>2, <1>3
<1>7. /\ \A u \in Threads \ {t} : writing'[u] = writing[u] /\ index'[u] = index[u]
      /\ writing'[t] = r /\ index'[t] = tail /\ r # NoRecord
  BY <1>1, <1>4, RingAssumption DEF RingTypeOK
<1>8. ASSUME NEW i \in 1 .. used
      PROVE  RecordAt(Place(i))' = RecordAt(Place(i))
  <2> DEFINE x == Place(i)
  <2>1. x = After(head, i - 1) /\ i - 1 \in 0 .. Capacity - 1
    BY <1>4, <1>6, PlaceIs
  <2>2. x # tail
    BY <1>2, <1>4, <1>5, <2>1, PlacesDiffer
  <2>3. Place(i)' = x
    BY <1>1 DEF Place
  <2>4. RecordAt(Place(i))' =
          LET filling == {u \in Threads : writing'[u] # NoRecord /\ index'[u] = x}
          IN  IF filling # {} THEN writing'[CHOOSE u \in filling : TRUE] ELSE slot[SlotOf(x)]
    BY <1>1, <2>3 DEF RecordAt, Filling, SlotOf
  <2> HIDE DEF x
  <2>5. {u \in Threads : writing'[u] # NoRecord /\ index'[u] = x} = Filling(x)
    BY <1>1, <1>7, <2>2 DEF Filling
  <2>6. \A u \in Filling(x) : writing'[u] = writing[u]
    BY <1>1, <1>7 DEF Filling
  <2> QED
    BY <2>4, <2>5, <2>6 DEF RecordAt, x
<1>9. RecordAt(Place(used + 1))' = r
  <2>1. Place(used + 1)' = tail
    <3>1. head + (used + 1) - 1 = head + used
      BY <1>2, <1>4, RingAssumption DEF Counter
    <3> QED
      BY <1>1, <1>5, <3>1 DEF Place, After
  <2>2. {u \in Threads : writing'[u] # NoRecord /\ index'[u] = tail} = {t}
    BY <1>7 DEF RingInv, IndexesDiffer
  <2> QED
    BY <1>7, <2>1, <2>2 DEF RecordAt, Filling
<1>10. Pending' = [i \in 1 .. DrainCount' |-> RecordAt(Place(i))']
  BY DEF Pending, RecordAt, Filling, Place
<1>11. Pending' = [i \in 1 .. used + 1 |-> IF i <= used THEN Pending[i] ELSE r]
  <2>1. \A i \in 1 .. used : RecordAt(Place(i))' = Pending[i]
    BY <1>6, <1>8, PendingIs
  <2>2. \A i \in 1 .. used + 1 : i <= used => i \in 1 .. used
    BY <1>2
  <2>3. \A i \in 1 .. used + 1 : ~(i <= used) => i = used + 1
    BY <1>2
  <2>4. ASSUME NEW i \in 1 .. used + 1
        PROVE  RecordAt(Place(i))' = IF i <= used THEN Pending[i] ELSE r
    <3>1. CASE i <= used
      BY <2>1, <2>2, <3>1
    <3>2. CASE ~(i <= used)
      BY <1>9, <2>3, <3>2
    <3> QED
      BY <3>1, <3>2
  <2> QED
    BY <1>6, <1>10, <2>4
<1>12. Len(Pending) = used /\ Append(Pending, r) =
         [i \in 1 .. used + 1 |-> IF i <= used THEN Pending[i] ELSE r]
  <2> DEFINE S == {Pending[i] : i \in 1 .. DrainCount} \cup {r}
  <2>1. r \in S /\ \A i \in 1 .. DrainCount : Pending[i] \in S
    OBVIOUS
  <2> HIDE DEF S
  <2>2. Pending \in Seq(S) /\ Len(Pending) = used
    BY <1>4, <1>6, <2>1, PendingLength
  <2> QED
    BY <2>1, <2>2, AppendIs
<1> QED
  BY <1>2, <1>11, <1>12

\* The two spans of the staging copy are the queue.
LEMMA DrainTakesPending ==
  ASSUME RingInv, Drain
  PROVE  batch' = Pending /\ Pending' = <<>> /\ error' = error
<1> DEFINE n == DrainCount
           headSlot == SlotOf(head)
           span == IF n < Capacity - headSlot THEN n ELSE Capacity - headSlot
<1>1. RingTypeOK /\ head \in Counter /\ n \in 0 .. Capacity /\ Capacity \in Nat
  BY DrainCountType, RingAssumption DEF RingInv, RingTypeOK
<1>2. headSlot \in 0 .. Capacity - 1
  BY <1>1, RingAssumption, Division DEF Counter, SlotOf
<1>3. \A t \in Threads : writing[t] = NoRecord
  BY DEF Drain, RingInv, ReservedInWindow
<1>4. ASSUME NEW i \in 1 .. n
      PROVE  Pending[i] = slot[IF headSlot + (i - 1) < Capacity THEN headSlot + (i - 1)
                               ELSE headSlot + (i - 1) - Capacity]
  <2>1. Place(i) = After(head, i - 1) /\ i - 1 \in 0 .. Capacity - 1
    BY <1>1, PlaceIs
  <2>2. RecordAt(Place(i)) = slot[SlotOf(Place(i))]
    BY <1>3 DEF RecordAt, Filling
  <2> QED
    BY <1>1, <2>1, <2>2, SlotAfter, PendingIs
<1>5. batch' = [i \in 1 .. span |-> slot[headSlot + i - 1]]
                 \o [i \in 1 .. n - span |-> slot[i - 1]]
  BY DEF Drain, Staged
<1> HIDE DEF n, headSlot
<1>6. span \in Nat /\ n - span \in Nat /\ (n # span => span = Capacity - headSlot)
  BY <1>1, <1>2
<1> HIDE DEF span
<1>7. batch' = [i \in 1 .. n |-> IF i <= span THEN slot[headSlot + i - 1]
                                 ELSE slot[i - span - 1]]
  <2> DEFINE one == [i \in 1 .. span |-> slot[headSlot + i - 1]]
             two == [i \in 1 .. n - span |-> slot[i - 1]]
             all == {one[i] : i \in 1 .. span} \cup {two[i] : i \in 1 .. n - span}
  <2>0. one \in [1 .. span -> all] /\ two \in [1 .. n - span -> all]
    OBVIOUS
  <2>2. \A i \in 1 .. span : one[i] = slot[headSlot + i - 1]
    OBVIOUS
  <2>3. \A i \in 1 .. n - span : two[i] = slot[i - 1]
    OBVIOUS
  <2> HIDE DEF one, two, all
  <2>1. one \in Seq(all) /\ Len(one) = span /\ two \in Seq(all) /\ Len(two) = n - span
    BY <1>6, <2>0, FunctionIsSeq
  <2>4. one \o two = [i \in 1 .. span + (n - span) |-> IF i <= span THEN one[i]
                                                       ELSE two[i - span]]
    <3>1. one \o two = [i \in 1 .. Len(one) + Len(two) |-> IF i <= Len(one) THEN one[i]
                                                           ELSE two[i - Len(one)]]
      BY <2>1, ConcatIs
    <3> QED
      BY <2>1, <3>1
  <2>5. span + (n - span) = n
    BY <1>1, <1>6
  <2>6. batch' = [i \in 1 .. n |-> IF i <= span THEN one[i] ELSE two[i - span]]
    BY <1>5, <2>4, <2>5 DEF one, two
  <2>7. ASSUME NEW i \in 1 .. n
        PROVE  (IF i <= span THEN one[i] ELSE two[i - span])
               = (IF i <= span THEN slot[headSlot + i - 1] ELSE slot[i - span - 1])
    BY <1>1, <1>6, <2>2, <2>3
  <2> QED
    BY <2>6, <2>7
<1>8. ASSUME NEW i \in 1 .. n
      PROVE  Pending[i] = (IF i <= span THEN slot[headSlot + i - 1] ELSE slot[i - span - 1])
  <2>1. CASE i <= span
    <3>1. headSlot + (i - 1) < Capacity /\ headSlot + (i - 1) = headSlot + i - 1
      BY <1>1, <1>2, <1>6, <2>1 DEF span
    <3> QED
      BY <1>4, <2>1, <3>1
  <2>2. CASE ~(i <= span)
    <3>1. /\ ~(headSlot + (i - 1) < Capacity)
          /\ headSlot + (i - 1) - Capacity = i - span - 1
      BY <1>1, <1>2, <1>6, <2>2
    <3> QED
      BY <1>4, <2>2, <3>1
  <2> QED
    BY <2>1, <2>2
<1>9. Pending = [i \in 1 .. n |-> Pending[i]]
  BY PendingIs DEF n
<1>10. batch' = Pending
  BY <1>7, <1>8, <1>9
<1>11. Pending' = <<>>
  <2>1. head' = tail /\ tail' = tail /\ tail \in Counter
    BY <1>1 DEF Drain, RingTypeOK
  <2>2. Distance(tail', head') = 0
    BY <2>1, DistanceIs, RingAssumption DEF Counter
  <2>3. DrainCount' = 0
    BY <1>1, <2>2 DEF DrainCount
  <2> QED
    BY <2>3 DEF Pending
<1> QED
  BY <1>10, <1>11 DEF Drain

\* The ring is a bounded FIFO, for every capacity, counter width and set of threads:
\* whatever is accepted is drained once, in the order of the indices, across the wrap of
\* the counters and whichever thread fills its slot last.
THEOREM RingImplementsFifo == RingSpec => RingIsFifo
<1>1. RingInit => Fifo!FifoInit
  <2> SUFFICES ASSUME RingInit PROVE Fifo!FifoInit
    OBVIOUS
  <2>1. 0 \in Counter
    BY RingAssumption DEF Counter
  <2>2. Distance(tail, head) = 0
    BY <2>1, DistanceIs DEF RingInit
  <2>3. DrainCount = 0
    BY <2>2, RingAssumption DEF DrainCount
  <2> QED
    BY <2>3 DEF Fifo!FifoInit, RingInit, Pending
<1>2. RingInv /\ RingInv' /\ [RingNext]_ringVars => [Fifo!FifoNext]_(Fifo!fifoVars)
  <2> SUFFICES ASSUME RingInv, RingInv', [RingNext]_ringVars
               PROVE  Fifo!FifoNext \/ UNCHANGED <<Pending, batch, error>>
    BY DEF Fifo!fifoVars
  <2>1. CASE Launch
    BY <2>1 DEF Launch, Pending, DrainCount, Distance, SlotOf
  <2>2. CASE Complete
    BY <2>2 DEF Complete, Pending, DrainCount, Distance, SlotOf
  <2>3. CASE Drain
    BY <2>3, DrainTakesPending DEF Fifo!FifoNext, Fifo!FifoDrain
  <2>4. ASSUME NEW t \in Threads, Fill(t)
        PROVE  UNCHANGED <<Pending, batch, error>>
    BY <2>4, FillKeepsPending DEF Fill, RingInv
  <2>5. ASSUME NEW t \in Threads, NEW r \in Records, Reserve(t, r)
        PROVE  Fifo!FifoNext
    <3>1. CASE Full(Distance(tail, head))
      <4>1. batch' = batch
        BY <2>5 DEF Reserve
      <4> QED
        BY <2>5, <3>1, <4>1, RefusalKeepsPending DEF Fifo!FifoNext, Fifo!FifoRefuse
    <3>2. CASE ~Full(Distance(tail, head))
      <4>1. batch' = batch /\ error' = error
        BY <2>5, <3>2 DEF Reserve
      <4>2. Fifo!FifoPublish(r)
        BY <2>5, <3>2, <4>1, ReservationAppends DEF Fifo!FifoPublish
      <4> QED
        BY <4>2 DEF Fifo!FifoNext
    <3> QED
      BY <3>1, <3>2
  <2>6. CASE UNCHANGED ringVars
    BY <2>6 DEF ringVars, Pending, DrainCount, Distance, SlotOf
  <2> QED
    BY <2>1, <2>2, <2>3, <2>4, <2>5, <2>6 DEF RingNext
<1> QED
  BY <1>1, <1>2, RingInvHolds, PTL DEF RingSpec, RingIsFifo, Fifo!FifoSpec

=============================================================================
