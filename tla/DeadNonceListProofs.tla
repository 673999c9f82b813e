------------------------ MODULE DeadNonceListProofs ------------------------
(***************************************************************************)
(* Proofs about DeadNonceList for every set of entries and every capacity  *)
(* that satisfies the assertions of the destructor.                        *)
(***************************************************************************)
EXTENDS DeadNonceList, SequenceTheorems, FiniteSetTheorems, TLAPS

\* The number of MARKs in a queue is a natural number.
LEMMA CountMarksType ==
  ASSUME NEW q \in Seq(Entry \union {MARK})
  PROVE  countMarks(q) \in Nat
<1>1. IsFiniteSet(DOMAIN q)
  BY FS_Interval, LenProperties
<1>2. {i \in DOMAIN q : q[i] = MARK} \in SUBSET DOMAIN q
  OBVIOUS
<1>3. IsFiniteSet({i \in DOMAIN q : q[i] = MARK})
  BY <1>1, <1>2, FS_Subset
<1> QED
  BY <1>3, FS_CardinalityType DEF countMarks

\* evictEntries returns a suffix of the queue; a shorter one has at least the
\* capacity, and it is EVICT_LIMIT shorter unless it has the capacity.
LEMMA EvictEntriesResult ==
  ASSUME NEW S, NEW q \in Seq(S), NEW c \in Nat
  PROVE  /\ evictEntries(q, c) \in Seq(S)
         /\ Len(evictEntries(q, c)) <= Len(q)
         /\ \/ Len(evictEntries(q, c)) <= c
            \/ Len(evictEntries(q, c)) <= Len(q) - EVICT_LIMIT
         /\ \E dropped \in 0..Len(q) :
              /\ evictEntries(q, c) = SubSeq(q, dropped + 1, Len(q))
              /\ dropped > 0 => Len(evictEntries(q, c)) >= c
<1> DEFINE over == Len(q) - c
           nEvict == IF over < EVICT_LIMIT THEN over ELSE EVICT_LIMIT
<1>1. Len(q) \in Nat /\ EVICT_LIMIT \in Nat
  BY CapacityAssumption
<1>2. CASE over <= 0
  <2>1. evictEntries(q, c) = q
    BY <1>2 DEF evictEntries
  <2>2. q = SubSeq(q, 1, Len(q))
    BY SubSeqFull
  <2>3. 0 \in 0..Len(q) /\ q = SubSeq(q, 0 + 1, Len(q))
    BY <2>2, <1>1
  <2> QED
    BY <2>1, <2>3, <1>1, <1>2
<1>3. CASE over > 0
  <2>1. evictEntries(q, c) = SubSeq(q, nEvict + 1, Len(q))
    <3>1. ~(over <= 0)
      BY <1>1, <1>3
    <3> QED
      BY <3>1, Zenon DEF evictEntries
  <2>2. nEvict \in 0..Len(q) /\ nEvict <= over
    BY <1>1, <1>3
  <2>3. /\ SubSeq(q, nEvict + 1, Len(q)) \in Seq(S)
        /\ Len(SubSeq(q, nEvict + 1, Len(q))) = Len(q) - nEvict
    <3>1. \A i \in nEvict + 1 .. Len(q) : q[i] \in S
      BY <2>2, ElementOfSeq, <1>1
    <3>2. nEvict + 1 \in Int /\ Len(q) \in Int
      BY <2>2, <1>1
    <3> HIDE DEF nEvict
    <3>3. Len(SubSeq(q, nEvict + 1, Len(q))) =
            IF nEvict + 1 <= Len(q) THEN Len(q) - (nEvict + 1) + 1 ELSE 0
      BY <3>1, <3>2, SubSeqProperties
    <3>4. SubSeq(q, nEvict + 1, Len(q)) \in Seq(S)
      BY <3>1, <3>2, SubSeqProperties
    <3> QED
      BY <3>3, <3>4, <2>2, <1>1
  <2>4. nEvict = over \/ nEvict = EVICT_LIMIT
    OBVIOUS
  <2> HIDE DEF nEvict
  <2> QED
    BY <2>1, <2>2, <2>3, <2>4, <1>1
<1> QED
  BY <1>1, <1>2, <1>3

\* Both adjustments keep the capacity between its hard limits.
LEMMA AdjustedType ==
  ASSUME NEW c \in MIN_CAPACITY..MAX_CAPACITY, NEW marks
  PROVE  Adjusted(c, marks) \in MIN_CAPACITY..MAX_CAPACITY
<1>1. CapacityDown(c) \in MIN_CAPACITY..MAX_CAPACITY
  BY CapacityAssumption DEF CapacityDown
<1>2. CapacityUp(c) \in MIN_CAPACITY..MAX_CAPACITY
  BY CapacityAssumption DEF CapacityUp
<1> QED
  BY <1>1, <1>2 DEF Adjusted

\* Memory and types are bounded together: the bound on the queue after an
\* adjustment needs the bound on the marks since the previous one.
Inv == TypeOK /\ BoundedMemory

\* The list starts with EXPECTED_MARK_COUNT MARKs, within its initial capacity.
LEMMA InitInv == Init => Inv
<1> SUFFICES ASSUME Init PROVE Inv
  OBVIOUS
<1>1. /\ queue \in Seq(Entry \union {MARK})
      /\ Len(queue) = EXPECTED_MARK_COUNT
  BY CapacityAssumption, IsASeq, LenProperties DEF Init
<1> QED
  BY <1>1, CapacityAssumption DEF Init, Inv, TypeOK, BoundedMemory

\* Every operation keeps the types and the bound.
LEMMA NextInv == Inv /\ [Next]_vars => Inv'
<1> SUFFICES ASSUME Inv, [Next]_vars PROVE Inv'
  OBVIOUS
<1> USE CapacityAssumption DEF Inv, TypeOK, BoundedMemory
<1>1. ASSUME NEW e \in Entry, add(e) PROVE Inv'
  <2>1. /\ Append(queue, e) \in Seq(Entry \union {MARK})
        /\ Len(Append(queue, e)) = Len(queue) + 1
    BY AppendProperties
  <2>2. capacity \in Nat /\ capacity <= MAX_CAPACITY
    OBVIOUS
  <2>3. /\ queue' \in Seq(Entry \union {MARK})
        /\ \/ Len(queue') <= capacity
           \/ Len(queue') <= Len(Append(queue, e)) - EVICT_LIMIT
    <3>1. queue' = evictEntries(Append(queue, e), capacity)
      BY <1>1 DEF add
    <3> QED
      BY ONLY <3>1, <2>1, <2>2, EvictEntriesResult, Zenon
  <2> QED
    BY <1>1, <2>1, <2>2, <2>3 DEF add
<1>2. CASE mark
  <2>1. /\ Append(queue, MARK) \in Seq(Entry \union {MARK})
        /\ Len(Append(queue, MARK)) = Len(queue) + 1
    BY AppendProperties
  <2>2. countMarks(Append(queue, MARK)) \in Nat
    BY <2>1, CountMarksType
  <2> QED
    <3>1. queue' \in Seq(Entry \union {MARK}) /\ Len(queue') = Len(queue) + 1
      BY <1>2, <2>1 DEF mark
    <3>2. counts' \subseteq Nat
      BY <1>2, <2>2 DEF mark
    <3>3. phase' = phase + 1 /\ phase <= EXPECTED_MARK_COUNT /\ capacity' = capacity
      BY <1>2 DEF mark
    <3> QED
      BY <3>1, <3>2, <3>3
<1>3. CASE adjustCapacity
  <2>1. capacity' \in MIN_CAPACITY..MAX_CAPACITY
    BY <1>3, AdjustedType DEF adjustCapacity
  <2>2. capacity' \in Nat /\ queue' = evictEntries(queue, capacity')
    BY <1>3, <2>1 DEF adjustCapacity
  <2>3. /\ queue' \in Seq(Entry \union {MARK})
        /\ Len(queue') <= capacity' \/ Len(queue') <= Len(queue) - EVICT_LIMIT
    BY ONLY <2>2, queue \in Seq(Entry \union {MARK}), EvictEntriesResult, Zenon
  <2> QED
    BY <1>3, <2>1, <2>3 DEF adjustCapacity
<1>4. CASE UNCHANGED vars
  BY <1>4 DEF vars
<1> QED
  BY <1>1, <1>2, <1>3, <1>4 DEF Next

\* Type correctness of the list: above all, the capacity stays between
\* MIN_CAPACITY and MAX_CAPACITY.
THEOREM TypeCorrect == Spec => []TypeOK
<1>1. Inv => TypeOK
  BY DEF Inv
<1> QED
  BY <1>1, InitInv, NextInv, PTL DEF Spec

\* Memory is bounded for every load, whatever the interleaving of add(),
\* mark() and adjustCapacity().
THEOREM MemoryBounded == Spec => []BoundedMemory
<1>1. Inv => BoundedMemory
  BY DEF Inv
<1> QED
  BY <1>1, InitInv, NextInv, PTL DEF Spec

\* A sequence whose elements continue q after its first d elements starts
\* with that suffix of q.
LEMMA SuffixIsPrefix ==
  ASSUME NEW S, NEW q \in Seq(S), NEW r \in Seq(S), NEW d \in 0..Len(q),
         Len(r) >= Len(q) - d,
         \A i \in 1..(Len(q) - d) : r[i] = q[d + i]
  PROVE  IsPrefix(SubSeq(q, d + 1, Len(q)), r)
<1> DEFINE s == SubSeq(q, d + 1, Len(q))
           t == SubSeq(r, 1, Len(q) - d)
<1>1. /\ Len(q) \in Nat /\ Len(r) \in Nat
      /\ d + 1 \in Int /\ Len(q) - d \in Nat
  OBVIOUS
<1>2. /\ s \in Seq(S)
      /\ Len(s) = Len(q) - d
      /\ \A i \in 1..(Len(q) - d) : s[i] = q[d + i]
  <2>1. \A i \in d + 1 .. Len(q) : q[i] \in S
    BY <1>1, ElementOfSeq
  <2>2. /\ s \in Seq(S)
        /\ Len(s) = IF d + 1 <= Len(q) THEN Len(q) - (d + 1) + 1 ELSE 0
        /\ \A i \in 1 .. Len(q) - (d + 1) + 1 : s[i] = q[(d + 1) + i - 1]
    BY <1>1, <2>1, SubSeqProperties
  <2> HIDE DEF s
  <2> QED
    BY <1>1, <2>2
<1>3. /\ t \in Seq(S)
      /\ Len(t) = Len(q) - d
      /\ \A i \in 1..(Len(q) - d) : t[i] = r[i]
  <2>1. \A i \in 1 .. (Len(q) - d) : r[i] \in S
    BY <1>1, ElementOfSeq
  <2>2. /\ t \in Seq(S)
        /\ Len(t) = IF 1 <= Len(q) - d THEN Len(q) - d - 1 + 1 ELSE 0
        /\ \A i \in 1 .. Len(q) - d - 1 + 1 : t[i] = r[1 + i - 1]
    BY <1>1, <2>1, SubSeqProperties
  <2> HIDE DEF t
  <2> QED
    BY <1>1, <2>2
<1> HIDE DEF s, t
<1>4. s = t
  BY <1>1, <1>2, <1>3, SeqEqual
<1>5. SubSeq(s, 1, Len(s)) = s
  BY <1>2, SubSeqFull
<1> QED
  BY <1>1, <1>2, <1>4, <1>5 DEF IsPrefix, s, t

\* Eviction is FIFO and never digs below the capacity, for every load.
THEOREM RecentSurvive == Spec => RecentNoncesSurvive
<1> DEFINE Step == \E dropped \in 0..Len(queue) :
                     /\ IsPrefix(SubSeq(queue, dropped + 1, Len(queue)), queue')
                     /\ dropped > 0 => Len(queue') >= capacity'
<1>1. ASSUME Inv, Inv', [Next]_vars PROVE [Step]_vars
  <2>0. /\ queue \in Seq(Entry \union {MARK}) /\ Len(queue) \in Nat
        /\ queue' \in Seq(Entry \union {MARK}) /\ Len(queue') \in Nat
        /\ capacity \in Nat /\ capacity' \in Nat
        /\ capacity > 0 /\ capacity' > 0
    BY <1>1, CapacityAssumption DEF Inv, TypeOK
  <2>1. ASSUME NEW e \in Entry, add(e) PROVE Step
    <3> DEFINE q == Append(queue, e)
    <3>1. /\ q \in Seq(Entry \union {MARK})
          /\ Len(q) = Len(queue) + 1
          /\ \A i \in 1..Len(queue) : q[i] = queue[i]
      BY <2>0, AppendProperties
    <3>2. queue' = evictEntries(q, capacity) /\ capacity' = capacity
      BY <2>1 DEF add
    <3> HIDE DEF q
    <3>3. PICK d \in 0..Len(q) : /\ queue' = SubSeq(q, d + 1, Len(q))
                                 /\ d > 0 => Len(queue') >= capacity
      BY ONLY <3>1, <3>2, <2>0, EvictEntriesResult, Zenon
    <3>4. \A i \in d + 1 .. Len(q) : q[i] \in Entry \union {MARK}
      BY <3>1, <2>0, ElementOfSeq
    <3>5. /\ Len(queue') = IF d + 1 <= Len(q) THEN Len(q) - (d + 1) + 1 ELSE 0
          /\ \A i \in 1 .. Len(q) - (d + 1) + 1 : queue'[i] = q[(d + 1) + i - 1]
      <4>1. d + 1 \in Int /\ Len(q) \in Int
        BY <3>1, <2>0
      <4> QED
        BY ONLY <4>1, <3>3, <3>4, SubSeqProperties
    <3>6. /\ d \in 0..Len(queue)
          /\ Len(queue') >= Len(queue) - d
          /\ \A i \in 1..(Len(queue) - d) : queue'[i] = queue[d + i]
      BY <2>0, <3>1, <3>3, <3>5
    <3>7. IsPrefix(SubSeq(queue, d + 1, Len(queue)), queue')
      BY ONLY <3>6, <2>0, SuffixIsPrefix
    <3> QED
      BY <3>2, <3>3, <3>6, <3>7
  <2>2. CASE mark
    <3>1. /\ Len(queue') = Len(queue) + 1
          /\ \A i \in 1..Len(queue) : queue'[i] = queue[i]
      BY <2>0, <2>2, AppendProperties DEF mark
    <3>2. /\ 0 \in 0..Len(queue)
          /\ Len(queue') >= Len(queue) - 0
          /\ \A i \in 1..(Len(queue) - 0) : queue'[i] = queue[0 + i]
      BY <3>1, <2>0
    <3>3. IsPrefix(SubSeq(queue, 0 + 1, Len(queue)), queue')
      BY ONLY <3>2, <2>0, SuffixIsPrefix
    <3> QED
      BY <3>2, <3>3
  <2>3. CASE adjustCapacity
    <3>1. queue' = evictEntries(queue, capacity')
      BY <2>3 DEF adjustCapacity
    <3>2. PICK d \in 0..Len(queue) : /\ queue' = SubSeq(queue, d + 1, Len(queue))
                                     /\ d > 0 => Len(queue') >= capacity'
      BY ONLY <3>1, <2>0, EvictEntriesResult, Zenon
    <3>3. SubSeq(queue', 1, Len(queue')) = queue'
      BY <2>0, SubSeqFull
    <3>4. IsPrefix(SubSeq(queue, d + 1, Len(queue)), queue')
      BY <3>2, <3>3, <2>0 DEF IsPrefix
    <3> QED
      BY <3>2, <3>4
  <2> QED
    BY <1>1, <2>1, <2>2, <2>3 DEF Next
<1>2. Inv /\ Inv' /\ [Next]_vars => [Step]_vars
  BY <1>1
<1> QED
  BY <1>2, InitInv, NextInv, PTL DEF Spec, RecentNoncesSurvive
=============================================================================
