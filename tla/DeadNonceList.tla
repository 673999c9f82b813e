--------------------------- MODULE DeadNonceList ---------------------------
(***************************************************************************)
(* The Dead Nonce List of an NFD forwarder                                 *)
(* (NFD/daemon/table/dead-nonce-list.{hpp,cpp}): a FIFO of name+nonce      *)
(* hashes without timestamps.  A MARK is appended at fixed intervals; the  *)
(* number of MARKs found in the queue measures how long an entry survives, *)
(* and the capacity is adjusted up or down so that about                   *)
(* EXPECTED_MARK_COUNT of them are kept.                                   *)
(*                                                                         *)
(* Time is represented by the order of the periodic events: `phase' counts *)
(* the marks since the last capacity adjustment.  The adjustment interval  *)
(* is EXPECTED_MARK_COUNT mark intervals (the latter rounded down), so the *)
(* adjustment comes after EXPECTED_MARK_COUNT marks, give or take one.     *)
(***************************************************************************)
EXTENDS Integers, Sequences, SequencesExt

CONSTANTS
  Entry,                 \* hashes of a name and a nonce
  MARK,                  \* the special entry
  INITIAL_CAPACITY, MIN_CAPACITY, MAX_CAPACITY,
  EXPECTED_MARK_COUNT,
  EVICT_LIMIT            \* entries evicted at most by one operation

ASSUME EntryAssumption == MARK \notin Entry

\* The assertions of the destructor, and two relations the chosen constants
\* have: the initial MARKs fit, and one eviction makes room for all the MARKs
\* appended between two adjustments.
ASSUME CapacityAssumption ==
  /\ MIN_CAPACITY \in Nat /\ MAX_CAPACITY \in Nat
  /\ INITIAL_CAPACITY \in MIN_CAPACITY..MAX_CAPACITY
  /\ (MIN_CAPACITY * 6) \div 5 > MIN_CAPACITY
  /\ (MAX_CAPACITY * 9) \div 10 < MAX_CAPACITY
  /\ EXPECTED_MARK_COUNT \in Nat \ {0}
  /\ MIN_CAPACITY > EXPECTED_MARK_COUNT
  /\ EVICT_LIMIT \in Nat /\ EVICT_LIMIT > EXPECTED_MARK_COUNT

VARIABLES
  queue,      \* m_queue
  capacity,   \* m_capacity
  counts,     \* m_actualMarkCounts (only which counts occur matters)
  phase       \* marks since the last adjustCapacity

vars == <<queue, capacity, counts, phase>>

----------------------------------------------------------------------------

has(e) == e \in Range(queue)

countMarks(q) == Cardinality({i \in DOMAIN q : q[i] = MARK})

\* Mutant of evictEntries: always evicts EVICT_LIMIT entries.
evictEntriesBlindly(q, c) ==
  IF Len(q) <= c THEN q ELSE SubSeq(q, EVICT_LIMIT + 1, Len(q))

\* The queue after evictEntries, for a queue q and a capacity c.
evictEntries(q, c) ==
  LET over == Len(q) - c
      nEvict == IF over < EVICT_LIMIT THEN over ELSE EVICT_LIMIT
  IN  IF over <= 0 THEN q ELSE SubSeq(q, nEvict + 1, Len(q))

\* Mutant of CapacityUp: without std::min.
CapacityUpUncapped(c) == (c * 6) \div 5

\* CAPACITY_UP = 1.2 and CAPACITY_DOWN = 0.9, truncated to an integer.
CapacityUp(c) == LET u == (c * 6) \div 5
                 IN  IF u < MAX_CAPACITY THEN u ELSE MAX_CAPACITY
CapacityDown(c) == LET d == (c * 9) \div 10
                   IN  IF d > MIN_CAPACITY THEN d ELSE MIN_CAPACITY

\* Mutants of Adjusted: the wrong end of equal_range in the first test, which
\* also lowers the capacity when the count is as expected; and no step up.
AdjustedFromLowerBound(c, marks) ==
  CASE \A n \in marks : n >= EXPECTED_MARK_COUNT -> CapacityDown(c)
    [] marks # {} /\ \A n \in marks : n < EXPECTED_MARK_COUNT -> CapacityUp(c)
    [] OTHER -> c
AdjustedNeverUp(c, marks) ==
  IF \A n \in marks : n > EXPECTED_MARK_COUNT THEN CapacityDown(c) ELSE c

\* The capacity adjustCapacity computes from the mark counts.
Adjusted(c, marks) ==
  CASE \A n \in marks : n > EXPECTED_MARK_COUNT -> CapacityDown(c)
    [] marks # {} /\ \A n \in marks : n < EXPECTED_MARK_COUNT -> CapacityUp(c)
    [] OTHER -> c

Init ==
  /\ queue = [i \in 1..EXPECTED_MARK_COUNT |-> MARK]
  /\ capacity = INITIAL_CAPACITY
  /\ counts = {}
  /\ phase = 0

add(e) ==
  /\ queue' = evictEntries(Append(queue, e), capacity)
  /\ UNCHANGED <<capacity, counts, phase>>

mark ==
  /\ phase <= EXPECTED_MARK_COUNT
  /\ queue' = Append(queue, MARK)
  /\ counts' = counts \union {countMarks(Append(queue, MARK))}
  /\ phase' = phase + 1
  /\ UNCHANGED capacity

\* Mutant of adjustCapacity: without the trailing evictEntries().
adjustCapacityKeepingAll ==
  /\ phase >= EXPECTED_MARK_COUNT - 1
  /\ capacity' = Adjusted(capacity, counts)
  /\ counts' = {}
  /\ phase' = 0
  /\ UNCHANGED queue

adjustCapacity ==
  /\ phase >= EXPECTED_MARK_COUNT - 1
  /\ capacity' = Adjusted(capacity, counts)
  /\ counts' = {}
  /\ queue' = evictEntries(queue, Adjusted(capacity, counts))
  /\ phase' = 0

Next == (\E e \in Entry : add(e)) \/ mark \/ adjustCapacity

Spec == Init /\ [][Next]_vars

----------------------------------------------------------------------------

TypeOK ==
  /\ queue \in Seq(Entry \union {MARK})
  /\ capacity \in MIN_CAPACITY..MAX_CAPACITY
  /\ counts \subseteq Nat
  /\ phase \in 0..(EXPECTED_MARK_COUNT + 1)

\* "The index size is maintained to be near this capacity"
\* (dead-nonce-list.hpp:141): whatever the order of additions, marks and
\* adjustments, memory use never exceeds the maximum capacity by more than
\* the marks appended since the last adjustment, although one operation
\* evicts only EVICT_LIMIT entries and mark() evicts none.
BoundedMemory == Len(queue) <= MAX_CAPACITY + phase

\* Eviction is first-in first-out and stops at the capacity: a step keeps the
\* queue as a whole up to a dropped prefix and an appended suffix, and drops
\* something only if at least the new capacity (so at least MIN_CAPACITY)
\* entries remain (BOOST_ASSERT in evictEntries).  A nonce that just died is
\* therefore detected until MIN_CAPACITY younger entries came in.
RecentNoncesSurvive ==
  [][\E dropped \in 0..Len(queue) :
        /\ IsPrefix(SubSeq(queue, dropped + 1, Len(queue)), queue')
        /\ dropped > 0 => Len(queue') >= capacity']_vars
=============================================================================
