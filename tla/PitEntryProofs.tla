--------------------------- MODULE PitEntryProofs ---------------------------
(***************************************************************************)
(* Lemmas about the operations on a PIT entry: what each returns is an     *)
(* entry, and what it does to the timers.                                  *)
(***************************************************************************)
EXTENDS Strategies, WellFoundedInduction, TLAPS

\* LastLifetime is the longest lifetime.
LEMMA LastLifetimeType ==
  LastLifetime \in Nat /\ LastLifetime \in Lifetime /\ \A l \in Lifetime : l <= LastLifetime
<1>1. PICK max \in Lifetime : \A l \in Lifetime : l <= max
  BY TimeAssumption
<1>2. \A l \in Lifetime : max >= l
  BY <1>1, TimeAssumption
<1>3. LastLifetime \in Lifetime /\ \A l \in Lifetime : LastLifetime >= l
  BY <1>1, <1>2, Zenon DEF LastLifetime, Max
<1> QED
  BY <1>3, TimeAssumption

\* A nonempty set of times has a maximum.
LEMMA MaxOfTimes ==
  ASSUME NEW n \in Nat, NEW S \in SUBSET (-1..n), S # {}
  PROVE  Max(S) \in S /\ \A x \in S : x <= Max(S)
<1> DEFINE R == OpToRel(<, Nat)
           T == {n - x : x \in S}
<1>1. T \subseteq Nat /\ T # {}
  <2>1. \A x \in S : n - x \in Nat
    OBVIOUS
  <2> QED
    BY <2>1
<1>2. \E t \in T : \A y \in T : <<y, t>> \notin R
  <2>1. IsWellFoundedOn(R, Nat)
    BY NatLessThanWellFounded
  <2> HIDE DEF R, T
  <2> QED
    BY <2>1, <1>1, WFMin, Zenon
<1>3. PICK t \in T : \A y \in T : <<y, t>> \notin R
  BY <1>2
<1>4. \A y \in T : t <= y
  <2> SUFFICES ASSUME NEW y \in T, ~(t <= y)
               PROVE  FALSE
    OBVIOUS
  <2>1. y \in Nat /\ t \in Nat /\ y < t
    BY <1>1
  <2>2. <<y, t>> \in R
    BY <2>1 DEF OpToRel
  <2> QED
    BY <2>2, <1>3
<1>5. PICK m \in S : t = n - m
  OBVIOUS
<1>6. \A x \in S : m >= x
  <2> SUFFICES ASSUME NEW x \in S
               PROVE  m >= x
    OBVIOUS
  <2>1. n - m <= n - x
    BY <1>4, <1>5
  <2>2. m \in Int /\ x \in Int /\ n \in Int
    OBVIOUS
  <2> HIDE DEF T
  <2> QED
    BY ONLY <2>1, <2>2
<1>7. Max(S) \in S /\ \A x \in S : Max(S) >= x
  BY <1>6, Zenon DEF Max
<1> QED
  BY <1>7

----------------------------------------------------------------------------
(* Entries                                                                 *)

\* The empty collection is a record collection.
LEMMA NoRecordsType == IsRecordCollection(NoRecords) /\ DOMAIN NoRecords = {}
<1>1. NoRecords \in [{} -> FaceRecord]
  BY DEF NoRecords
<1> QED
  BY <1>1 DEF IsRecordCollection, NoRecords

\* A new entry is an entry.
LEMMA NewEntryType == IsEntry(newEntry) /\ TimersCoverEntry(newEntry)
  BY NoRecordsType, TimeAssumption, LastLifetimeType
  DEF newEntry, IsEntry, TimersCoverEntry, NoTimer, NoPeriod, hasUnexpiredOutRecords

\* update writes a record that expires after the Interest's lifetime.
LEMMA UpdateType ==
  ASSUME NEW n \in Nonce, NEW l \in Lifetime
  PROVE  update(n, l) \in FaceRecord
<1>1. l \in -1..LastLifetime /\ 0 \in 0..AgeCap
  BY LastLifetimeType, TimeAssumption, AgeAssumption
<1> QED
  BY <1>1 DEF update, FaceRecord, Expired

\* Put keeps a record collection one.
LEMMA PutType ==
  ASSUME NEW recs, IsRecordCollection(recs), NEW f \in Face, NEW r \in FaceRecord
  PROVE  /\ IsRecordCollection(Put(recs, f, r))
         /\ DOMAIN Put(recs, f, r) = DOMAIN recs \union {f}
<1>1. PICK F \in SUBSET Face : recs \in [F -> FaceRecord]
  BY DEF IsRecordCollection
<1>2. Put(recs, f, r) \in [F \union {f} -> FaceRecord]
  BY <1>1 DEF Put
<1> QED
  BY <1>1, <1>2 DEF IsRecordCollection, Put

\* Drop keeps a record collection one.
LEMMA DropType ==
  ASSUME NEW recs, IsRecordCollection(recs), NEW f
  PROVE  IsRecordCollection(Drop(recs, f))
<1>1. PICK F \in SUBSET Face : recs \in [F -> FaceRecord]
  BY DEF IsRecordCollection
<1>2. Drop(recs, f) \in [F \ {f} -> FaceRecord]
  BY <1>1 DEF Drop
<1> QED
  BY <1>1, <1>2 DEF IsRecordCollection

\* What the fields of the records of a collection are.
LEMMA CollectionFields ==
  ASSUME NEW recs, IsRecordCollection(recs)
  PROVE  /\ DOMAIN recs \subseteq Face
         /\ \A f \in DOMAIN recs :
              /\ recs[f] \in FaceRecord
              /\ recs[f].nonce \in Nonce /\ recs[f].life \in Lifetime
              /\ recs[f].left \in -1..LastLifetime
              /\ recs[f].age \in 0..AgeCap
<1>1. PICK F \in SUBSET Face : recs \in [F -> FaceRecord]
  BY DEF IsRecordCollection
<1>2. \A f \in DOMAIN recs : recs[f] \in FaceRecord
  BY <1>1
<1> QED
  BY <1>1, <1>2 DEF FaceRecord, Expired

\* The record fields of an entry, and what it takes to be one.
LEMMA EntryIntro ==
  ASSUME NEW in, NEW out, IsRecordCollection(in), IsRecordCollection(out),
         NEW unsatisfy \in -1..LastLifetime, NEW straggler \in -1..StragglerTime,
         NEW satisfied \in BOOLEAN, NEW period \in Int,
         NEW interval \in InitialInterval..MaxInterval
  PROVE  IsEntry([in |-> in, out |-> out, unsatisfy |-> unsatisfy,
                  straggler |-> straggler, satisfied |-> satisfied,
                  period |-> period, interval |-> interval])
  BY DEF IsEntry, NoTimer

\* An update of an entry only touches the field it names.
LEMMA EntryShape ==
  ASSUME NEW e, IsEntry(e), NEW x
  PROVE  /\ [e EXCEPT !.in = x] =
              [in |-> x, out |-> e.out, unsatisfy |-> e.unsatisfy,
               straggler |-> e.straggler, satisfied |-> e.satisfied,
               period |-> e.period, interval |-> e.interval]
         /\ [e EXCEPT !.out = x] =
              [in |-> e.in, out |-> x, unsatisfy |-> e.unsatisfy,
               straggler |-> e.straggler, satisfied |-> e.satisfied,
               period |-> e.period, interval |-> e.interval]
         /\ [e EXCEPT !.unsatisfy = x] =
              [in |-> e.in, out |-> e.out, unsatisfy |-> x,
               straggler |-> e.straggler, satisfied |-> e.satisfied,
               period |-> e.period, interval |-> e.interval]
         /\ [e EXCEPT !.interval = x] =
              [in |-> e.in, out |-> e.out, unsatisfy |-> e.unsatisfy,
               straggler |-> e.straggler, satisfied |-> e.satisfied,
               period |-> e.period, interval |-> x]
<1>1. e = [in |-> e.in, out |-> e.out, unsatisfy |-> e.unsatisfy,
           straggler |-> e.straggler, satisfied |-> e.satisfied,
           period |-> e.period, interval |-> e.interval]
  BY DEF IsEntry
<1> QED
  BY <1>1

\* cancelUnsatisfyAndStragglerTimer leaves the records alone.
LEMMA CancelTimersType ==
  ASSUME NEW e, IsEntry(e)
  PROVE  /\ IsEntry(cancelTimers(e))
         /\ cancelTimers(e).in = e.in /\ cancelTimers(e).out = e.out
         /\ cancelTimers(e).unsatisfy = NoTimer /\ cancelTimers(e).straggler = NoTimer
<1>1. NoTimer \in -1..LastLifetime /\ NoTimer \in -1..StragglerTime /\ NoPeriod \in Int
  BY LastLifetimeType, TimeAssumption DEF NoTimer, NoPeriod
<1> QED
  BY <1>1 DEF IsEntry, cancelTimers, NoTimer

\* The entry that onContentStoreMiss hands to the strategy: the Interest is in
\* its in-records and the unsatisfy timer is due with the last of them.
LEMMA PendingEntry ==
  ASSUME NEW e, IsEntry(e), NEW f \in Face, NEW n \in Nonce, NEW l \in Lifetime,
         NEW p, p = setUnsatisfyTimer(insertOrUpdateInRecord(e, f, n, l))
  PROVE  /\ IsEntry(p)
         /\ DOMAIN p.in = DOMAIN e.in \union {f}
         /\ p.out = e.out /\ p.straggler = e.straggler
         /\ p.unsatisfy # NoTimer
         /\ \E g \in DOMAIN p.in : p.in[g].left = p.unsatisfy
         /\ \A g \in DOMAIN p.in : p.in[g].left <= p.unsatisfy
<1> DEFINE in == Put(e.in, f, update(n, l))
           i == insertOrUpdateInRecord(e, f, n, l)
           L == {in[g].left : g \in DOMAIN in}
<1>1. IsRecordCollection(in) /\ DOMAIN in = DOMAIN e.in \union {f}
  BY UpdateType, PutType DEF IsEntry
<1>2. in[f].left = l
  BY DEF Put, update
<1>3. i = [in |-> in, out |-> e.out, unsatisfy |-> e.unsatisfy,
           straggler |-> e.straggler, satisfied |-> e.satisfied,
           period |-> e.period, interval |-> e.interval]
  BY EntryShape DEF insertOrUpdateInRecord
<1>4. \A g \in DOMAIN in : in[g].left \in -1..LastLifetime
  BY <1>1, CollectionFields
<1> HIDE DEF in
<1>5. IsEntry(i)
  BY <1>3, <1>1 DEF IsEntry
<1>6. p = [in |-> in, out |-> e.out, unsatisfy |-> Max(L),
           straggler |-> e.straggler, satisfied |-> e.satisfied,
           period |-> e.period, interval |-> e.interval]
  <2>1. p = [i EXCEPT !.unsatisfy = Max(L)]
    BY <1>3 DEF setUnsatisfyTimer
  <2> HIDE DEF i, L
  <2>2. p = [in |-> i.in, out |-> i.out, unsatisfy |-> Max(L),
             straggler |-> i.straggler, satisfied |-> i.satisfied,
             period |-> i.period, interval |-> i.interval]
    BY <2>1, <1>5, EntryShape
  <2> QED
    BY <2>2, <1>3
<1>7. L \subseteq -1..LastLifetime /\ l \in L
  BY <1>4, <1>1, <1>2
<1> HIDE DEF L
<1>8. Max(L) \in L /\ \A x \in L : x <= Max(L)
  <2>1. L \in SUBSET (-1..LastLifetime) /\ L # {} /\ LastLifetime \in Nat
    BY <1>7, LastLifetimeType
  <2> QED
    BY ONLY <2>1, MaxOfTimes, Zenon
<1>9. Max(L) \in -1..LastLifetime /\ Max(L) >= l /\ l \in Nat
  BY <1>7, <1>8, TimeAssumption
<1>10. Max(L) # NoTimer
  BY <1>9, LastLifetimeType DEF NoTimer
<1>11. IsEntry(p)
  BY <1>6, <1>9, <1>1 DEF IsEntry, NoTimer
<1>12. \E g \in DOMAIN in : in[g].left = Max(L)
  BY <1>8 DEF L
<1>13. \A g \in DOMAIN in : in[g].left <= Max(L)
  BY <1>8 DEF L
<1> QED
  BY <1>6, <1>1, <1>10, <1>11, <1>12, <1>13

\* The faces of a sequence of next hops.
LEMMA NexthopFaces ==
  ASSUME NEW nexthops, \A i \in DOMAIN nexthops : nexthops[i] \in Face
  PROVE  FacesOf(nexthops) \subseteq Face /\ \A F : FirstOf(nexthops, F) \subseteq Face
  BY DEF FacesOf, FirstOf

\* A strategy decides for faces of the node, and leaves a suppression interval
\* between the initial and the maximal one.
LEMMA DecisionType ==
  ASSUME NEW strategy \in {"multicast", "best-route", "best-route2"},
         NEW e, IsEntry(e), NEW scope, NEW f \in Face,
         NEW nexthops, \A i \in DOMAIN nexthops : nexthops[i] \in Face,
         NEW d, d = afterReceiveInterest(strategy, e, scope, nexthops, f)
  PROVE  d.faces \subseteq Face /\ d.interval \in InitialInterval..MaxInterval
<1>1. e.interval \in InitialInterval..MaxInterval
  BY DEF IsEntry
<1>2. NextInterval(e.interval) \in InitialInterval..MaxInterval
  BY <1>1, TimeAssumption DEF NextInterval
<1>3. CASE strategy = "multicast"
  <2>1. d = multicast(e, scope, nexthops)
    BY <1>3 DEF afterReceiveInterest
  <2> QED
    BY <2>1, <1>1, NexthopFaces DEF multicast, Decision
<1>4. CASE strategy = "best-route"
  <2>1. d = bestRoute(e, scope, nexthops)
    BY <1>4 DEF afterReceiveInterest
  <2>2. CASE hasUnexpiredOutRecords(e)
    BY <2>1, <2>2, <1>1 DEF bestRoute, Decision
  <2>3. CASE ~hasUnexpiredOutRecords(e)
    BY <2>1, <2>3, <1>1, NexthopFaces DEF bestRoute, Decision
  <2> QED
    BY <2>2, <2>3
<1>5. CASE strategy = "best-route2"
  <2>1. d = bestRoute2(e, scope, nexthops, f)
    BY <1>5 DEF afterReceiveInterest
  <2>2. decide(e) \in {"NEW", "SUPPRESS", "FORWARD"}
    BY DEF decide
  <2>3. CASE decide(e) = "NEW"
    BY <2>1, <2>3, <1>1, NexthopFaces DEF bestRoute2, Decision
  <2>4. CASE decide(e) = "SUPPRESS"
    BY <2>1, <2>4, <1>1 DEF bestRoute2, Decision
  <2>5. CASE decide(e) = "FORWARD"
    BY <2>1, <2>5, <1>2, NexthopFaces DEF bestRoute2, Decision
  <2> QED
    BY <2>2, <2>3, <2>4, <2>5
<1> QED
  BY <1>3, <1>4, <1>5

\* onOutgoingInterest writes out-records and nothing else of the entry but the
\* suppression interval.
LEMMA SentEntry ==
  ASSUME NEW p, IsEntry(p), NEW x \in InitialInterval..MaxInterval,
         NEW faces \in SUBSET Face, NEW picked \in [faces -> DOMAIN p.in],
         NEW e, e = insertOrUpdateOutRecords([p EXCEPT !.interval = x], faces, picked)
  PROVE  /\ IsEntry(e)
         /\ e.in = p.in /\ e.unsatisfy = p.unsatisfy /\ e.straggler = p.straggler
<1> DEFINE q == [p EXCEPT !.interval = x]
           rec(g) == update(p.in[picked[g]].nonce, p.in[picked[g]].life)
           out == [g \in DOMAIN p.out \union faces |-> IF g \in faces THEN rec(g) ELSE p.out[g]]
<1>1. q = [in |-> p.in, out |-> p.out, unsatisfy |-> p.unsatisfy,
           straggler |-> p.straggler, satisfied |-> p.satisfied,
           period |-> p.period, interval |-> x]
  BY EntryShape
<1> HIDE DEF q
<1>2. IsEntry(q)
  BY <1>1 DEF IsEntry
<1>3. e = [q EXCEPT !.out = out]
  BY <1>1 DEF insertOrUpdateOutRecords, q
<1>4. \A g \in faces : rec(g) \in FaceRecord
  <2> SUFFICES ASSUME NEW g \in faces
               PROVE  rec(g) \in FaceRecord
    OBVIOUS
  <2>1. picked[g] \in DOMAIN p.in
    OBVIOUS
  <2>2. p.in[picked[g]].nonce \in Nonce /\ p.in[picked[g]].life \in Lifetime
    BY <2>1, CollectionFields DEF IsEntry
  <2> QED
    BY <2>2, UpdateType
<1>5. DOMAIN p.out \subseteq Face /\ \A g \in DOMAIN p.out : p.out[g] \in FaceRecord
  BY CollectionFields DEF IsEntry
<1> HIDE DEF rec
<1>6. out \in [DOMAIN p.out \union faces -> FaceRecord] /\ DOMAIN p.out \union faces \in SUBSET Face
  BY <1>4, <1>5
<1>7. IsRecordCollection(out)
  BY <1>6, Zenon DEF IsRecordCollection
<1> HIDE DEF out
<1>8. e = [in |-> p.in, out |-> out, unsatisfy |-> p.unsatisfy,
           straggler |-> p.straggler, satisfied |-> p.satisfied,
           period |-> p.period, interval |-> x]
  <2>1. e = [in |-> q.in, out |-> out, unsatisfy |-> q.unsatisfy,
             straggler |-> q.straggler, satisfied |-> q.satisfied,
             period |-> q.period, interval |-> q.interval]
    BY <1>2, <1>3, EntryShape
  <2> QED
    BY <2>1, <1>1
<1> QED
  BY <1>7, <1>8 DEF IsEntry

\* Setting the straggler timer keeps an entry one.
LEMMA StragglerType ==
  ASSUME NEW e, IsEntry(e), NEW isSatisfied \in BOOLEAN, NEW period \in Int
  PROVE  /\ IsEntry(setStragglerTimer(e, isSatisfied, period))
         /\ setStragglerTimer(e, isSatisfied, period).straggler # NoTimer
<1>1. StragglerTime \in -1..StragglerTime /\ StragglerTime # -1
  BY TimeAssumption
<1> QED
  BY <1>1 DEF setStragglerTimer, IsEntry, NoTimer

\* deleteInRecords and deleteOutRecord keep an entry one.
LEMMA DeleteRecordsType ==
  ASSUME NEW e, IsEntry(e), NEW f
  PROVE  LET x == deleteOutRecord(deleteInRecords(e), f)
         IN  /\ IsEntry(x) /\ DOMAIN x.in = {}
             /\ x.unsatisfy = e.unsatisfy /\ x.straggler = e.straggler
<1> DEFINE y == deleteInRecords(e)
           x == deleteOutRecord(y, f)
<1>1. y = [in |-> NoRecords, out |-> e.out, unsatisfy |-> e.unsatisfy,
           straggler |-> e.straggler, satisfied |-> e.satisfied,
           period |-> e.period, interval |-> e.interval]
  BY EntryShape DEF deleteInRecords
<1>2. IsEntry(y)
  BY <1>1, NoRecordsType DEF IsEntry
<1>3. IsRecordCollection(Drop(y.out, f))
  BY <1>2, DropType DEF IsEntry
<1> HIDE DEF y
<1>4. x = [in |-> y.in, out |-> Drop(y.out, f), unsatisfy |-> y.unsatisfy,
           straggler |-> y.straggler, satisfied |-> y.satisfied,
           period |-> y.period, interval |-> y.interval]
  BY <1>2, EntryShape DEF deleteOutRecord
<1>5. IsEntry(x)
  BY <1>2, <1>3, <1>4 DEF IsEntry
<1>6. DOMAIN x.in = {} /\ x.unsatisfy = e.unsatisfy /\ x.straggler = e.straggler
  BY <1>1, <1>4, NoRecordsType
<1> QED
  BY <1>5, <1>6 DEF y

\* One time unit later a record is a record.
LEMMA AgeRecordType ==
  ASSUME NEW r \in FaceRecord
  PROVE  AgeRecord(r) \in FaceRecord /\ AgeRecord(r).left = Elapse(r.left)
<1>1. /\ r.nonce \in Nonce /\ r.left \in -1..LastLifetime /\ r.life \in Lifetime
      /\ r.age \in 0..AgeCap
  BY DEF FaceRecord, Expired
<1>2. LastLifetime \in Nat /\ AgeCap \in Nat
  BY LastLifetimeType, TimeAssumption, AgeAssumption
<1>3. Elapse(r.left) \in -1..LastLifetime
  BY <1>1, <1>2 DEF Elapse, Expired
<1>4. (IF r.age < AgeCap THEN r.age + 1 ELSE AgeCap) \in 0..AgeCap
  BY <1>1, <1>2
<1> QED
  BY <1>1, <1>3, <1>4 DEF AgeRecord, FaceRecord, Expired

\* One time unit later a collection is a collection.
LEMMA AgeCollectionType ==
  ASSUME NEW recs, IsRecordCollection(recs)
  PROVE  IsRecordCollection([f \in DOMAIN recs |-> AgeRecord(recs[f])])
<1>1. PICK F \in SUBSET Face : recs \in [F -> FaceRecord]
  BY DEF IsRecordCollection
<1>2. \A f \in F : AgeRecord(recs[f]) \in FaceRecord
  BY <1>1, AgeRecordType
<1>3. [f \in DOMAIN recs |-> AgeRecord(recs[f])] \in [F -> FaceRecord]
  BY <1>1, <1>2
<1> QED
  BY <1>1, <1>3, Zenon DEF IsRecordCollection

\* Time passes without disturbing what the timers cover, once those that are
\* due have run.
LEMMA AgeEntryType ==
  ASSUME NEW e, IsEntry(e), TimersCoverEntry(e), e.unsatisfy # 0, e.straggler # 0
  PROVE  IsEntry(AgeEntry(e)) /\ TimersCoverEntry(AgeEntry(e))
<1> DEFINE a == AgeEntry(e)
<1>1. /\ e.unsatisfy \in -1..LastLifetime /\ e.straggler \in -1..StragglerTime
      /\ IsRecordCollection(e.in) /\ IsRecordCollection(e.out)
      /\ LastLifetime \in Nat /\ StragglerTime \in Nat
  BY LastLifetimeType, TimeAssumption DEF IsEntry, NoTimer
<1>2. /\ Elapse(e.unsatisfy) \in -1..LastLifetime
      /\ Elapse(e.straggler) \in -1..StragglerTime
  BY <1>1 DEF Elapse, Expired
<1>3. IsEntry(a)
  BY <1>1, <1>2, AgeCollectionType DEF IsEntry, AgeEntry, NoTimer
<1>4. /\ DOMAIN a.in = DOMAIN e.in /\ DOMAIN a.out = DOMAIN e.out
      /\ a.unsatisfy = Elapse(e.unsatisfy) /\ a.straggler = Elapse(e.straggler)
      /\ a.satisfied = e.satisfied
  BY DEF AgeEntry
<1>5. /\ \A f \in DOMAIN e.in : a.in[f].left = Elapse(e.in[f].left)
      /\ \A f \in DOMAIN e.out : a.out[f].left = Elapse(e.out[f].left)
  BY <1>1, CollectionFields, AgeRecordType DEF AgeEntry
<1>6. /\ \A f \in DOMAIN e.in : e.in[f].left \in -1..LastLifetime
      /\ \A f \in DOMAIN e.out : e.out[f].left \in -1..LastLifetime
  BY <1>1, CollectionFields
<1> HIDE DEF a
<1>7. (a.unsatisfy # NoTimer <=> e.unsatisfy # NoTimer) /\
      (a.straggler # NoTimer <=> e.straggler # NoTimer)
  BY <1>1, <1>4 DEF Elapse, NoTimer, Expired
<1>8. ASSUME e.unsatisfy # NoTimer
      PROVE  /\ \E f \in DOMAIN a.in : a.in[f].left = a.unsatisfy
             /\ \A f \in DOMAIN a.in : a.in[f].left <= a.unsatisfy
  <2>1. PICK f \in DOMAIN e.in : e.in[f].left = e.unsatisfy
    BY <1>8 DEF TimersCoverEntry
  <2>2. a.in[f].left = a.unsatisfy
    BY <2>1, <1>4, <1>5
  <2>3. ASSUME NEW g \in DOMAIN e.in
        PROVE  a.in[g].left <= a.unsatisfy
    <3>1. e.in[g].left <= e.unsatisfy
      BY <1>8 DEF TimersCoverEntry
    <3> QED
      BY <3>1, <1>1, <1>4, <1>5, <1>6 DEF Elapse, Expired
  <2> QED
    BY <2>1, <2>2, <2>3, <1>4
<1>9. ~hasUnexpiredOutRecords(e) => ~hasUnexpiredOutRecords(a)
  BY <1>4, <1>5, <1>6 DEF hasUnexpiredOutRecords, Elapse, Expired
<1> QED
  BY <1>3, <1>4, <1>7, <1>8, <1>9 DEF TimersCoverEntry, a
=============================================================================
