-------------------------- MODULE ForwarderProofs --------------------------
(***************************************************************************)
(* Proofs about Forwarder for any faces, kinds of Interests, lifetimes,    *)
(* strategies and FIB.                                                     *)
(***************************************************************************)
EXTENDS Forwarder, PitEntryProofs

\* The inductive invariant: TypeOK and TimersCoverInRecords, the part about
\* the PIT first.
PitInv ==
  /\ DOMAIN pit \subseteq Kind
  /\ \A k \in DOMAIN pit : IsEntry(pit[k]) /\ TimersCoverEntry(pit[k])

RestType ==
  /\ DOMAIN cs \subseteq Data /\ \A d \in DOMAIN cs : cs[d] \in Int
  /\ dnl \subseteq {NameOf[k] : k \in Kind} \X Nonce
  /\ up \subseteq Face
  /\ outInterest \subseteq Face \X Kind \X Nonce
  /\ outData \subseteq Face \X Data
  /\ kept \subseteq Kind \X Data

Inv == PitInv /\ RestType

\* Inv is the conjunction of the two invariants.
LEMMA InvIsBoth == Inv <=> TypeOK /\ TimersCoverInRecords
  BY DEF Inv, PitInv, RestType, TypeOK, TimersCoverInRecords

\* Initially the tables are empty.
LEMMA InitInv == Init => Inv
  BY DEF Init, Inv, PitInv, RestType

----------------------------------------------------------------------------

\* Writing an entry that is one and is covered keeps PitInv.
LEMMA InsertInv ==
  ASSUME PitInv, NEW k \in Kind, NEW e, IsEntry(e), TimersCoverEntry(e),
         pit' = Insert(k, e)
  PROVE  PitInv'
  BY DEF PitInv, Insert

\* The entry of any kind, existing or new, is one and is covered.
LEMMA EntryOfInv ==
  ASSUME PitInv, NEW k \in Kind
  PROVE  IsEntry(EntryOf(k)) /\ TimersCoverEntry(EntryOf(k))
  BY NewEntryType DEF PitInv, EntryOf

\* onInterestReject on a pending entry leaves it pending or rejected.
LEMMA RejectInv ==
  ASSUME NEW e, IsEntry(e), TimersCoverEntry(e), DOMAIN e.in # {}
  PROVE  /\ IsEntry(onInterestReject(e)) /\ TimersCoverEntry(onInterestReject(e))
         /\ onInterestReject(e).in = e.in
<1>1. CASE hasUnexpiredOutRecords(e)
  BY <1>1 DEF onInterestReject
<1>2. CASE ~hasUnexpiredOutRecords(e)
  <2> DEFINE c == cancelTimers(e)
             r == setStragglerTimer(c, FALSE, NoPeriod)
  <2>1. onInterestReject(e) = r
    BY <1>2 DEF onInterestReject
  <2>2. IsEntry(c) /\ c.in = e.in /\ c.out = e.out /\ c.unsatisfy = NoTimer
    BY CancelTimersType
  <2> HIDE DEF c
  <2>3. NoPeriod \in Int
    BY DEF NoPeriod
  <2>4. IsEntry(r) /\ r.straggler # NoTimer
    BY <2>2, <2>3, StragglerType
  <2>5. r.in = e.in /\ r.out = e.out /\ r.unsatisfy = NoTimer /\ r.satisfied = FALSE
    BY <2>2 DEF setStragglerTimer
  <2> HIDE DEF r
  <2>6. ~hasUnexpiredOutRecords(r)
    BY <2>5, <1>2 DEF hasUnexpiredOutRecords
  <2>7. TimersCoverEntry(r)
    BY <2>4, <2>5, <2>6 DEF TimersCoverEntry
  <2> QED
    BY <2>1, <2>4, <2>5, <2>7
<1> QED
  BY <1>1, <1>2

\* What is sent to the downstreams.
LEMMA OutgoingData ==
  ASSUME NEW d \in Data, NEW faces, up \subseteq Face
  PROVE  onOutgoingData(d, faces) \subseteq Face \X Data
  BY DEF onOutgoingData

\* The next hops in use are faces.
LEMMA NextHopsType ==
  ASSUME NEW k \in Kind
  PROVE  \A i \in DOMAIN nexthops(k) : nexthops(k)[i] \in Face
<1>1. NextHops[k] \in Seq(Face)
  BY NamesAssumption
<1> QED
  BY <1>1 DEF nexthops

----------------------------------------------------------------------------
(* The actions.                                                            *)

\* Forwarding an Interest: the entry gets its in-record, the unsatisfy timer
\* and its out-records, and may be rejected.
LEMMA MissInv ==
  ASSUME Inv, NEW f \in Face, NEW k \in Kind, NEW n \in Nonce, NEW l \in Lifetime,
         NEW e, IsEntry(e), e.straggler = NoTimer, onContentStoreMiss(f, k, n, l, e)
  PROVE  Inv'
<1> DEFINE pending == setUnsatisfyTimer(insertOrUpdateInRecord(e, f, n, l))
           decision == afterReceiveInterest(StrategyOf[k], pending, ScopeOf[k], nexthops(k), f)
           faces == {g \in decision.faces : ~violatesScope(pending, ScopeOf[k], g)}
           sent(picked) == insertOrUpdateOutRecords(
                             [pending EXCEPT !.interval = decision.interval], faces, picked)
<1>1. PICK picked \in [faces -> DOMAIN pending.in] :
        /\ pit' = Insert(k, IF decision.reject THEN onInterestReject(sent(picked))
                                               ELSE sent(picked))
        /\ outInterest' = {<<g, k, pending.in[picked[g]].nonce>> : g \in faces}
        /\ outData' = {}
        /\ kept' = Forget(k)
        /\ UNCHANGED <<cs, dnl, up>>
  BY Zenon DEF onContentStoreMiss
<1> DEFINE s == sent(picked)
           r == IF decision.reject THEN onInterestReject(s) ELSE s
<1>2. /\ IsEntry(pending) /\ DOMAIN pending.in = DOMAIN e.in \union {f}
      /\ pending.straggler = NoTimer /\ pending.unsatisfy # NoTimer
      /\ \E g \in DOMAIN pending.in : pending.in[g].left = pending.unsatisfy
      /\ \A g \in DOMAIN pending.in : pending.in[g].left <= pending.unsatisfy
  BY PendingEntry
<1> HIDE DEF pending
<1>3. decision.faces \subseteq Face /\ decision.interval \in InitialInterval..MaxInterval
  <2>1. StrategyOf[k] \in {"multicast", "best-route", "best-route2"}
    BY NamesAssumption
  <2> QED
    BY <2>1, <1>2, NextHopsType, DecisionType
<1> HIDE DEF decision
<1>4. faces \in SUBSET Face
  BY <1>3
<1> HIDE DEF faces
<1>5. IsEntry(s) /\ s.in = pending.in /\ s.unsatisfy = pending.unsatisfy
        /\ s.straggler = NoTimer
  BY <1>2, <1>3, <1>4, SentEntry
<1> HIDE DEF s, sent
<1>6. TimersCoverEntry(s) /\ DOMAIN s.in # {}
  BY <1>2, <1>5 DEF TimersCoverEntry
<1>7. IsEntry(r) /\ TimersCoverEntry(r) /\ r.in = pending.in
  BY <1>5, <1>6, RejectInv
<1>8. pit' = Insert(k, r)
  BY <1>1 DEF s
<1> HIDE DEF r
<1>9. PitInv'
  BY <1>7, <1>8, InsertInv DEF Inv
<1>10. \A g \in faces : pending.in[picked[g]].nonce \in Nonce
  BY <1>1, <1>2, CollectionFields DEF IsEntry
<1>11. RestType'
  BY <1>1, <1>4, <1>10 DEF Inv, RestType, Forget
<1> QED
  BY <1>9, <1>11 DEF Inv

\* Answering an Interest from the Content Store.
LEMMA HitInv ==
  ASSUME Inv, NEW f \in Face, NEW k \in Kind, NEW d \in Data,
         NEW e, IsEntry(e), DOMAIN e.in = {}, e.unsatisfy = NoTimer,
         onContentStoreHit(f, k, d, e)
  PROVE  Inv'
<1> DEFINE r == setStragglerTimer(e, TRUE, FreshnessPeriod[d])
<1>1. FreshnessPeriod[d] \in Int
  BY FreshnessAssumption DEF NoPeriod
<1>2. IsEntry(r)
  BY <1>1, StragglerType
<1>3. TimersCoverEntry(r)
  BY DEF TimersCoverEntry, setStragglerTimer
<1>4. pit' = Insert(k, r)
  BY DEF onContentStoreHit
<1> HIDE DEF r
<1>5. PitInv'
  BY <1>2, <1>3, <1>4, InsertInv DEF Inv
<1>6. /\ outData' = onOutgoingData(d, {f}) /\ outInterest' = {} /\ UNCHANGED <<cs, dnl, up>>
      /\ kept' = Forget(k) \union {<<k, d>>}
  BY DEF onContentStoreHit
<1>7. onOutgoingData(d, {f}) \subseteq Face \X Data
  BY OutgoingData DEF Inv, RestType
<1>8. kept' \subseteq Kind \X Data
  BY <1>6 DEF Inv, RestType, Forget
<1> QED
  BY <1>5, <1>6, <1>7, <1>8 DEF Inv, RestType

\* Incoming Interests.
LEMMA InterestInv ==
  ASSUME Inv, NEW f \in Face, NEW k \in Kind, NEW n \in Nonce, NEW l \in Lifetime,
         onIncomingInterest(f, k, n, l)
  PROVE  Inv'
<1>1. CASE onInterestLoop(k)
  <2>1. PitInv'
    BY <1>1, EntryOfInv, InsertInv DEF onInterestLoop, Inv
  <2> QED
    BY <1>1, <2>1 DEF onInterestLoop, Inv, RestType
<1> DEFINE e == cancelTimers(EntryOf(k))
<1>2. IsEntry(e) /\ e.unsatisfy = NoTimer /\ e.straggler = NoTimer
  BY EntryOfInv, CancelTimersType DEF Inv
<1>3. ASSUME DOMAIN e.in = {}, NEW d \in csMatches(k), onContentStoreHit(f, k, d, e)
      PROVE  Inv'
  <2>1. d \in Data
    BY DEF csMatches, Inv, RestType
  <2> HIDE DEF e
  <2> QED
    BY <1>2, <1>3, <2>1, HitInv
<1>4. CASE onContentStoreMiss(f, k, n, l, e)
  <2> HIDE DEF e
  <2> QED
    BY <1>2, <1>4, MissInv
<1> QED
  BY <1>1, <1>3, <1>4, Zenon DEF onIncomingInterest

\* What insertDeadNonceList adds.
LEMMA DeadNoncesType ==
  ASSUME PitInv, NEW k \in DOMAIN pit, NEW isSatisfied, NEW period, NEW faces
  PROVE  deadNonces(k, pit[k], isSatisfied, period, faces)
           \subseteq {NameOf[j] : j \in Kind} \X Nonce
<1>1. k \in Kind /\ \A f \in DOMAIN pit[k].out : pit[k].out[f].nonce \in Nonce
  BY CollectionFields DEF PitInv, IsEntry
<1> QED
  BY <1>1 DEF deadNonces

\* The Content Store after an insertion.
LEMMA CsInsertedType ==
  ASSUME RestType, NEW d \in Data, cs' \in csInserted(d)
  PROVE  DOMAIN cs' \subseteq Data /\ \A c \in DOMAIN cs' : cs'[c] \in Int
<1>1. FreshnessPeriod[d] \in Int
  BY FreshnessAssumption DEF NoPeriod
<1>2. CASE cs' = cs
  BY <1>2 DEF RestType
<1>3. CASE \E K \in SUBSET (DOMAIN cs \union {d}) :
             cs' = [c \in K |-> IF c = d THEN FreshnessPeriod[d] ELSE cs[c]]
  BY <1>1, <1>3 DEF RestType
<1> QED
  BY <1>2, <1>3 DEF csInserted

\* A satisfied entry waits for stragglers without in-records.
LEMMA SatisfyInv ==
  ASSUME NEW e, IsEntry(e), NEW f, NEW d \in Data
  PROVE  IsEntry(satisfy(e, f, d)) /\ TimersCoverEntry(satisfy(e, f, d))
<1> DEFINE x == deleteOutRecord(deleteInRecords(cancelTimers(e)), f)
<1>1. IsEntry(x) /\ DOMAIN x.in = {} /\ x.unsatisfy = NoTimer
  BY CancelTimersType, DeleteRecordsType
<1>2. satisfy(e, f, d) = setStragglerTimer(x, TRUE, FreshnessPeriod[d])
  BY DEF satisfy
<1> HIDE DEF x
<1>3. FreshnessPeriod[d] \in Int
  BY FreshnessAssumption DEF NoPeriod
<1>4. IsEntry(setStragglerTimer(x, TRUE, FreshnessPeriod[d]))
  BY <1>1, <1>3, StragglerType
<1>5. TimersCoverEntry(setStragglerTimer(x, TRUE, FreshnessPeriod[d]))
  BY <1>1 DEF TimersCoverEntry, setStragglerTimer
<1> QED
  BY <1>2, <1>4, <1>5

\* Incoming Data.
LEMMA DataInv ==
  ASSUME Inv, NEW f \in Face, NEW d \in Data, onIncomingData(f, d)
  PROVE  Inv'
<1> DEFINE pitMatches == {k \in DOMAIN pit : <<k, d>> \in Matches}
           down == UNION {pendingDownstreams(pit[k]) : k \in pitMatches}
           dead == UNION {deadNonces(k, pit[k], TRUE, FreshnessPeriod[d], {f}) : k \in pitMatches}
<1>1. CASE onDataUnsolicited(f, d)
  <2>1. DOMAIN cs' \subseteq Data /\ \A c \in DOMAIN cs' : cs'[c] \in Int
    BY <1>1, CsInsertedType DEF onDataUnsolicited, Inv, RestType
  <2> QED
    BY <1>1, <2>1 DEF onDataUnsolicited, Inv, PitInv, RestType
<1>2. CASE /\ cs' \in csInserted(d)
           /\ dnl' = dnl \union dead
           /\ pit' = [k \in DOMAIN pit |->
                        IF k \in pitMatches THEN satisfy(pit[k], f, d) ELSE pit[k]]
           /\ outData' = onOutgoingData(d, down)
           /\ outInterest' = {}
           /\ kept' = {p \in kept : p[1] \notin pitMatches /\ p[2] \in DOMAIN cs'} \union
                      {p \in pitMatches \X {d} : holdsCopy(cs', d)}
           /\ UNCHANGED up
  <2>1. DOMAIN cs' \subseteq Data /\ \A c \in DOMAIN cs' : cs'[c] \in Int
    BY <1>2, CsInsertedType DEF Inv
  <2>2. dead \subseteq {NameOf[j] : j \in Kind} \X Nonce
    <3>1. \A k \in pitMatches :
            deadNonces(k, pit[k], TRUE, FreshnessPeriod[d], {f})
              \subseteq {NameOf[j] : j \in Kind} \X Nonce
      BY DeadNoncesType DEF Inv
    <3> QED
      BY <3>1, Zenon
  <2>3. outData' \subseteq Face \X Data
    BY <1>2, OutgoingData DEF Inv, RestType
  <2>4. PitInv'
    <3>1. DOMAIN pit' = DOMAIN pit
      BY <1>2
    <3>2. ASSUME NEW k \in DOMAIN pit
          PROVE  IsEntry(pit'[k]) /\ TimersCoverEntry(pit'[k])
      <4>1. IsEntry(pit[k]) /\ TimersCoverEntry(pit[k])
        BY DEF Inv, PitInv
      <4>2. IsEntry(satisfy(pit[k], f, d)) /\ TimersCoverEntry(satisfy(pit[k], f, d))
        BY <4>1, SatisfyInv
      <4>3. pit'[k] = satisfy(pit[k], f, d) \/ pit'[k] = pit[k]
        BY <1>2
      <4> QED
        BY <4>1, <4>2, <4>3
    <3> QED
      BY <3>1, <3>2 DEF Inv, PitInv
  <2>5. kept' \subseteq Kind \X Data
    BY <1>2 DEF Inv, PitInv, RestType
  <2> HIDE DEF dead, down, pitMatches
  <2>6. RestType'
    BY <1>2, <2>1, <2>2, <2>3, <2>5 DEF Inv, RestType
  <2> QED
    BY <2>4, <2>6 DEF Inv
<1> QED
  BY <1>1, <1>2, Zenon DEF onIncomingData

\* The end of an entry.
LEMMA FinalizeInv ==
  ASSUME Inv, NEW k \in DOMAIN pit, NEW isSatisfied, NEW period,
         onInterestFinalize(k, isSatisfied, period)
  PROVE  Inv'
<1>1. deadNonces(k, pit[k], isSatisfied, period, Face) \subseteq {NameOf[j] : j \in Kind} \X Nonce
  BY DeadNoncesType DEF Inv
<1>2. PitInv'
  BY DEF onInterestFinalize, Erase, Inv, PitInv
<1> QED
  BY <1>1, <1>2 DEF onInterestFinalize, Inv, RestType, Forget

\* The passing of time.
LEMMA TickInv ==
  ASSUME Inv, Tick
  PROVE  Inv'
<1>1. PitInv'
  BY AgeEntryType DEF Tick, Inv, PitInv
<1>2. \A d \in DOMAIN cs : Elapse(cs[d]) \in Int /\ NoPeriod \in Int
  BY DEF Inv, RestType, Elapse, Expired, NoPeriod
<1>3. DOMAIN cs' = DOMAIN cs /\ \A d \in DOMAIN cs' : cs'[d] \in Int
  BY <1>2 DEF Tick
<1> QED
  BY <1>1, <1>3 DEF Tick, Inv, RestType

\* Every step keeps the invariant.
LEMMA NextInv ==
  ASSUME Inv, Next
  PROVE  Inv'
<1>1. ASSUME NEW f \in Face, NEW k \in Kind, NEW n \in Nonce, NEW l \in Lifetime,
             onIncomingInterest(f, k, n, l)
      PROVE  Inv'
  BY <1>1, InterestInv
<1>2. ASSUME NEW f \in Face, NEW d \in Data, onIncomingData(f, d)
      PROVE  Inv'
  BY <1>2, DataInv
<1>3. ASSUME NEW k \in DOMAIN pit, onInterestUnsatisfied(k) \/ onStraggler(k)
      PROVE  Inv'
  BY <1>3, FinalizeInv DEF onInterestUnsatisfied, onStraggler
<1>4. ASSUME NEW f \in Face, removeFace(f)
      PROVE  Inv'
  BY <1>4 DEF removeFace, Inv, PitInv, RestType
<1>5. ASSUME NEW x \in dnl, dnlEvict(x)
      PROVE  Inv'
  BY <1>5 DEF dnlEvict, Inv, PitInv, RestType
<1>6. CASE Tick
  BY <1>6, TickInv
<1> QED
  BY <1>1, <1>2, <1>3, <1>4, <1>5, <1>6, Zenon DEF Next, Arrival, Timers

\* The invariant holds throughout.
LEMMA InvHolds == Spec => []Inv
<1>1. Inv /\ UNCHANGED vars => Inv'
  BY DEF vars, Inv, PitInv, RestType
<1> QED
  BY InitInv, NextInv, <1>1, PTL DEF Spec

----------------------------------------------------------------------------

\* The forwarder's tables keep their types through every pipeline.
THEOREM TypeCorrect == Spec => []TypeOK
  BY InvHolds, InvIsBoth, PTL

\* Whatever the faces, lifetimes and strategies, a pending entry is watched by
\* exactly one timer, due when its last in-record expires or, once rejected,
\* after the straggler time.
THEOREM TimersCover == Spec => []TimersCoverInRecords
  BY InvHolds, InvIsBoth, PTL

----------------------------------------------------------------------------
(* The PIT and the Content Store.                                          *)

\* csMatches in the Content Store c.
MatchesIn(c, k) ==
  {d \in DOMAIN c : /\ <<k, d>> \in Matches
                    /\ k \in MustBeFresh => ~(FreshnessPeriod[d] # NoPeriod /\ c[d] < 0)}

\* The Data d, which stays fresh for another s, was fresh for its whole period at
\* some time since each Interest of `out' was sent.
Outlives(k, out, d, s) ==
  k \in MustBeFresh /\ FreshnessPeriod[d] # NoPeriod =>
    \A f \in DOMAIN out : out[f].age >= AgeCap \/ out[f].age + s >= FreshnessPeriod[d]

\* The entry e of kind k is not pending if the store c has an answer to it, and any
\* such answer came after the Interests that e has sent.
CacheEntry(k, e, c) ==
  /\ DOMAIN e.in # {} => MatchesIn(c, k) = {}
  /\ \A d \in MatchesIn(c, k) : Outlives(k, e.out, d, c[d])

\* The entry e was satisfied by d, which the store c has kept.
KeptEntry(k, e, d, c) ==
  /\ e.satisfied /\ e.period = FreshnessPeriod[d]
  /\ d \in DOMAIN c /\ <<k, d>> \in Matches
  /\ Outlives(k, e.out, d, c[d])

IsStore(c) == DOMAIN c \subseteq Data /\ \A d \in DOMAIN c : c[d] \in Int /\ c[d] >= -1

\* What relates the PIT to the Content Store.
CacheInv ==
  /\ IsStore(cs)
  /\ \A k \in DOMAIN pit : CacheEntry(k, pit[k], cs)
  /\ \A p \in kept : p[1] \in DOMAIN pit /\ KeptEntry(p[1], pit[p[1]], p[2], cs)

----------------------------------------------------------------------------
(* What a step does to one pending face and to the nonces that were sent.  *)

\* Forwarding an Interest of face f keeps the other in-records and, if it sends
\* nothing, the out-records.
LEMMA MissKeeps ==
  ASSUME Inv, NEW f \in Face, NEW k \in Kind, NEW n \in Nonce, NEW l \in Lifetime,
         NEW e, IsEntry(e), e.straggler = NoTimer, onContentStoreMiss(f, k, n, l, e)
  PROVE  /\ \E r : /\ pit' = Insert(k, r)
                   /\ DOMAIN r.in = DOMAIN e.in \union {f}
                   /\ r.in[f].left = l
                   /\ \A g \in DOMAIN e.in \ {f} : r.in[g] = e.in[g]
                   /\ outInterest' = {} => r.out = e.out
         /\ \A x \in outInterest' : x[2] = k
<1> DEFINE pending == setUnsatisfyTimer(insertOrUpdateInRecord(e, f, n, l))
           decision == afterReceiveInterest(StrategyOf[k], pending, ScopeOf[k], nexthops(k), f)
           faces == {g \in decision.faces : ~violatesScope(pending, ScopeOf[k], g)}
           sent(picked) == insertOrUpdateOutRecords(
                             [pending EXCEPT !.interval = decision.interval], faces, picked)
<1>1. PICK picked \in [faces -> DOMAIN pending.in] :
        /\ pit' = Insert(k, IF decision.reject THEN onInterestReject(sent(picked))
                                               ELSE sent(picked))
        /\ outInterest' = {<<g, k, pending.in[picked[g]].nonce>> : g \in faces}
  BY Zenon DEF onContentStoreMiss
<1> DEFINE s == sent(picked)
           r == IF decision.reject THEN onInterestReject(s) ELSE s
<1>2. /\ IsEntry(pending) /\ DOMAIN pending.in = DOMAIN e.in \union {f}
      /\ pending.straggler = NoTimer /\ pending.out = e.out /\ pending.unsatisfy # NoTimer
      /\ \E g \in DOMAIN pending.in : pending.in[g].left = pending.unsatisfy
      /\ \A g \in DOMAIN pending.in : pending.in[g].left <= pending.unsatisfy
  BY PendingEntry
<1>3. /\ pending.in[f].left = l
      /\ \A g \in DOMAIN e.in \ {f} : pending.in[g] = e.in[g]
  <2>1. insertOrUpdateInRecord(e, f, n, l).in = Put(e.in, f, update(n, l))
    BY EntryShape DEF insertOrUpdateInRecord
  <2>2. pending.in = Put(e.in, f, update(n, l))
    <3>1. IsEntry(insertOrUpdateInRecord(e, f, n, l))
      <4>1. insertOrUpdateInRecord(e, f, n, l) =
              [in |-> Put(e.in, f, update(n, l)), out |-> e.out, unsatisfy |-> e.unsatisfy,
               straggler |-> e.straggler, satisfied |-> e.satisfied,
               period |-> e.period, interval |-> e.interval]
        BY EntryShape DEF insertOrUpdateInRecord
      <4>2. IsRecordCollection(Put(e.in, f, update(n, l)))
        BY UpdateType, PutType DEF IsEntry
      <4> QED
        BY <4>1, <4>2, EntryIntro DEF IsEntry, NoTimer
    <3> QED
      BY <2>1, <3>1 DEF setUnsatisfyTimer, IsEntry
  <2> QED
    BY <2>2 DEF Put, update
<1> HIDE DEF pending
<1>4. decision.faces \subseteq Face /\ decision.interval \in InitialInterval..MaxInterval
  <2>1. StrategyOf[k] \in {"multicast", "best-route", "best-route2"}
    BY NamesAssumption
  <2> QED
    BY <2>1, <1>2, NextHopsType, DecisionType
<1> HIDE DEF decision
<1>5. faces \in SUBSET Face
  BY <1>4
<1>6. outInterest' = {} => faces = {}
  BY <1>1
<1>7. \A x \in outInterest' : x[2] = k
  BY <1>1
<1> HIDE DEF faces
<1>8. IsEntry(s) /\ s.in = pending.in /\ s.unsatisfy = pending.unsatisfy
        /\ s.straggler = NoTimer
  BY <1>2, <1>4, <1>5, SentEntry
<1>9. faces = {} => s.out = pending.out
  <2> DEFINE q == [pending EXCEPT !.interval = decision.interval]
  <2>1. q.out = pending.out /\ IsEntry(q)
    BY <1>2, <1>4 DEF IsEntry
  <2>2. IsRecordCollection(q.out)
    BY <2>1 DEF IsEntry
  <2>3. s = insertOrUpdateOutRecords(q, faces, picked)
    OBVIOUS
  <2> HIDE DEF q, s
  <2>4. faces = {} => s.out = [g \in DOMAIN q.out |-> q.out[g]]
    BY <2>1, <2>3, EntryShape DEF insertOrUpdateOutRecords
  <2>5. [g \in DOMAIN q.out |-> q.out[g]] = q.out
    BY <2>2 DEF IsRecordCollection
  <2> QED
    BY <2>1, <2>4, <2>5
<1> HIDE DEF s, sent
<1>10. TimersCoverEntry(s) /\ DOMAIN s.in # {}
  BY <1>2, <1>8 DEF TimersCoverEntry
<1>11. r.in = pending.in /\ r.out = s.out
  BY <1>8, <1>10, RejectInv DEF onInterestReject, setStragglerTimer, cancelTimers
<1>12. pit' = Insert(k, r)
  BY <1>1 DEF s
<1> QED
  BY <1>2, <1>3, <1>6, <1>7, <1>9, <1>11, <1>12

\* An Interest that is dropped as a loop or answered from the Content Store keeps the
\* in-records of a pending entry and all out-records.
LEMMA InterestKeeps ==
  ASSUME Inv, NEW f \in Face, NEW k \in Kind, NEW n \in Nonce, NEW l \in Lifetime,
         onIncomingInterest(f, k, n, l)
  PROVE  /\ \E r : /\ pit' = Insert(k, r)
                   /\ k \in DOMAIN pit => \A g \in DOMAIN pit[k].in :
                        /\ g \in DOMAIN r.in
                        /\ r.in[g] = pit[k].in[g] \/ (g = f /\ r.in[g].left = l)
                   /\ k \in DOMAIN pit /\ outInterest' = {} => r.out = pit[k].out
         /\ \A x \in outInterest' : x[2] = k
<1>1. CASE onInterestLoop(k)
  BY <1>1 DEF onInterestLoop, EntryOf
<1> DEFINE e == cancelTimers(EntryOf(k))
<1>2. IsEntry(e) /\ e.unsatisfy = NoTimer /\ e.straggler = NoTimer
  BY EntryOfInv, CancelTimersType DEF Inv
<1>3. e.in = EntryOf(k).in /\ e.out = EntryOf(k).out
  BY DEF cancelTimers
<1>4. k \in DOMAIN pit => e.in = pit[k].in /\ e.out = pit[k].out
  BY <1>3 DEF EntryOf
<1> HIDE DEF e
<1>5. ASSUME DOMAIN e.in = {}, NEW d \in csMatches(k), onContentStoreHit(f, k, d, e)
      PROVE  /\ pit' = Insert(k, setStragglerTimer(e, TRUE, FreshnessPeriod[d]))
             /\ k \in DOMAIN pit => DOMAIN pit[k].in = {}
             /\ setStragglerTimer(e, TRUE, FreshnessPeriod[d]).out = e.out
             /\ outInterest' = {}
  BY <1>4, <1>5 DEF onContentStoreHit, setStragglerTimer
<1>6. CASE onContentStoreMiss(f, k, n, l, e)
  <2>1. /\ \E r : /\ pit' = Insert(k, r)
                  /\ DOMAIN r.in = DOMAIN e.in \union {f}
                  /\ r.in[f].left = l
                  /\ \A g \in DOMAIN e.in \ {f} : r.in[g] = e.in[g]
                  /\ outInterest' = {} => r.out = e.out
        /\ \A x \in outInterest' : x[2] = k
    BY <1>2, <1>6, MissKeeps
  <2> QED
    BY <2>1, <1>4
<1>7. CASE DOMAIN e.in = {} /\ \E d \in csMatches(k) : onContentStoreHit(f, k, d, e)
  BY <1>4, <1>5, <1>7
<1>8. \/ onInterestLoop(k) \/ onContentStoreMiss(f, k, n, l, e)
      \/ DOMAIN e.in = {} /\ \E d \in csMatches(k) : onContentStoreHit(f, k, d, e)
  BY Zenon DEF onIncomingInterest, e
<1> QED
  BY <1>1, <1>6, <1>7, <1>8

\* A step keeps every pending face, or has a reason not to.
LEMMA StepKeepsDownstream ==
  ASSUME Inv, Next, NEW k \in Kind, NEW f \in Face
  PROVE  DownstreamKept(k, f)
<1> SUFFICES ASSUME Pending(k, f), ~Pending(k, f)'
             PROVE  \/ \E g \in Face, d \in Data :
                         /\ onIncomingData(g, d) /\ <<k, d>> \in Matches
                         /\ \/ <<f, d>> \in outData'
                            \/ f = g \/ f \notin up \/ (d \in LocalhostData /\ f \notin LocalFace)
                    \/ pit[k].in[f].left = 1 /\ Tick
                    \/ 0 \in Lifetime /\ \E n \in Nonce : onIncomingInterest(f, k, n, 0)
                    \/ pit[k].straggler = 0 /\ ~pit[k].satisfied
  BY DEF DownstreamKept
<1>0. /\ k \in DOMAIN pit /\ f \in DOMAIN pit[k].in /\ pit[k].in[f].left > 0
      /\ IsEntry(pit[k]) /\ TimersCoverEntry(pit[k]) /\ pit[k].in[f].left \in Int
  BY CollectionFields DEF Pending, Inv, PitInv, IsEntry
<1>1. ASSUME NEW g \in Face, NEW j \in Kind, NEW n \in Nonce, NEW l \in Lifetime,
             onIncomingInterest(g, j, n, l)
      PROVE  0 \in Lifetime /\ \E m \in Nonce : onIncomingInterest(f, k, m, 0)
  <2>1. PICK r : /\ pit' = Insert(j, r)
                 /\ j \in DOMAIN pit => \A h \in DOMAIN pit[j].in :
                      /\ h \in DOMAIN r.in
                      /\ r.in[h] = pit[j].in[h] \/ (h = g /\ r.in[h].left = l)
    BY <1>1, InterestKeeps
  <2>2. j = k
    BY <1>0, <2>1 DEF Insert, Pending
  <2>3. pit'[k] = r /\ k \in DOMAIN pit' /\ f \in DOMAIN r.in
    BY <1>0, <2>1, <2>2 DEF Insert
  <2>4. f = g /\ ~(l > 0)
    BY <1>0, <2>1, <2>2, <2>3 DEF Pending
  <2>5. l = 0
    BY <2>4, TimeAssumption
  <2> QED
    BY <1>1, <2>2, <2>4, <2>5
<1>2. ASSUME NEW g \in Face, NEW d \in Data, onIncomingData(g, d)
      PROVE  /\ <<k, d>> \in Matches
             /\ \/ <<f, d>> \in outData' \/ f \notin up
                \/ (d \in LocalhostData /\ f \notin LocalFace)
  <2> DEFINE pitMatches == {j \in DOMAIN pit : <<j, d>> \in Matches}
  <2>1. CASE pit' = pit
    BY <1>0, <2>1 DEF Pending
  <2>2. CASE /\ pit' = [j \in DOMAIN pit |->
                          IF j \in pitMatches THEN satisfy(pit[j], g, d) ELSE pit[j]]
             /\ outData' = onOutgoingData(d, UNION {pendingDownstreams(pit[j]) : j \in pitMatches})
    <3>1. k \in pitMatches
      BY <1>0, <2>2 DEF Pending
    <3>2. f \in UNION {pendingDownstreams(pit[j]) : j \in pitMatches}
      BY <1>0, <3>1 DEF pendingDownstreams
    <3> QED
      BY <2>2, <3>1, <3>2 DEF onOutgoingData
  <2> QED
    BY <1>2, <2>1, <2>2, Zenon DEF onIncomingData, onDataUnsolicited
<1>3. ASSUME NEW j \in DOMAIN pit, onInterestUnsatisfied(j) \/ onStraggler(j)
      PROVE  pit[k].straggler = 0 /\ ~pit[k].satisfied
  <2>1. pit' = Erase(j)
    BY <1>3 DEF onInterestUnsatisfied, onStraggler, onInterestFinalize
  <2>2. j = k
    BY <1>0, <2>1 DEF Erase, Pending
  <2>3. pit[k].unsatisfy # 0
    BY <1>0 DEF TimersCoverEntry, NoTimer
  <2>4. pit[k].straggler = 0
    BY <1>3, <2>2, <2>3 DEF onInterestUnsatisfied, onStraggler
  <2>5. pit[k].straggler # NoTimer
    BY <2>4 DEF NoTimer
  <2>6. ~pit[k].satisfied
    BY <1>0, <2>5, Zenon DEF TimersCoverEntry
  <2> QED
    BY <2>4, <2>6
<1>4. ASSUME NEW g \in Face, removeFace(g)
      PROVE  FALSE
  BY <1>0, <1>4 DEF removeFace, Pending
<1>5. ASSUME NEW x \in dnl, dnlEvict(x)
      PROVE  FALSE
  BY <1>0, <1>5 DEF dnlEvict, Pending
<1>6. ASSUME Tick
      PROVE  pit[k].in[f].left = 1
  <2>1. pit'[k] = AgeEntry(pit[k]) /\ k \in DOMAIN pit'
    BY <1>0, <1>6 DEF Tick
  <2>2. f \in DOMAIN pit'[k].in /\ pit'[k].in[f].left = Elapse(pit[k].in[f].left)
    BY <1>0, <2>1 DEF AgeEntry, AgeRecord
  <2> QED
    BY <1>0, <2>1, <2>2 DEF Pending, Elapse
<1> QED
  BY <1>1, <1>2, <1>3, <1>4, <1>5, <1>6, Zenon DEF Next, Arrival, Timers

----------------------------------------------------------------------------
(* How a step changes CacheInv.                                            *)

\* A FreshnessPeriod, or that of a Data without one, is an integer of at least -1.
LEMMA PeriodType ==
  ASSUME NEW d \in Data
  PROVE  FreshnessPeriod[d] \in Int /\ FreshnessPeriod[d] >= -1
  BY FreshnessAssumption DEF NoPeriod

\* A Data that has just arrived outlives all out-records.
LEMMA OutlivesNew ==
  ASSUME NEW k, NEW out, IsRecordCollection(out), NEW d \in Data
  PROVE  Outlives(k, out, d, FreshnessPeriod[d])
<1>1. \A f \in DOMAIN out : out[f].age \in 0..AgeCap /\ AgeCap \in Nat
  BY CollectionFields, AgeAssumption
<1> QED
  BY <1>1, PeriodType DEF Outlives

\* One time unit takes no more from the freshness than it adds to the age.
LEMMA OutlivesAge ==
  ASSUME NEW k, NEW out, IsRecordCollection(out), NEW d \in Data,
         NEW s \in Int, s >= -1, Outlives(k, out, d, s)
  PROVE  Outlives(k, [f \in DOMAIN out |-> AgeRecord(out[f])], d, Elapse(s))
<1>1. \A f \in DOMAIN out : out[f].age \in 0..AgeCap /\ AgeCap \in Nat
  BY CollectionFields, AgeAssumption
<1>2. Elapse(s) \in Int /\ Elapse(s) >= s - 1
  BY DEF Elapse, Expired
<1> SUFFICES ASSUME k \in MustBeFresh, FreshnessPeriod[d] # NoPeriod, NEW f \in DOMAIN out
             PROVE  \/ AgeRecord(out[f]).age >= AgeCap
                    \/ AgeRecord(out[f]).age + Elapse(s) >= FreshnessPeriod[d]
  BY DEF Outlives
<1>3. out[f].age >= AgeCap \/ out[f].age + s >= FreshnessPeriod[d]
  BY DEF Outlives
<1>4. AgeRecord(out[f]).age = IF out[f].age < AgeCap THEN out[f].age + 1 ELSE AgeCap
  BY DEF AgeRecord
<1> HIDE DEF Elapse
<1> QED
  BY <1>1, <1>2, <1>3, <1>4, PeriodType

\* Fewer out-records are outlived too.
LEMMA OutlivesDrop ==
  ASSUME NEW k, NEW out, NEW f, NEW d, NEW s, Outlives(k, out, d, s)
  PROVE  Outlives(k, Drop(out, f), d, s)
  BY DEF Outlives, Drop

\* Time passes: answers only become stale.
LEMMA CacheEntryAges ==
  ASSUME NEW k, NEW e, IsEntry(e), NEW c, IsStore(c), CacheEntry(k, e, c),
         NEW b, b = [d \in DOMAIN c |->
                       IF FreshnessPeriod[d] = NoPeriod THEN NoPeriod ELSE Elapse(c[d])]
  PROVE  CacheEntry(k, AgeEntry(e), b)
<1>1. MatchesIn(b, k) \subseteq MatchesIn(c, k)
  BY DEF MatchesIn, IsStore, Elapse, Expired
<1>2. DOMAIN AgeEntry(e).in = DOMAIN e.in
  BY DEF AgeEntry
<1>3. ASSUME NEW d \in MatchesIn(b, k)
      PROVE  Outlives(k, AgeEntry(e).out, d, b[d])
  <2>1. d \in DOMAIN c /\ d \in Data /\ c[d] \in Int /\ c[d] >= -1
    BY <1>1 DEF MatchesIn, IsStore
  <2>2. AgeEntry(e).out = [f \in DOMAIN e.out |-> AgeRecord(e.out[f])]
    BY DEF AgeEntry
  <2>3. Outlives(k, AgeEntry(e).out, d, Elapse(c[d]))
    BY <1>1, <2>1, <2>2, OutlivesAge DEF CacheEntry, IsEntry
  <2>4. FreshnessPeriod[d] # NoPeriod => b[d] = Elapse(c[d])
    BY <2>1
  <2> QED
    BY <2>3, <2>4 DEF Outlives
<1> QED
  BY <1>1, <1>2, <1>3 DEF CacheEntry

\* Time passes for a kept Data.
LEMMA KeptEntryAges ==
  ASSUME NEW k, NEW e, IsEntry(e), NEW c, IsStore(c), NEW d, KeptEntry(k, e, d, c),
         NEW b, b = [x \in DOMAIN c |->
                       IF FreshnessPeriod[x] = NoPeriod THEN NoPeriod ELSE Elapse(c[x])]
  PROVE  KeptEntry(k, AgeEntry(e), d, b)
<1>1. d \in DOMAIN c /\ d \in Data /\ c[d] \in Int /\ c[d] >= -1
  BY DEF KeptEntry, IsStore
<1>2. /\ AgeEntry(e).out = [f \in DOMAIN e.out |-> AgeRecord(e.out[f])]
      /\ AgeEntry(e).satisfied = e.satisfied /\ AgeEntry(e).period = e.period
  BY DEF AgeEntry
<1>3. Outlives(k, AgeEntry(e).out, d, Elapse(c[d]))
  BY <1>1, <1>2, OutlivesAge DEF KeptEntry, IsEntry
<1>4. FreshnessPeriod[d] # NoPeriod => b[d] = Elapse(c[d])
  BY <1>1
<1>5. Outlives(k, AgeEntry(e).out, d, b[d])
  BY <1>3, <1>4 DEF Outlives
<1> QED
  BY <1>1, <1>2, <1>5 DEF KeptEntry

\* The store b after d was inserted into c, or not, and others were evicted.
Inserted(c, d, b) ==
  \A x \in DOMAIN b : (x = d /\ b[x] = FreshnessPeriod[d]) \/ (x \in DOMAIN c /\ b[x] = c[x])

\* What Cs::insert does to the store.
LEMMA CsInsertedIs ==
  ASSUME NEW d \in Data, cs' \in csInserted(d), IsStore(cs)
  PROVE  Inserted(cs, d, cs') /\ IsStore(cs')
<1>1. CASE cs' = cs
  BY <1>1 DEF Inserted, IsStore
<1>2. CASE \E K \in SUBSET (DOMAIN cs \union {d}) :
             cs' = [c \in K |-> IF c = d THEN FreshnessPeriod[d] ELSE cs[c]]
  BY <1>2, PeriodType DEF Inserted, IsStore
<1> QED
  BY <1>1, <1>2 DEF csInserted

\* An entry that does not match the new Data has no new answer.
LEMMA OtherEntryCached ==
  ASSUME NEW k, NEW e, NEW c, NEW d, NEW b, Inserted(c, d, b), <<k, d>> \notin Matches,
         CacheEntry(k, e, c)
  PROVE  CacheEntry(k, e, b)
<1>1. \A x \in MatchesIn(b, k) : x \in MatchesIn(c, k) /\ b[x] = c[x]
  BY DEF MatchesIn, Inserted
<1> QED
  BY <1>1 DEF CacheEntry

\* An entry that the new Data has satisfied is not pending, and the Data came after
\* what it has sent.
LEMMA SatisfiedEntryCached ==
  ASSUME NEW k, NEW e, IsEntry(e), NEW s, NEW f, DOMAIN s.in = {}, s.out = Drop(e.out, f),
         NEW c, NEW d \in Data, NEW b, Inserted(c, d, b), CacheEntry(k, e, c)
  PROVE  CacheEntry(k, s, b)
<1>1. ASSUME NEW x \in MatchesIn(b, k)
      PROVE  Outlives(k, s.out, x, b[x])
  <2>1. x \in DOMAIN b
    BY DEF MatchesIn
  <2>2. CASE x = d /\ b[x] = FreshnessPeriod[d]
    <3>1. Outlives(k, e.out, x, b[x])
      BY <2>2, OutlivesNew DEF IsEntry
    <3> QED
      BY <3>1, OutlivesDrop
  <2>3. CASE x \in DOMAIN c /\ b[x] = c[x]
    <3>1. x \in MatchesIn(c, k)
      BY <2>3 DEF MatchesIn
    <3>2. Outlives(k, e.out, x, b[x])
      BY <2>3, <3>1 DEF CacheEntry
    <3> QED
      BY <3>2, OutlivesDrop
  <2> QED
    BY <2>1, <2>2, <2>3 DEF Inserted
<1> QED
  BY <1>1 DEF CacheEntry

\* The entry s is e after Data d came from face g.
IsSatisfied(s, e, g, d) ==
  /\ DOMAIN s.in = {} /\ s.out = Drop(e.out, g)
  /\ s.satisfied = TRUE /\ s.period = FreshnessPeriod[d]

\* What satisfy leaves of an entry.
LEMMA SatisfyIs ==
  ASSUME NEW e, IsEntry(e), NEW g, NEW d
  PROVE  IsSatisfied(satisfy(e, g, d), e, g, d)
<1> DEFINE c == cancelTimers(e)
           y == deleteInRecords(c)
           x == deleteOutRecord(y, g)
<1>1. IsEntry(c) /\ c.out = e.out
  BY CancelTimersType
<1> HIDE DEF c
<1>2. y.out = c.out /\ y.in = NoRecords
  BY <1>1, EntryShape DEF deleteInRecords
<1>3. IsEntry(y)
  BY <1>1, NoRecordsType DEF deleteInRecords, IsEntry
<1> HIDE DEF y
<1>4. x.out = Drop(y.out, g) /\ x.in = y.in
  BY <1>3, EntryShape DEF deleteOutRecord
<1>5. satisfy(e, g, d) = setStragglerTimer(x, TRUE, FreshnessPeriod[d])
  BY DEF satisfy, x, y, c
<1> QED
  BY <1>1, <1>2, <1>4, <1>5, NoRecordsType DEF setStragglerTimer, IsSatisfied

\* Writing one entry keeps CacheInv if the entry fits the store and the history.
LEMMA InsertCache ==
  ASSUME CacheInv, NEW k, NEW r, pit' = Insert(k, r), cs' = cs, CacheEntry(k, r, cs),
         \A p \in kept' : \/ p \in kept /\ (p[1] # k \/ r = pit[k])
                          \/ p[1] = k /\ KeptEntry(k, r, p[2], cs)
  PROVE  CacheInv'
<1>1. \A j \in DOMAIN pit' : CacheEntry(j, pit'[j], cs)
  BY DEF CacheInv, Insert
<1>2. \A p \in kept' : p[1] \in DOMAIN pit' /\ KeptEntry(p[1], pit'[p[1]], p[2], cs)
  BY DEF CacheInv, Insert
<1> QED
  BY <1>1, <1>2 DEF CacheInv

\* The entry of any kind fits the store; a new one has no records.
LEMMA EntryOfCache ==
  ASSUME CacheInv, NEW k
  PROVE  CacheEntry(k, EntryOf(k), cs)
<1>1. CASE k \in DOMAIN pit
  BY <1>1 DEF CacheInv, EntryOf
<1>2. CASE k \notin DOMAIN pit
  <2>1. EntryOf(k).in = NoRecords /\ EntryOf(k).out = NoRecords
    BY <1>2 DEF EntryOf, newEntry
  <2> QED
    BY <2>1, NoRecordsType DEF CacheEntry, Outlives
<1> QED
  BY <1>1, <1>2

\* csMatches is MatchesIn for the store of the state.
LEMMA CsMatchesIs ==
  ASSUME NEW k
  PROVE  csMatches(k) = MatchesIn(cs, k)
  BY DEF csMatches, MatchesIn, isStale

\* Incoming Interests.  One that is forwarded has no answer in the store: either it
\* was looked for, or the entry is pending.
LEMMA InterestCache ==
  ASSUME Inv, CacheInv, NEW f \in Face, NEW k \in Kind, NEW n \in Nonce, NEW l \in Lifetime,
         onIncomingInterest(f, k, n, l)
  PROVE  CacheInv'
<1>1. CASE onInterestLoop(k)
  <2>1. pit' = Insert(k, EntryOf(k)) /\ cs' = cs /\ kept' = kept
    BY <1>1 DEF onInterestLoop
  <2>2. CacheEntry(k, EntryOf(k), cs)
    BY EntryOfCache
  <2>3. \A p \in kept : p[1] = k => EntryOf(k) = pit[k]
    BY DEF CacheInv, EntryOf
  <2> QED
    BY <2>1, <2>2, <2>3, InsertCache
<1> DEFINE e == cancelTimers(EntryOf(k))
<1>2. /\ IsEntry(e) /\ e.in = EntryOf(k).in /\ e.out = EntryOf(k).out
      /\ e.straggler = NoTimer
  BY EntryOfInv, CancelTimersType DEF Inv
<1>3. CacheEntry(k, e, cs)
  BY <1>2, EntryOfCache DEF CacheEntry
<1> HIDE DEF e
<1>4. ASSUME DOMAIN e.in = {}, NEW d \in csMatches(k), onContentStoreHit(f, k, d, e)
      PROVE  CacheInv'
  <2> DEFINE r == setStragglerTimer(e, TRUE, FreshnessPeriod[d])
  <2>1. /\ r.in = e.in /\ r.out = e.out /\ r.satisfied = TRUE
        /\ r.period = FreshnessPeriod[d]
    BY DEF setStragglerTimer
  <2>2. pit' = Insert(k, r) /\ cs' = cs /\ kept' = Forget(k) \union {<<k, d>>}
    BY <1>4 DEF onContentStoreHit
  <2> HIDE DEF r
  <2>3. CacheEntry(k, r, cs)
    BY <1>3, <2>1 DEF CacheEntry
  <2>4. d \in MatchesIn(cs, k)
    BY <1>4, CsMatchesIs
  <2>5. KeptEntry(k, r, d, cs)
    BY <2>1, <2>3, <2>4 DEF KeptEntry, CacheEntry, MatchesIn
  <2>6. \A p \in kept' : \/ p \in kept /\ (p[1] # k \/ r = pit[k])
                         \/ p[1] = k /\ KeptEntry(k, r, p[2], cs)
    BY <2>2, <2>5 DEF Forget
  <2> QED
    BY <2>2, <2>3, <2>6, InsertCache
<1>5. ASSUME DOMAIN e.in # {} \/ csMatches(k) = {}, onContentStoreMiss(f, k, n, l, e)
      PROVE  CacheInv'
  <2>1. MatchesIn(cs, k) = {}
    BY <1>3, <1>5, CsMatchesIs DEF CacheEntry
  <2>2. PICK r : pit' = Insert(k, r)
    BY <1>2, <1>5, MissKeeps
  <2>3. cs' = cs /\ kept' = Forget(k)
    BY <1>5, Zenon DEF onContentStoreMiss
  <2>4. CacheEntry(k, r, cs)
    BY <2>1 DEF CacheEntry
  <2>5. \A p \in kept' : p \in kept /\ p[1] # k
    BY <2>3 DEF Forget
  <2> QED
    BY <2>2, <2>3, <2>4, <2>5, InsertCache
<1>6. \/ onInterestLoop(k)
      \/ DOMAIN e.in = {} /\ \E d \in csMatches(k) : onContentStoreHit(f, k, d, e)
      \/ (DOMAIN e.in # {} \/ csMatches(k) = {}) /\ onContentStoreMiss(f, k, n, l, e)
  BY Zenon DEF onIncomingInterest, e
<1> QED
  BY <1>1, <1>4, <1>5, <1>6

\* Incoming Data.  What is cached has satisfied every entry that it matches.
LEMMA DataCache ==
  ASSUME Inv, CacheInv, NEW f \in Face, NEW d \in Data, onIncomingData(f, d)
  PROVE  CacheInv'
<1> DEFINE pitMatches == {k \in DOMAIN pit : <<k, d>> \in Matches}
<1>1. \A p \in kept : p[1] \in DOMAIN pit /\ p \in Matches /\ p = <<p[1], p[2]>>
  BY DEF CacheInv, KeptEntry, Inv, RestType
<1>2. CASE pitMatches = {} /\ onDataUnsolicited(f, d)
  <2>1. /\ cs' \in csInserted(d) \/ cs' = cs
        /\ kept' = {p \in kept : p[2] \in DOMAIN cs'} /\ pit' = pit
    BY <1>2 DEF onDataUnsolicited
  <2>2. Inserted(cs, d, cs') /\ IsStore(cs')
    BY <2>1, CsInsertedIs DEF Inserted, CacheInv
  <2>3. \A k \in DOMAIN pit : CacheEntry(k, pit[k], cs')
    <3>1. \A k \in DOMAIN pit : <<k, d>> \notin Matches /\ CacheEntry(k, pit[k], cs)
      BY <1>2 DEF CacheInv
    <3> QED
      BY <2>2, <3>1, OtherEntryCached
  <2>4. ASSUME NEW p \in kept'
        PROVE  p[1] \in DOMAIN pit /\ KeptEntry(p[1], pit[p[1]], p[2], cs')
    <3>1. p \in kept /\ p[2] \in DOMAIN cs' /\ p[2] # d
      BY <1>1, <1>2, <2>1
    <3>2. cs'[p[2]] = cs[p[2]]
      BY <2>2, <3>1 DEF Inserted
    <3> QED
      BY <3>1, <3>2 DEF CacheInv, KeptEntry
  <2> QED
    BY <2>1, <2>2, <2>3, <2>4 DEF CacheInv
<1>3. CASE /\ cs' \in csInserted(d)
           /\ pit' = [k \in DOMAIN pit |->
                        IF k \in pitMatches THEN satisfy(pit[k], f, d) ELSE pit[k]]
           /\ kept' = {p \in kept : p[1] \notin pitMatches /\ p[2] \in DOMAIN cs'} \union
                      {p \in pitMatches \X {d} : holdsCopy(cs', d)}
  <2>1. Inserted(cs, d, cs') /\ IsStore(cs')
    BY <1>3, CsInsertedIs DEF CacheInv
  <2>2. ASSUME NEW k \in DOMAIN pit
        PROVE  CacheEntry(k, pit'[k], cs')
    <3>1. CacheEntry(k, pit[k], cs) /\ IsEntry(pit[k])
      BY DEF CacheInv, Inv, PitInv
    <3>2. CASE k \in pitMatches
      <4>1. pit'[k] = satisfy(pit[k], f, d)
        BY <1>3, <3>2
      <4>2. DOMAIN pit'[k].in = {} /\ pit'[k].out = Drop(pit[k].out, f)
        <5>1. IsSatisfied(satisfy(pit[k], f, d), pit[k], f, d)
          BY <3>1, SatisfyIs, Zenon
        <5> QED
          BY <4>1, <5>1 DEF IsSatisfied
      <4> QED
        BY <2>1, <3>1, <4>1, <4>2, SatisfiedEntryCached
    <3>3. CASE k \notin pitMatches
      BY <1>3, <2>1, <3>1, <3>3, OtherEntryCached
    <3> QED
      BY <3>2, <3>3
  <2>3. ASSUME NEW p \in kept'
        PROVE  p[1] \in DOMAIN pit /\ KeptEntry(p[1], pit'[p[1]], p[2], cs')
    <3>1. CASE p \in kept /\ p[1] \notin pitMatches /\ p[2] \in DOMAIN cs'
      <4>1. p[1] \in DOMAIN pit /\ pit'[p[1]] = pit[p[1]] /\ p[2] # d
        BY <1>1, <1>3, <3>1
      <4>2. cs'[p[2]] = cs[p[2]]
        BY <2>1, <3>1, <4>1 DEF Inserted
      <4> QED
        BY <3>1, <4>1, <4>2 DEF CacheInv, KeptEntry
    <3>2. CASE p \in pitMatches \X {d} /\ holdsCopy(cs', d)
      <4>1. p[1] \in DOMAIN pit /\ p[1] \in pitMatches /\ p[2] = d /\ <<p[1], d>> \in Matches
        BY <3>2
      <4>2. IsEntry(pit[p[1]]) /\ pit'[p[1]] = satisfy(pit[p[1]], f, d)
        BY <1>3, <4>1 DEF Inv, PitInv
      <4>3. /\ pit'[p[1]].out = Drop(pit[p[1]].out, f)
            /\ pit'[p[1]].satisfied = TRUE /\ pit'[p[1]].period = FreshnessPeriod[d]
        <5>1. IsSatisfied(satisfy(pit[p[1]], f, d), pit[p[1]], f, d)
          BY <4>2, SatisfyIs, Zenon
        <5> QED
          BY <4>2, <5>1 DEF IsSatisfied
      <4>4. Outlives(p[1], pit[p[1]].out, d, FreshnessPeriod[d])
        BY <4>2, OutlivesNew DEF IsEntry
      <4>5. Outlives(p[1], pit'[p[1]].out, d, FreshnessPeriod[d])
        BY <4>3, <4>4, OutlivesDrop
      <4>6. d \in DOMAIN cs' /\ cs'[d] = FreshnessPeriod[d]
        BY <3>2 DEF holdsCopy
      <4> QED
        BY <4>1, <4>3, <4>5, <4>6 DEF KeptEntry
    <3> QED
      BY <1>3, <3>1, <3>2
  <2> QED
    BY <1>3, <2>1, <2>2, <2>3 DEF CacheInv
<1> QED
  BY <1>2, <1>3, Zenon DEF onIncomingData

\* Every step keeps CacheInv.
LEMMA NextCache ==
  ASSUME Inv, CacheInv, Next
  PROVE  CacheInv'
<1>1. ASSUME NEW f \in Face, NEW k \in Kind, NEW n \in Nonce, NEW l \in Lifetime,
             onIncomingInterest(f, k, n, l)
      PROVE  CacheInv'
  BY <1>1, InterestCache
<1>2. ASSUME NEW f \in Face, NEW d \in Data, onIncomingData(f, d)
      PROVE  CacheInv'
  BY <1>2, DataCache
<1>3. ASSUME NEW k \in DOMAIN pit, onInterestUnsatisfied(k) \/ onStraggler(k)
      PROVE  CacheInv'
  <2>1. pit' = Erase(k) /\ kept' = Forget(k) /\ cs' = cs
    BY <1>3 DEF onInterestUnsatisfied, onStraggler, onInterestFinalize
  <2> QED
    BY <2>1 DEF CacheInv, Erase, Forget
<1>4. ASSUME NEW f \in Face, removeFace(f)
      PROVE  CacheInv'
  BY <1>4 DEF removeFace, CacheInv
<1>5. ASSUME NEW x \in dnl, dnlEvict(x)
      PROVE  CacheInv'
  BY <1>5 DEF dnlEvict, CacheInv
<1>6. CASE Tick
  <2>1. /\ cs' = [d \in DOMAIN cs |->
                    IF FreshnessPeriod[d] = NoPeriod THEN NoPeriod ELSE Elapse(cs[d])]
        /\ DOMAIN pit' = DOMAIN pit /\ \A k \in DOMAIN pit : pit'[k] = AgeEntry(pit[k])
        /\ kept' = kept
    BY <1>6 DEF Tick
  <2>2. IsStore(cs')
    BY <2>1 DEF CacheInv, IsStore, Elapse, Expired, NoPeriod
  <2>3. ASSUME NEW k \in DOMAIN pit
        PROVE  CacheEntry(k, pit'[k], cs')
    <3>1. CacheEntry(k, pit[k], cs) /\ IsEntry(pit[k]) /\ IsStore(cs)
      BY DEF CacheInv, Inv, PitInv
    <3> QED
      BY <2>1, <3>1, CacheEntryAges
  <2>4. ASSUME NEW p \in kept
        PROVE  p[1] \in DOMAIN pit /\ KeptEntry(p[1], pit'[p[1]], p[2], cs')
    <3>1. /\ p[1] \in DOMAIN pit /\ KeptEntry(p[1], pit[p[1]], p[2], cs)
          /\ IsEntry(pit[p[1]]) /\ IsStore(cs)
      BY DEF CacheInv, Inv, PitInv
    <3> QED
      BY <2>1, <3>1, KeptEntryAges
  <2> QED
    BY <2>1, <2>2, <2>3, <2>4 DEF CacheInv
<1> QED
  BY <1>1, <1>2, <1>3, <1>4, <1>5, <1>6, Zenon DEF Next, Arrival, Timers

\* CacheInv holds throughout.
LEMMA CacheHolds == Spec => []CacheInv
<1>1. Init => CacheInv
  BY DEF Init, CacheInv, IsStore
<1>2. CacheInv /\ UNCHANGED vars => CacheInv'
  BY DEF vars, CacheInv
<1> QED
  BY InvHolds, NextCache, <1>1, <1>2, PTL DEF Spec

\* No Interest waits in the PIT while the Content Store could answer it, whatever is
\* cached, evicted or becomes stale: onIncomingInterest loses nothing when it skips
\* the lookup for a pending entry.
THEOREM PendingUncached == Spec => []PendingNotCached
<1>1. CacheInv => PendingNotCached
  BY CsMatchesIs DEF CacheInv, CacheEntry, PendingNotCached
<1> QED
  BY CacheHolds, <1>1, PTL

\* Why nonce n of kind k need not be in the Dead Nonce List, with e the entry and K
\* the history when it leaves, and c the store afterwards: the last alternative of
\* NonceKept.
Excused(k, n, e, K, c) ==
  /\ e.satisfied
  /\ \A d \in Data : <<k, d>> \in K =>
       \E f \in DOMAIN pit[k].out :
         /\ pit[k].out[f].nonce = n
         /\ AnswersFor(c, k, d, DnlLifetime - pit[k].out[f].age)

\* A step keeps every nonce that was sent, or has a reason not to.
LEMMA StepKeepsNonce ==
  ASSUME Inv, CacheInv, Next, NEW k \in Kind
  PROVE  NonceKept(k)
<1> SUFFICES ASSUME NEW n, n \in OutNonces(k), n \notin OutNonces(k)'
             PROVE  \/ <<NameOf[k], n>> \in dnl'
                    \/ \E x \in outInterest' : x[2] = k
                    \/ Excused(k, n, IF k \in DOMAIN pit' THEN pit'[k] ELSE pit[k],
                               IF k \in DOMAIN pit' THEN kept' ELSE kept, cs')
  BY DEF NonceKept, Excused
<1>0. PICK f \in DOMAIN pit[k].out : k \in DOMAIN pit /\ n = pit[k].out[f].nonce
  BY DEF OutNonces
<1>e. /\ IsEntry(pit[k]) /\ IsRecordCollection(pit[k].out) /\ f \in Face
      /\ pit[k].out[f].age \in 0..AgeCap /\ AgeCap \in Nat
      /\ DnlLifetime \in Nat /\ DnlLifetime < AgeCap
  BY <1>0, CollectionFields, AgeAssumption, NamesAssumption DEF Inv, PitInv, IsEntry
<1>a. ASSUME k \in DOMAIN pit', pit'[k].out = pit[k].out
      PROVE  FALSE
  BY <1>a, <1>0 DEF OutNonces
<1>1. ASSUME NEW g \in Face, NEW j \in Kind, NEW m \in Nonce, NEW l \in Lifetime,
             onIncomingInterest(g, j, m, l)
      PROVE  \E x \in outInterest' : x[2] = k
  <2>1. PICK r : /\ pit' = Insert(j, r)
                 /\ j \in DOMAIN pit /\ outInterest' = {} => r.out = pit[j].out
    BY <1>1, InterestKeeps
  <2>2. \A x \in outInterest' : x[2] = j
    BY <1>1, InterestKeeps
  <2>3. j = k
    BY <1>0, <1>a, <2>1 DEF Insert
  <2>4. outInterest' # {}
    BY <1>0, <1>a, <2>1, <2>3 DEF Insert
  <2> QED
    BY <2>2, <2>3, <2>4
<1>2. ASSUME NEW g \in Face, NEW d \in Data, onIncomingData(g, d)
      PROVE  \/ <<NameOf[k], n>> \in dnl'
             \/ k \in DOMAIN pit' /\ Excused(k, n, pit'[k], kept', cs')
  <2> DEFINE pitMatches == {j \in DOMAIN pit : <<j, d>> \in Matches}
  <2>1. CASE pit' = pit
    BY <1>0, <1>a, <2>1
  <2>2. CASE /\ pit' = [j \in DOMAIN pit |->
                          IF j \in pitMatches THEN satisfy(pit[j], g, d) ELSE pit[j]]
             /\ dnl' = dnl \union UNION {deadNonces(j, pit[j], TRUE, FreshnessPeriod[d], {g}) :
                                           j \in pitMatches}
             /\ kept' = {p \in kept : p[1] \notin pitMatches /\ p[2] \in DOMAIN cs'} \union
                        {p \in pitMatches \X {d} : holdsCopy(cs', d)}
    <3>1. k \in pitMatches /\ k \in DOMAIN pit' /\ pit'[k] = satisfy(pit[k], g, d)
      BY <1>0, <1>a, <2>2
    <3>2. /\ pit'[k].out = Drop(pit[k].out, g)
          /\ pit'[k].satisfied = TRUE /\ pit'[k].period = FreshnessPeriod[d]
      <4>1. IsSatisfied(satisfy(pit[k], g, d), pit[k], g, d)
        BY <1>e, SatisfyIs, Zenon
      <4> QED
        BY <3>1, <4>1 DEF IsSatisfied
    <3>3. f = g
      BY <1>0, <3>1, <3>2 DEF Drop, OutNonces
    <3>4. CASE needDnl(k, TRUE, FreshnessPeriod[d])
      <4>1. <<NameOf[k], n>> \in deadNonces(k, pit[k], TRUE, FreshnessPeriod[d], {g})
        BY <1>0, <3>3, <3>4 DEF deadNonces
      <4> QED
        BY <2>2, <3>1, <4>1
    <3>5. CASE ~needDnl(k, TRUE, FreshnessPeriod[d])
      <4>1. FreshnessPeriod[d] \in Int
        BY PeriodType
      <4>2. k \in MustBeFresh /\ FreshnessPeriod[d] # NoPeriod => FreshnessPeriod[d] >= DnlLifetime
        BY <1>e, <3>5, <4>1 DEF needDnl
      <4>3. ASSUME NEW c \in Data, <<k, c>> \in kept'
            PROVE  AnswersFor(cs', k, c, DnlLifetime - pit[k].out[f].age)
        <5>1. c = d /\ d \in DOMAIN cs' /\ cs'[d] = FreshnessPeriod[d]
          BY <2>2, <3>1, <4>3 DEF holdsCopy
        <5>2. k \in MustBeFresh /\ FreshnessPeriod[d] # NoPeriod =>
                cs'[d] >= DnlLifetime - pit[k].out[f].age
          BY <1>e, <4>1, <4>2, <5>1
        <5> QED
          BY <3>1, <5>1, <5>2 DEF AnswersFor
      <4>4. Excused(k, n, pit'[k], kept', cs')
        BY <1>0, <3>2, <4>3 DEF Excused
      <4> QED
        BY <3>1, <4>4
    <3> QED
      BY <3>4, <3>5
  <2> QED
    BY <1>2, <2>1, <2>2, Zenon DEF onIncomingData, onDataUnsolicited
<1>3. ASSUME NEW j \in DOMAIN pit, onInterestUnsatisfied(j) \/ onStraggler(j)
      PROVE  \/ <<NameOf[k], n>> \in dnl'
             \/ k \notin DOMAIN pit' /\ Excused(k, n, pit[k], kept, cs')
  <2>1. pit' = Erase(j) /\ cs' = cs
    BY <1>3 DEF onInterestUnsatisfied, onStraggler, onInterestFinalize
  <2>2. j = k /\ k \notin DOMAIN pit'
    BY <1>0, <1>a, <2>1 DEF Erase
  <2>3. PICK sat, period : /\ sat => sat = pit[k].satisfied /\ period = pit[k].period
                           /\ onInterestFinalize(k, sat, period)
    BY <1>3, <2>2 DEF onInterestUnsatisfied, onStraggler
  <2>4. CASE needDnl(k, sat, period)
    BY <1>0, <1>e, <2>3, <2>4 DEF onInterestFinalize, deadNonces
  <2>5. CASE ~needDnl(k, sat, period)
    <3>1. pit[k].satisfied
      BY <2>3, <2>5 DEF needDnl
    <3>2. ~(k \in MustBeFresh /\ pit[k].period # NoPeriod /\ pit[k].period < DnlLifetime)
      BY <2>3, <2>5 DEF needDnl
    <3>3. ASSUME NEW d \in Data, <<k, d>> \in kept
          PROVE  AnswersFor(cs, k, d, DnlLifetime - pit[k].out[f].age)
      <4>1. KeptEntry(k, pit[k], d, cs)
        BY <3>3 DEF CacheInv
      <4>2. /\ pit[k].period = FreshnessPeriod[d] /\ FreshnessPeriod[d] \in Int
            /\ d \in DOMAIN cs /\ <<k, d>> \in Matches /\ cs[d] \in Int /\ cs[d] >= -1
        BY <4>1, PeriodType DEF KeptEntry, CacheInv, IsStore
      <4>3. ASSUME k \in MustBeFresh, FreshnessPeriod[d] # NoPeriod
            PROVE  cs[d] >= DnlLifetime - pit[k].out[f].age
        <5>1. FreshnessPeriod[d] >= DnlLifetime
          BY <1>e, <3>2, <4>2, <4>3
        <5>2. \/ pit[k].out[f].age >= AgeCap
              \/ pit[k].out[f].age + cs[d] >= FreshnessPeriod[d]
          BY <1>0, <4>1, <4>3 DEF KeptEntry, Outlives
        <5> QED
          BY <1>e, <4>2, <5>1, <5>2
      <4> QED
        BY <4>2, <4>3 DEF AnswersFor
    <3> QED
      BY <1>0, <2>1, <2>2, <3>1, <3>3 DEF Excused
  <2> QED
    BY <2>4, <2>5
<1>4. ASSUME NEW g \in Face, removeFace(g)
      PROVE  FALSE
  BY <1>0, <1>a, <1>4 DEF removeFace
<1>5. ASSUME NEW x \in dnl, dnlEvict(x)
      PROVE  FALSE
  BY <1>0, <1>a, <1>5 DEF dnlEvict
<1>6. ASSUME Tick
      PROVE  FALSE
  <2>1. pit'[k] = AgeEntry(pit[k]) /\ k \in DOMAIN pit'
    BY <1>0, <1>6 DEF Tick
  <2>2. f \in DOMAIN pit'[k].out /\ pit'[k].out[f].nonce = n
    BY <1>0, <2>1 DEF AgeEntry, AgeRecord
  <2> QED
    BY <2>1, <2>2 DEF OutNonces
<1> HIDE DEF Excused
<1>7. CASE k \in DOMAIN pit'
  BY <1>1, <1>2, <1>3, <1>4, <1>5, <1>6, <1>7, Zenon DEF Next, Arrival, Timers
<1>8. CASE k \notin DOMAIN pit'
  BY <1>1, <1>2, <1>3, <1>4, <1>5, <1>6, <1>8, Zenon DEF Next, Arrival, Timers
<1> QED
  BY <1>7, <1>8

----------------------------------------------------------------------------

\* No pipeline, timer or face removal drops a downstream that still waits.
THEOREM DownstreamsKept == Spec => NoDownstreamForgotten
<1>1. ASSUME Inv, [Next]_vars
      PROVE  [\A k \in Kind, f \in Face : DownstreamKept(k, f)]_vars
  BY <1>1, StepKeepsDownstream
<1> QED
  BY <1>1, InvHolds, PTL DEF Spec, NoDownstreamForgotten

\* No pipeline or timer forgets a nonce that was sent while it can still come back,
\* if the Content Store has kept the Data that answered it.
THEOREM NoncesKept == Spec => NonceNotForgotten
<1>1. ASSUME Inv, CacheInv, [Next]_vars
      PROVE  [\A k \in Kind : NonceKept(k)]_vars
  BY <1>1, StepKeepsNonce
<1> QED
  BY <1>1, InvHolds, CacheHolds, PTL DEF Spec, NonceNotForgotten
=============================================================================
