------------------------------ MODULE PitEntry ------------------------------
(***************************************************************************)
(* A PIT entry (NFD/daemon/table/pit-entry.{hpp,cpp}) as a record, and the *)
(* operations the forwarding pipelines and the strategies perform on it.   *)
(*                                                                         *)
(* Time is counted down: a record keeps `left', the time to its expiry     *)
(* (Expired once that lies in the past), and `age', the time since it was  *)
(* last renewed.  Expiry = now is left = 0.                                *)
(***************************************************************************)
EXTENDS Integers, FiniteSets, FiniteSetsExt

CONSTANTS
  Face, LocalFace,          \* faces, and those with isLocal()
  Nonce,
  Lifetime,                 \* InterestLifetime values
  InitialInterval, MaxInterval,  \* of RetxSuppressionExponential
  StragglerTime,            \* 100 ms in setStragglerTimer
  AgeCap                    \* bound: ages of records saturate here

ASSUME FaceAssumption == IsFiniteSet(Face) /\ LocalFace \subseteq Face

ASSUME TimeAssumption ==
  /\ Lifetime \subseteq Nat
  /\ \E max \in Lifetime : \A l \in Lifetime : l <= max   \* milliseconds of 64 bits
  /\ StragglerTime \in Nat
  /\ InitialInterval \in Nat /\ MaxInterval \in Nat
  /\ InitialInterval <= MaxInterval    \* asserted by RetxSuppressionExponential

NoTimer == -1     \* of a timer: not scheduled
Expired == -1     \* of a record: its expiry has passed

\* FreshnessPeriod of a Data without the field, and the default argument of
\* setStragglerTimer and onInterestFinalize.
NoPeriod == -1

LastLifetime == Max(Lifetime)

\* Neither a comparison of ages of unexpired records nor one with a suppression
\* interval can tell saturated ages apart.
ASSUME AgeAssumption == AgeCap \in Nat /\ AgeCap > LastLifetime + MaxInterval

FaceRecord ==
  [nonce : Nonce, left : Expired..LastLifetime, life : Lifetime, age : 0..AgeCap]

\* InRecordCollection and OutRecordCollection hold one record per face.
IsRecordCollection(recs) == \E F \in SUBSET Face : recs \in [F -> FaceRecord]

NoRecords == [f \in {} |-> f]

\* Elements of the entry: the two collections, m_unsatisfyTimer,
\* m_stragglerTimer with the arguments bound to it, and the interval kept by
\* RetxSuppressionExponential::PitInfo.
newEntry ==
  [in |-> NoRecords, out |-> NoRecords, unsatisfy |-> NoTimer,
   straggler |-> NoTimer, satisfied |-> FALSE, period |-> NoPeriod,
   interval |-> InitialInterval]

IsEntry(e) ==
  /\ e = [in |-> e.in, out |-> e.out, unsatisfy |-> e.unsatisfy,
          straggler |-> e.straggler, satisfied |-> e.satisfied,
          period |-> e.period, interval |-> e.interval]
  /\ IsRecordCollection(e.in) /\ IsRecordCollection(e.out)
  /\ e.unsatisfy \in NoTimer..LastLifetime
  /\ e.straggler \in NoTimer..StragglerTime
  /\ e.satisfied \in BOOLEAN
  /\ e.period \in Int
  /\ e.interval \in InitialInterval..MaxInterval

----------------------------------------------------------------------------
(* Records.                                                                *)

\* FaceRecord::update with an Interest of nonce n and lifetime l.
update(n, l) == [nonce |-> n, left |-> l, life |-> l, age |-> 0]

Put(recs, f, r) == [g \in DOMAIN recs \union {f} |-> IF g = f THEN r ELSE recs[g]]
Drop(recs, f) == [g \in DOMAIN recs \ {f} |-> recs[g]]

insertOrUpdateInRecord(e, f, n, l) ==
  [e EXCEPT !.in = Put(e.in, f, update(n, l))]

deleteInRecords(e) == [e EXCEPT !.in = NoRecords]

deleteOutRecord(e, f) == [e EXCEPT !.out = Drop(e.out, f)]

hasUnexpiredOutRecords(e) == \E f \in DOMAIN e.out : e.out[f].left >= 0

\* findNonce # DUPLICATE_NONCE_NONE
findNonce(e, n) ==
  \/ \E f \in DOMAIN e.in : e.in[f].nonce = n
  \/ \E f \in DOMAIN e.out : e.out[f].nonce = n

hasLocalInRecord(e) == DOMAIN e.in \intersect LocalFace # {}

\* scope is that of the entry's Name: "localhost", "localhop" or "none".
violatesScope(e, scope, f) ==
  /\ f \notin LocalFace
  /\ scope = "localhost" \/ (scope = "localhop" /\ ~hasLocalInRecord(e))

\* This fork accepts an in-record of the face itself.
canForwardTo(e, scope, f) ==
  /\ ~(f \in DOMAIN e.out /\ e.out[f].left >= 0)
  /\ \E g \in DOMAIN e.in : e.in[g].left >= 0
  /\ ~violatesScope(e, scope, f)

----------------------------------------------------------------------------
(* Timers (Forwarder::setUnsatisfyTimer, setStragglerTimer,                *)
(* cancelUnsatisfyAndStragglerTimer).                                      *)

\* Mutant of cancelTimers: the straggler timer is left running.
cancelUnsatisfyTimer(e) == [e EXCEPT !.unsatisfy = NoTimer]

cancelTimers(e) ==
  [in |-> e.in, out |-> e.out, unsatisfy |-> NoTimer, straggler |-> NoTimer,
   satisfied |-> FALSE, period |-> NoPeriod, interval |-> e.interval]

\* Mutant of setUnsatisfyTimer: std::min_element for std::max_element.
setUnsatisfyTimerToFirst(e) ==
  [e EXCEPT !.unsatisfy = Max({Min({e.in[f].left : f \in DOMAIN e.in}), 0})]

\* The expiry of the in-record that expires last.
setUnsatisfyTimer(e) ==
  [e EXCEPT !.unsatisfy = Max({e.in[f].left : f \in DOMAIN e.in})]

setStragglerTimer(e, isSatisfied, period) ==
  [in |-> e.in, out |-> e.out, unsatisfy |-> e.unsatisfy, straggler |-> StragglerTime,
   satisfied |-> isSatisfied, period |-> period, interval |-> e.interval]

----------------------------------------------------------------------------
(* Outgoing Interest pipeline.                                             *)

\* The in-records std::max_element may return for outFace under
\* compare_pickInterest: one not of outFace if there is one, and the one that
\* was renewed first.  Equal ages: the clock is coarser than the code's.
pickInterest(e, f) ==
  LET others == DOMAIN e.in \ {f}
      cands == IF others = {} THEN DOMAIN e.in ELSE others
  IN  {g \in cands : \A h \in cands : e.in[g].age >= e.in[h].age}

\* The out-records written when the in-record picked[f] is sent on each face f
\* of `faces'.
insertOrUpdateOutRecords(e, faces, picked) ==
  [e EXCEPT !.out =
    [f \in DOMAIN e.out \union faces |->
       IF f \in faces THEN update(e.in[picked[f]].nonce, e.in[picked[f]].life)
                      ELSE e.out[f]]]

----------------------------------------------------------------------------
(* The passing of one time unit.                                           *)

Elapse(left) == IF left > 0 THEN left - 1 ELSE Expired

AgeRecord(r) ==
  [nonce |-> r.nonce, left |-> Elapse(r.left), life |-> r.life,
   age |-> IF r.age < AgeCap THEN r.age + 1 ELSE AgeCap]

AgeEntry(e) ==
  [in |-> [f \in DOMAIN e.in |-> AgeRecord(e.in[f])],
   out |-> [f \in DOMAIN e.out |-> AgeRecord(e.out[f])],
   unsatisfy |-> Elapse(e.unsatisfy), straggler |-> Elapse(e.straggler),
   satisfied |-> e.satisfied, period |-> e.period, interval |-> e.interval]

----------------------------------------------------------------------------

\* How the timers of an entry fit its records.  A pending entry has exactly
\* one.  The unsatisfy timer is due when the last in-record expires ("PIT entry
\* expires when InterestLifetime has elapsed for all InRecords",
\* strategy.hpp:100); the straggler timer runs for an entry that was satisfied
\* and has no in-records, or was rejected while no Interest was outstanding
\* upstream.
TimersCoverEntry(e) ==
  /\ DOMAIN e.in # {} => (e.unsatisfy # NoTimer <=> e.straggler = NoTimer)
  /\ e.unsatisfy # NoTimer =>
       /\ \E f \in DOMAIN e.in : e.in[f].left = e.unsatisfy
       /\ \A f \in DOMAIN e.in : e.in[f].left <= e.unsatisfy
  /\ e.straggler # NoTimer =>
       IF e.satisfied THEN DOMAIN e.in = {}
       ELSE DOMAIN e.in # {} /\ ~hasUnexpiredOutRecords(e)
=============================================================================
