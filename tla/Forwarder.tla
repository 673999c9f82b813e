----------------------------- MODULE Forwarder -----------------------------
(***************************************************************************)
(* The forwarding pipelines of one node (NFD/daemon/fw/forwarder.cpp) over *)
(* its PIT, Content Store and Dead Nonce List.                             *)
(*                                                                         *)
(* An Interest is a kind (Name and Selectors: the key of a PIT entry), a   *)
(* nonce and a lifetime.  Packets arrive from any face at any time; the    *)
(* scheduler runs a timer at the instant it is due, before time passes,    *)
(* but a packet may be handled at that instant first.                      *)
(*                                                                         *)
(* The Content Store keeps what a replacement policy lets it keep: an      *)
(* insertion evicts any entries.  The Dead Nonce List (module              *)
(* DeadNonceList) is a set that may forget an entry at any time.           *)
(***************************************************************************)
EXTENDS Strategies, Sequences

CONSTANTS
  Kind, Data,
  NameOf,            \* the Name of a kind
  ScopeOf,           \* of a kind: "localhost", "localhop" or "none"
  MustBeFresh,       \* the kinds with the MustBeFresh selector
  StrategyOf,        \* the effective strategy of a kind
  NextHops,          \* of a kind: the faces the FIB gives, lowest cost first
  Matches,           \* {<<k, d>> : Interest::matchesData}
  LocalhostData,     \* the Data under /localhost
  FreshnessPeriod,   \* of a Data, or NoPeriod
  DnlLifetime,       \* m_deadNonceList.getLifetime()
  Removable,         \* the faces that may fail
  Arrivals           \* the Interests that may arrive: {<<face, kind, nonce, lifetime>>}

ASSUME NamesAssumption ==
  /\ ScopeOf \in [Kind -> {"localhost", "localhop", "none"}]
  /\ StrategyOf \in [Kind -> {"multicast", "best-route", "best-route2"}]
  /\ NextHops \in [Kind -> Seq(Face)]
  /\ MustBeFresh \subseteq Kind
  /\ Matches \subseteq Kind \X Data
  /\ DnlLifetime \in Nat /\ DnlLifetime < AgeCap
  /\ Removable \subseteq Face
  /\ LocalhostData \subseteq Data
  \* an Interest's Name is a prefix of the Name of a Data it matches
  /\ \A m \in Matches : ScopeOf[m[1]] = "localhost" => m[2] \in LocalhostData

ASSUME FreshnessAssumption ==
  \A d \in Data : FreshnessPeriod[d] \in Nat \union {NoPeriod}

VARIABLES
  pit,       \* the PIT: a function from the kinds that have an entry
  cs,        \* the cached Data, with the time each stays fresh
  dnl,       \* {<<Name, nonce>>} of the Dead Nonce List
  up,        \* the faces in the face table
  outInterest, outData, \* what the last step sent: {<<face, kind, nonce>>}, {<<face, Data>>}
  kept       \* history: {<<k, d>>} where d was the last to satisfy the entry of
             \* kind k, and the Content Store has kept that copy of it since

vars == <<pit, cs, dnl, up, outInterest, outData, kept>>

----------------------------------------------------------------------------

Insert(k, e) == [j \in DOMAIN pit \union {k} |-> IF j = k THEN e ELSE pit[j]]
Erase(k) == [j \in DOMAIN pit \ {k} |-> pit[j]]

\* Pit::insert finds the entry of the same Name and Selectors or makes one.
EntryOf(k) == IF k \in DOMAIN pit THEN pit[k] ELSE newEntry

\* The FIB entry's next hops: a face that is removed leaves the FIB.
nexthops(k) == [i \in {j \in DOMAIN NextHops[k] : NextHops[k][j] \in up} |-> NextHops[k][i]]

\* Cs::find: a fresh enough match (isStale: the stale time has passed).
isStale(d) == FreshnessPeriod[d] # NoPeriod /\ cs[d] < 0
csMatches(k) ==
  {d \in DOMAIN cs : <<k, d>> \in Matches /\ (k \in MustBeFresh => ~isStale(d))}

\* The Content Store after Cs::insert(d), for every choice of evicted entries;
\* a Data with CachingPolicy NO_CACHE changes nothing.
csInserted(d) ==
  {[c \in K |-> IF c = d THEN FreshnessPeriod[d] ELSE cs[c]] :
     K \in SUBSET (DOMAIN cs \union {d})} \union {cs}

\* Forwarder::onOutgoingData on each of `faces'.
onOutgoingData(d, faces) ==
  {<<f, d>> : f \in {g \in faces \intersect up : d \in LocalhostData => g \in LocalFace}}

\* Mutant of needDnl: satisfied Interests are never entered.
needDnlIfUnsatisfied(k, isSatisfied, period) == ~isSatisfied

\* What insertDeadNonceList adds for the out-records of `faces'.
needDnl(k, isSatisfied, period) ==
  isSatisfied => k \in MustBeFresh /\ period # NoPeriod /\ period < DnlLifetime

deadNonces(k, e, isSatisfied, period, faces) ==
  IF needDnl(k, isSatisfied, period)
  THEN {<<NameOf[k], e.out[f].nonce>> : f \in DOMAIN e.out \intersect faces}
  ELSE {}

\* History: no Data satisfies the entry of kind k any more.
Forget(k) == {p \in kept : p[1] # k}

\* The store has Data d as it has just arrived.
holdsCopy(store, d) == d \in DOMAIN store /\ store[d] = FreshnessPeriod[d]

----------------------------------------------------------------------------
(* Interests                                                               *)

\* Mutant of onInterestReject: no straggler timer is set.
onInterestRejectUntimed(e) ==
  IF hasUnexpiredOutRecords(e) THEN e ELSE cancelTimers(e)

\* Forwarder::onInterestReject
onInterestReject(e) ==
  IF hasUnexpiredOutRecords(e) THEN e
  ELSE setStragglerTimer(cancelTimers(e), FALSE, NoPeriod)

\* Forwarder::onContentStoreMiss for the entry e, with the strategy's
\* decision carried out: onOutgoingInterest on each face, then a rejection.
onContentStoreMiss(f, k, n, l, e) ==
  LET pending == setUnsatisfyTimer(insertOrUpdateInRecord(e, f, n, l))
      decision == afterReceiveInterest(StrategyOf[k], pending, ScopeOf[k], nexthops(k), f)
      faces == {g \in decision.faces : ~violatesScope(pending, ScopeOf[k], g)}
  IN  \E picked \in [faces -> DOMAIN pending.in] :
        LET sent == insertOrUpdateOutRecords(
                      [pending EXCEPT !.interval = decision.interval], faces, picked)
        IN  /\ \A g \in faces : picked[g] \in pickInterest(pending, g)
            /\ pit' = Insert(k, IF decision.reject THEN onInterestReject(sent) ELSE sent)
            /\ outInterest' = {<<g, k, pending.in[picked[g]].nonce>> : g \in faces}
            /\ outData' = {}
            /\ kept' = Forget(k)
            /\ UNCHANGED <<cs, dnl, up>>

\* Forwarder::onContentStoreHit
onContentStoreHit(f, k, d, e) ==
  /\ pit' = Insert(k, setStragglerTimer(e, TRUE, FreshnessPeriod[d]))
  /\ outData' = onOutgoingData(d, {f})
  /\ outInterest' = {}
  /\ kept' = Forget(k) \union {<<k, d>>}
  /\ UNCHANGED <<cs, dnl, up>>

\* Forwarder::onInterestLoop; Pit::insert has been done already.
onInterestLoop(k) ==
  /\ pit' = Insert(k, EntryOf(k))
  /\ outInterest' = {} /\ outData' = {}
  /\ UNCHANGED <<cs, dnl, up, kept>>

hasDuplicateNonce(k, n) == findNonce(EntryOf(k), n) \/ <<NameOf[k], n>> \in dnl

onIncomingInterest(f, k, n, l) ==
  /\ f \in up
  /\ ScopeOf[k] = "localhost" => f \in LocalFace    \* otherwise dropped at once
  /\ \/ /\ hasDuplicateNonce(k, n)
        /\ onInterestLoop(k)
     \/ /\ ~hasDuplicateNonce(k, n)
        /\ LET e == cancelTimers(EntryOf(k))
           IN  \/ /\ DOMAIN e.in = {}
                  /\ \E d \in csMatches(k) : onContentStoreHit(f, k, d, e)
               \/ /\ DOMAIN e.in # {} \/ csMatches(k) = {}
                  /\ onContentStoreMiss(f, k, n, l, e)

----------------------------------------------------------------------------
(* Data                                                                    *)

\* The in-records whose faces the Data is sent to.
pendingDownstreams(e) == {f \in DOMAIN e.in : e.in[f].left > 0}

\* Mutant of satisfy: the in-records stay, as if the entry were still pending.
satisfyKeepingInRecords(e, f, d) ==
  setStragglerTimer(deleteOutRecord(cancelTimers(e), f), TRUE, FreshnessPeriod[d])

\* What onIncomingData does to each matching entry.
satisfy(e, f, d) ==
  setStragglerTimer(deleteOutRecord(deleteInRecords(cancelTimers(e)), f),
                    TRUE, FreshnessPeriod[d])

onDataUnsolicited(f, d) ==
  /\ IF f \in LocalFace THEN cs' \in csInserted(d) ELSE UNCHANGED cs
  /\ kept' = {p \in kept : p[2] \in DOMAIN cs'}
  /\ outInterest' = {} /\ outData' = {}
  /\ UNCHANGED <<pit, dnl, up>>

onIncomingData(f, d) ==
  LET pitMatches == {k \in DOMAIN pit : <<k, d>> \in Matches}
  IN  /\ f \in up
      /\ d \in LocalhostData => f \in LocalFace           \* otherwise dropped at once
      /\ \/ pitMatches = {} /\ onDataUnsolicited(f, d)
         \/ /\ pitMatches # {}
            /\ cs' \in csInserted(d)
            /\ dnl' = dnl \union UNION {deadNonces(k, pit[k], TRUE, FreshnessPeriod[d], {f}) :
                                          k \in pitMatches}
            /\ pit' = [k \in DOMAIN pit |->
                         IF k \in pitMatches THEN satisfy(pit[k], f, d) ELSE pit[k]]
            /\ outData' = onOutgoingData(d, UNION {pendingDownstreams(pit[k]) :
                                                     k \in pitMatches})
            /\ outInterest' = {}
            /\ kept' = {p \in kept : p[1] \notin pitMatches /\ p[2] \in DOMAIN cs'} \union
                       {p \in pitMatches \X {d} : holdsCopy(cs', d)}
            /\ UNCHANGED up

----------------------------------------------------------------------------
(* Timers, faces and the passing of time                                   *)

\* Forwarder::onInterestFinalize
onInterestFinalize(k, isSatisfied, period) ==
  /\ dnl' = dnl \union deadNonces(k, pit[k], isSatisfied, period, Face)
  /\ pit' = Erase(k)
  /\ kept' = Forget(k)
  /\ outInterest' = {} /\ outData' = {}
  /\ UNCHANGED <<cs, up>>

\* Forwarder::onInterestUnsatisfied, run by the unsatisfy timer.
onInterestUnsatisfied(k) ==
  /\ pit[k].unsatisfy = 0
  /\ onInterestFinalize(k, FALSE, NoPeriod)

\* onInterestFinalize, run by the straggler timer.
onStraggler(k) ==
  /\ pit[k].straggler = 0
  /\ onInterestFinalize(k, pit[k].satisfied, pit[k].period)

\* FaceTable::remove: the face gets INVALID_FACEID and leaves the FIB; PIT
\* records still refer to it.
removeFace(f) ==
  /\ f \in Removable \intersect up
  /\ up' = up \ {f}
  /\ outInterest' = {} /\ outData' = {}
  /\ UNCHANGED <<pit, cs, dnl, kept>>

\* The Dead Nonce List evicts an entry.
dnlEvict(x) ==
  /\ dnl' = dnl \ {x}
  /\ outInterest' = {} /\ outData' = {}
  /\ UNCHANGED <<pit, cs, up, kept>>

Tick ==
  /\ \A k \in DOMAIN pit : pit[k].unsatisfy # 0 /\ pit[k].straggler # 0
  /\ pit' = [k \in DOMAIN pit |-> AgeEntry(pit[k])]
  /\ cs' = [d \in DOMAIN cs |->
              IF FreshnessPeriod[d] = NoPeriod THEN NoPeriod ELSE Elapse(cs[d])]
  /\ outInterest' = {} /\ outData' = {}
  /\ UNCHANGED <<dnl, up, kept>>

Init ==
  /\ pit = [k \in {} |-> newEntry]
  /\ cs = [d \in {} |-> NoPeriod]
  /\ dnl = {}
  /\ up = Face
  /\ outInterest = {} /\ outData = {} /\ kept = {}

Arrival ==
  \/ \E f \in Face, k \in Kind, n \in Nonce, l \in Lifetime :
       <<f, k, n, l>> \in Arrivals /\ onIncomingInterest(f, k, n, l)
  \/ \E f \in Face, d \in Data : onIncomingData(f, d)

Timers ==
  \E k \in DOMAIN pit : onInterestUnsatisfied(k) \/ onStraggler(k)

Next ==
  \/ Arrival
  \/ Timers
  \/ \E f \in Face : removeFace(f)
  \/ \E x \in dnl : dnlEvict(x)
  \/ Tick

\* The scheduler runs what is due and simulated time advances.
Fairness == WF_vars(Timers) /\ WF_vars(Tick)

Spec == Init /\ [][Next]_vars /\ Fairness

----------------------------------------------------------------------------
(* Properties                                                              *)

TypeOK ==
  /\ DOMAIN pit \subseteq Kind /\ \A k \in DOMAIN pit : IsEntry(pit[k])
  /\ DOMAIN cs \subseteq Data /\ \A d \in DOMAIN cs : cs[d] \in Int
  /\ dnl \subseteq {NameOf[k] : k \in Kind} \X Nonce
  /\ up \subseteq Face
  /\ outInterest \subseteq Face \X Kind \X Nonce
  /\ outData \subseteq Face \X Data
  /\ kept \subseteq Kind \X Data

\* Whatever order Interests, Data, rejections and timers come in, every entry
\* is watched as TimersCoverEntry says: one timer and no more for an entry with
\* in-records, due neither before nor after the last of them expires.
TimersCoverInRecords == \A k \in DOMAIN pit : TimersCoverEntry(pit[k])

Pending(k, f) == k \in DOMAIN pit /\ f \in DOMAIN pit[k].in /\ pit[k].in[f].left > 0

\* Pending face f of kind k loses its in-record only for a reason.  The Data that
\* comes from f itself is sent back to f as well (forwarder.cpp:399-405), which
\* forwarder.t.cpp:423 expects not to happen; nothing is asked of that case.
DownstreamKept(k, f) ==
  Pending(k, f) /\ ~Pending(k, f)' =>
    \/ \E g \in Face, d \in Data :
         /\ onIncomingData(g, d) /\ <<k, d>> \in Matches
         /\ \/ <<f, d>> \in outData'
            \/ f = g \/ f \notin up \/ (d \in LocalhostData /\ f \notin LocalFace)
    \/ pit[k].in[f].left = 1 /\ Tick
    \/ 0 \in Lifetime /\ \E n \in Nonce : onIncomingInterest(f, k, n, 0)
    \/ pit[k].straggler = 0 /\ ~pit[k].satisfied

\* No downstream is forgotten: while its Interest has not expired, a pending
\* face stays pending until a matching Data comes, which that step sends to it
\* (unless the Data came from that face, the face is gone, or must not get a
\* Data under /localhost), its time is up, it asks again with a lifetime of
\* zero, or the entry was rejected and its straggler timer is due.
NoDownstreamForgotten == [][\A k \in Kind, f \in Face : DownstreamKept(k, f)]_vars

\* An Interest waits in the PIT only if the Content Store has no answer to it.
\* onIncomingInterest does not look into the store for an entry with in-records
\* (forwarder.cpp:112): Data that is cached by an Interest of other Selectors,
\* or unsolicited, must have satisfied the entry in the same step.
PendingNotCached == \A k \in DOMAIN pit : DOMAIN pit[k].in # {} => csMatches(k) = {}

OutNonces(k) == IF k \in DOMAIN pit THEN {pit[k].out[f].nonce : f \in DOMAIN pit[k].out} ELSE {}

\* The Content Store `store' answers Interests of kind k with Data d for another t.
AnswersFor(store, k, d, t) ==
  /\ d \in DOMAIN store /\ <<k, d>> \in Matches
  /\ k \in MustBeFresh /\ FreshnessPeriod[d] # NoPeriod => store[d] >= t

\* A nonce leaves the out-records of kind k only for the Dead Nonce List, a younger
\* nonce, or because the entry e was satisfied, with K the history then.  If the
\* store still has the Data, it answers until the nonce is DnlLifetime old.
NonceKept(k) ==
  LET e == IF k \in DOMAIN pit' THEN pit'[k] ELSE pit[k]
      K == IF k \in DOMAIN pit' THEN kept' ELSE kept
  IN  \A n \in OutNonces(k) \ OutNonces(k)' :
        \/ <<NameOf[k], n>> \in dnl'
        \/ \E x \in outInterest' : x[2] = k
        \/ /\ e.satisfied
           /\ \A d \in Data : <<k, d>> \in K =>
                \E f \in DOMAIN pit[k].out :
                  /\ pit[k].out[f].nonce = n
                  /\ AnswersFor(cs', k, d, DnlLifetime - pit[k].out[f].age)

\* Loop detection has no gap at the end of an entry but one: a nonce that leaves
\* the out-records is in the Dead Nonce List from that step on, unless a younger
\* one was sent in its place or the Data that satisfied the entry is cached, and
\* then the Content Store answers a looping Interest for DnlLifetime from the
\* moment the nonce was sent.  The gap is Data that the store has let go (evicted,
\* or NO_CACHE): its nonces are then neither here nor there.
NonceNotForgotten == [][\A k \in Kind : NonceKept(k)]_vars

\* An entry with in-records that no Interest has just joined or renewed.
Waiting(k) ==
  /\ k \in DOMAIN pit /\ DOMAIN pit[k].in # {}
  /\ \A f \in DOMAIN pit[k].in : pit[k].in[f].age > 0

\* A pending Interest is satisfied, rejected or expires, whatever other packets
\* come: no entry waits for ever without another Interest joining it.
PendingResolved == \A k \in Kind : Waiting(k) ~> ~Waiting(k)

\* "The outgoing Interest picked is the last incoming Interest that does not
\* come from outFace" (forwarder.cpp:197): no later Interest from another face
\* than outFace is pending when one is sent.
LastIncomingPicked ==
  \A x \in outInterest :
    LET in == pit[x[2]].in
        others == DOMAIN in \ {x[1]}
    IN  others # {} =>
          \E g \in others : in[g].nonce = x[3] /\ \A h \in others : in[g].age <= in[h].age

\* "PIT entry has already been satisfied (and is now waiting for straggler
\* timer to expire)" (ncc-strategy.cpp:195, of an entry without in-records).
EmptyEntryIsStraggling ==
  \A k \in DOMAIN pit : DOMAIN pit[k].in = {} => pit[k].straggler # NoTimer
=============================================================================
