---------------------------- MODULE ContentStore ----------------------------
(***************************************************************************)
(* NFD's Content Store (daemon/table/cs.cpp) with its two replacement      *)
(* policies (cs-policy-lru.cpp, cs-policy-priority-fifo.cpp): the ordered  *)
(* table of cached Data, the cleanup index each policy keeps beside it,    *)
(* and the timers by which the priority FIFO policy learns that a packet's *)
(* freshness has ended.                                                    *)
(*                                                                         *)
(* A Data packet stands for its full Name; the packets are numbered in the *)
(* order of the table.  An Interest is what Cs::find asks of it: which     *)
(* packets match its selectors, whether only fresh ones will do, which     *)
(* end to start from, and under which child of its Name a packet lies.     *)
(* Data that carries the NO_CACHE policy changes nothing and has no action.*)
(***************************************************************************)
EXTENDS Integers, Sequences, SequencesExt, FiniteSets

CONSTANTS
  Data,       \* the Data packets, numbered in the order of the table
  NameOf,     \* the Name of a packet, without the digest that ends its full Name
  Freshness,  \* [Data -> Int]: FreshnessPeriod, negative when not set
  Interests,  \* the lookups
  Limits,     \* the capacities of configuration files
  Policies,   \* the replacement policies
  MaxTime     \* bound: the clock stops here

ASSUME ContentStoreAssumption ==
  /\ IsFiniteSet(Data) /\ Data = 1 .. Cardinality(Data)
  /\ Freshness \in [Data -> Int]
  /\ Limits \subseteq Nat \ {0}
  /\ Policies \subseteq {"lru", "fifo"}
  /\ MaxTime \in Nat

(* Packets of one Name, which differ in their digests, are neighbours. *)
ASSUME NameOfAssumption ==
  \A d, e, f \in Data :
    d <= e /\ e <= f /\ NameOf[d] = NameOf[f] => NameOf[e] = NameOf[d]

(* i.child[d] is the number of the child of the Interest's Name under which *)
(* d lies, 0 when d has exactly that Name and -1 when it does not lie under *)
(* it.  The table is ordered by full Name: a Name comes before the Names    *)
(* under its children, and these come child by child.  i.full: the Interest *)
(* has a full Name, that of one packet, longer than the packet's Name.      *)
ASSUME InterestAssumption ==
  \A i \in Interests :
    /\ i.rightmost \in BOOLEAN /\ i.full \in BOOLEAN
    /\ i.child \in [Data -> Nat \union {-1}]
    /\ \A d \in Data : d \in i.matches => i.child[d] >= 0
    /\ i.full => \A d, e \in Data :
         i.child[d] >= 0 /\ i.child[e] >= 0 => d = e /\ i.child[d] > 0
    /\ \A d, e \in Data :
         0 <= i.child[d] /\ 0 <= i.child[e] /\ d <= e => i.child[d] <= i.child[e]

VARIABLES
  table,        \* m_table: the cached Data
  unsolicited,  \* the cached Data with m_isUnsolicited
  staleTime,    \* m_staleTime of every entry, Never for TimePoint::max()
  policy,       \* m_policy
  limit,        \* m_limit
  queues,       \* the policy's queues; the LRU policy has the one "lru"
  queueType,    \* m_entryInfoMap: the queue in which an entry is
  timers,       \* the scheduled moveToStaleQueue events, <<Data, time>>
  now,          \* steady_clock::now()
  recency       \* history: <<d, e>> where the cached d last arrived (LRU: or
                \* was used) before the cached e did

vars == <<table, unsolicited, staleTime, policy, limit, queues, queueType,
          timers, now, recency>>

QueueTypes == {"lru", "unsolicited", "stale", "fifo"}
Never == -1
NoMatch == 0
Outside == -1  \* of a lookup: its iterators have left [first, last)

-----------------------------------------------------------------------------
(* Entries (cs-entry.cpp, cs-entry-impl.cpp). *)

isStale(d) == staleTime[d] # Never /\ staleTime[d] < now

updateStaleTime(d) ==
  [staleTime EXCEPT ![d] = IF Freshness[d] >= 0 THEN now + Freshness[d]
                                                ELSE Never]

canSatisfy(i, d) == d \in i.matches /\ (i.mustBeFresh => ~isStale(d))

-----------------------------------------------------------------------------
(* Lookup (cs.cpp). *)

under(i) == {d \in table : i.child[d] >= 0}

findLeftmost(i, range) ==
  LET sat == {d \in range : canSatisfy(i, d)}
  IN  IF sat = {} THEN NoMatch ELSE Min(sat)

findRightmostAmongExact(i, range) ==
  LET sat == {d \in range : canSatisfy(i, d)}
  IN  IF sat = {} THEN NoMatch ELSE Max(sat)

(* [left, right) of a turn with the packets rest before right: left is the *)
(* first packet of the last one's Name, cut one component after the        *)
(* Interest's.  A full Name is longer than that, so nothing is cut and all *)
(* cached packets of that Name are taken.                                  *)
subNamespace(i, rest) ==
  IF i.full THEN {d \in table : NameOf[d] = NameOf[Max(rest)] /\ d <= Max(rest)}
            ELSE {d \in rest : i.child[d] = i.child[Max(rest)]}

\* Mutant of findRightmost: a child without a match ends the search.
findRightmostFirstChild(i) ==
  LET right == subNamespace(i, under(i))
  IN  IF under(i) = {} THEN NoMatch
      ELSE IF i.child[Max(under(i))] = 0
        THEN findRightmostAmongExact(i, right) ELSE findLeftmost(i, right)

(* The loop's variable is its right end: the packets below it are left.    *)
(* Once left lies before first, right never equals first again.            *)
findRightmost(i) ==
  LET loop[right \in 1 .. Cardinality(Data) + 1] ==
        LET rest == {d \in under(i) : d < right}
        IN  IF rest = {} THEN NoMatch
            ELSE IF i.child[Max(rest)] = 0 THEN findRightmostAmongExact(i, rest)
            ELSE IF findLeftmost(i, subNamespace(i, rest)) # NoMatch
              THEN findLeftmost(i, subNamespace(i, rest))
            ELSE IF Min(subNamespace(i, rest)) \notin rest THEN Outside
            ELSE loop[Min(subNamespace(i, rest))]
  IN  loop[Cardinality(Data) + 1]

find(i) == IF i.rightmost THEN findRightmost(i) ELSE findLeftmost(i, under(i))

-----------------------------------------------------------------------------
(* The cleanup index: a record of the queues, the entry infos and timers.   *)

index == [queues |-> queues, queueType |-> queueType, timers |-> timers]

Only(f, S) == [x \in S |-> f[x]]

Without(q, d) == RemoveAt(q, CHOOSE i \in DOMAIN q : q[i] = d)

(* insertToQueue of the LRU policy: a new entry goes to the end of the     *)
(* queue, one that is already there is relocated to the end.               *)
insertToQueue(ix, d, isNewEntry) ==
  [ix EXCEPT !.queues["lru"] =
     Append(IF isNewEntry THEN @ ELSE Without(@, d), d)]

(* The queue in which attachQueue puts an entry. *)
queueFor(d, uns, stale) ==
  IF d \in uns THEN "unsolicited" ELSE IF stale THEN "stale" ELSE "fifo"

attachQueue(ix, d, uns, stales) ==
  LET type == queueFor(d, uns, stales[d] # Never /\ stales[d] < now)
  IN  [queues    |-> [ix.queues EXCEPT ![type] = Append(@, d)],
       queueType |-> [e \in DOMAIN ix.queueType \union {d} |->
                        IF e = d THEN type ELSE ix.queueType[e]],
       timers    |-> IF type = "fifo" /\ stales[d] # Never
                       THEN ix.timers \union {<<d, now + Freshness[d]>>}
                       ELSE ix.timers]

\* Mutant of canceled: the timer outlives the entry's place in the queue.
canceledNever(ix, D) == ix.timers

(* detachQueue cancels the timer of an entry of the FIFO queue. *)
canceled(ix, D) ==
  {t \in ix.timers : ~(t[1] \in D /\ ix.queueType[t[1]] = "fifo")}

detachQueue(ix, d) ==
  [queues    |-> [ix.queues EXCEPT ![ix.queueType[d]] = Without(@, d)],
   queueType |-> Only(ix.queueType, DOMAIN ix.queueType \ {d}),
   timers    |-> canceled(ix, {d})]

(* How many entries evictEntries takes from the front of each queue when   *)
(* it has to evict n: evictOne empties the queues one after the other.     *)
Clip(n, max) == IF n < 0 THEN 0 ELSE IF n > max THEN max ELSE n

\* Mutant of taken: the FIFO queue is emptied before the stale one.
takenFifoFirst(ix, n) ==
  LET len == [q \in QueueTypes |-> Len(ix.queues[q])]
  IN  [q \in QueueTypes |->
         CASE q = "lru"         -> Clip(n, len["lru"])
           [] q = "unsolicited" -> Clip(n, len["unsolicited"])
           [] q = "fifo" -> Clip(n - len["unsolicited"], len["fifo"])
           [] q = "stale"  -> Clip(n - len["unsolicited"] - len["fifo"],
                                  len["stale"])]

taken(ix, n) ==
  LET len == [q \in QueueTypes |-> Len(ix.queues[q])]
  IN  [q \in QueueTypes |->
         CASE q = "lru"         -> Clip(n, len["lru"])
           [] q = "unsolicited" -> Clip(n, len["unsolicited"])
           [] q = "stale" -> Clip(n - len["unsolicited"], len["stale"])
           [] q = "fifo"  -> Clip(n - len["unsolicited"] - len["stale"],
                                  len["fifo"])]

victims(ix, n) ==
  UNION {{ix.queues[q][i] : i \in 1 .. taken(ix, n)[q]} : q \in QueueTypes}

(* evictEntries: the victims leave the queues, and with the signal         *)
(* beforeEvict the Content Store erases them from its table.               *)
evictEntries(ix, tbl, uns, lim, order) ==
  LET n    == Cardinality(tbl) - lim
      gone == victims(ix, n)
  IN  /\ table' = tbl \ gone
      /\ unsolicited' = uns \ gone
      /\ queues' = [q \in QueueTypes |->
                      SubSeq(ix.queues[q], taken(ix, n)[q] + 1,
                             Len(ix.queues[q]))]
      /\ queueType' = Only(ix.queueType, DOMAIN ix.queueType \ gone)
      /\ timers' = canceled(ix, gone)
      /\ recency' = order \intersect (table' \X table')

-----------------------------------------------------------------------------
(* Operations. *)

\* All that is cached precedes d.
Renewed(d) ==
  {p \in recency : p[1] # d /\ p[2] # d} \union ((table \ {d}) \X {d})

(* Cs::insert of Data that is not cached, with the policy's afterInsert. *)
InsertNew(d, isUnsolicited) ==
  LET uns    == IF isUnsolicited THEN unsolicited \union {d} ELSE unsolicited
      stales == updateStaleTime(d)
      ix     == IF policy = "lru" THEN insertToQueue(index, d, TRUE)
                ELSE attachQueue(index, d, uns, stales)
  IN  /\ d \notin table
      /\ staleTime' = stales
      /\ evictEntries(ix, table \union {d}, uns, limit, Renewed(d))
      /\ UNCHANGED <<policy, limit, now>>

(* Cs::insert of Data that is cached, with the policy's afterRefresh: an   *)
(* unsolicited entry becomes a solicited one, never the other way round.   *)
Refresh(d, isUnsolicited) ==
  LET uns    == IF isUnsolicited THEN unsolicited ELSE unsolicited \ {d}
      stales == updateStaleTime(d)
      ix     == IF policy = "lru" THEN insertToQueue(index, d, FALSE)
                ELSE attachQueue(detachQueue(index, d), d, uns, stales)
  IN  /\ d \in table
      /\ unsolicited' = uns
      /\ staleTime' = stales
      /\ queues' = ix.queues
      /\ queueType' = ix.queueType
      /\ timers' = ix.timers
      /\ recency' = Renewed(d)
      /\ UNCHANGED <<table, policy, limit, now>>

(* Cs::find with a match: the policy's beforeUse.  The FIFO policy does    *)
(* nothing, and neither does a lookup without a match.  What a search that *)
(* is Outside finds is undefined: nothing, or any packet.                  *)
Find(i) ==
  /\ \E match \in table :
       /\ find(i) \in {match, Outside}
       /\ IF policy = "lru"
            THEN /\ queues' = insertToQueue(index, match, FALSE).queues
                 /\ recency' = Renewed(match)
            ELSE UNCHANGED <<queues, recency>>
  /\ UNCHANGED <<table, unsolicited, staleTime, policy, limit, queueType,
                 timers, now>>

\* Mutant of setLimit: the capacity shrinks and nothing is evicted.
setLimitOnly(nMaxPackets) ==
  /\ limit' = nMaxPackets
  /\ UNCHANGED <<table, unsolicited, staleTime, policy, queues, queueType,
                 timers, now, recency>>

(* Cs::setLimit, called when the configuration file is read. *)
setLimit(nMaxPackets) ==
  /\ limit' = nMaxPackets
  /\ evictEntries(index, table, unsolicited, nMaxPackets, recency)
  /\ UNCHANGED <<staleTime, policy, now>>

(* Cs::setPolicy, whose precondition is an empty store. *)
setPolicy(p) ==
  /\ table = {}
  /\ policy' = p
  /\ queues' = [q \in QueueTypes |-> <<>>]
  /\ queueType' = [d \in {} |-> "fifo"]
  /\ UNCHANGED <<table, unsolicited, staleTime, limit, timers, now, recency>>

(* The timer of an entry fires: moveToStaleQueue. *)
moveToStaleQueue(t) ==
  /\ t \in timers /\ t[2] = now
  /\ timers' = timers \ {t}
  /\ queues' = [queues EXCEPT !["fifo"]  = Without(@, t[1]),
                              !["stale"] = Append(@, t[1])]
  /\ queueType' = [queueType EXCEPT ![t[1]] = "stale"]
  /\ UNCHANGED <<table, unsolicited, staleTime, policy, limit, now, recency>>

(* Time passes; the scheduler runs an event at the time it is due. *)
Tick ==
  /\ now < MaxTime
  /\ \A t \in timers : t[2] > now
  /\ now' = now + 1
  /\ UNCHANGED <<table, unsolicited, staleTime, policy, limit, queues,
                 queueType, timers, recency>>

Init ==
  /\ table = {} /\ unsolicited = {} /\ timers = {} /\ recency = {}
  /\ staleTime = [d \in Data |-> Never]
  /\ policy \in Policies
  /\ limit \in Limits
  /\ queues = [q \in QueueTypes |-> <<>>]
  /\ queueType = [d \in {} |-> "fifo"]
  /\ now = 0

Next ==
  \/ \E d \in Data, isUnsolicited \in BOOLEAN :
       InsertNew(d, isUnsolicited) \/ Refresh(d, isUnsolicited)
  \/ \E i \in Interests : Find(i)
  \/ \E nMaxPackets \in Limits : setLimit(nMaxPackets)
  \/ \E p \in Policies : setPolicy(p)
  \/ \E t \in timers : moveToStaleQueue(t)
  \/ Tick

Spec == Init /\ [][Next]_vars

-----------------------------------------------------------------------------
(* Properties. *)

(* The variables have their types and the store never holds more than its  *)
(* limit, the postcondition of Policy::afterInsert and Policy::setLimit.   *)
TypeOK ==
  /\ table \subseteq Data /\ unsolicited \subseteq table
  /\ staleTime \in [Data -> Nat \union {Never}]
  /\ policy \in Policies /\ limit \in Limits /\ now \in 0 .. MaxTime
  /\ queues \in [QueueTypes -> Seq(Data)]
  /\ DOMAIN queueType \subseteq Data
  /\ \A d \in DOMAIN queueType : queueType[d] \in QueueTypes \ {"lru"}
  /\ timers \subseteq Data \X Nat
  /\ Cardinality(table) <= limit

(* Every packet of T is in the queues Q, in one place, and nothing else is. *)
Placed(Q, T) ==
  /\ \A q \in QueueTypes : \A i \in DOMAIN Q[q] : Q[q][i] \in T
  /\ \A d \in T : \E q \in QueueTypes : \E i \in DOMAIN Q[q] : Q[q][i] = d
  /\ \A q, r \in QueueTypes : \A i \in DOMAIN Q[q], j \in DOMAIN Q[r] :
       Q[q][i] = Q[r][j] => q = r /\ i = j

(* A packet is in the queue that its entry info names; the LRU policy has  *)
(* no entry infos and one queue.                                           *)
InItsQueue(Q, types, p) ==
  \A q \in QueueTypes : \A i \in DOMAIN Q[q] :
    IF p = "lru" THEN q = "lru" ELSE q = types[Q[q][i]]

(* Every packet of T has an entry info, and it has a timer if and only if  *)
(* it waits in the FIFO queue for its freshness to end; the timer is due   *)
(* then.  A packet of the FIFO queue is neither unsolicited nor stale.     *)
Timed(types, scheduled, T, uns, stales, p, time) ==
  /\ DOMAIN types = IF p = "lru" THEN {} ELSE T
  /\ scheduled = {<<d, stales[d]>> : d \in
                    {e \in DOMAIN types : types[e] = "fifo"
                                            /\ stales[e] # Never}}
  /\ \A d \in DOMAIN types :
       /\ types[d] = "unsolicited" <=> d \in uns
       /\ types[d] = "fifo" /\ stales[d] # Never => stales[d] >= time

(* The cleanup index agrees with the table, which no code compares and     *)
(* every assertion of the policies relies on: evictOne finds an entry to   *)
(* evict, detachQueue and moveToStaleQueue find the entry's info, and      *)
(* moveToStaleQueue finds the entry in the FIFO queue.                     *)
IndexConsistent ==
  /\ Placed(queues, table)
  /\ InItsQueue(queues, queueType, policy)
  /\ Timed(queueType, timers, table, unsolicited, staleTime, policy, now)

(* The packets an Interest may be answered with. *)
answers(i) == {d \in under(i) : canSatisfy(i, d)}

(* The one lookup whose search leaves the packets under its Name: by a     *)
(* full Name from the right, when that packet is cached and cannot answer  *)
(* (it is stale, say) and one of the same Name comes before it.            *)
Strays(i) ==
  /\ i.rightmost /\ i.full /\ answers(i) = {}
  /\ \E d \in under(i), e \in table : NameOf[e] = NameOf[d] /\ e < d

(* A lookup answers whenever it can, with the packet the ChildSelector     *)
(* asks for: the first one in the table's order, or the first one under    *)
(* the rightmost child that has an answer (the last one when all answers   *)
(* have the Interest's own Name).  The loop of findRightmost walks the     *)
(* children from right to left and must skip the ones without an answer;   *)
(* the lookups that stray are the only ones whose outcome is not defined.  *)
FindAnswers ==
  \A i \in Interests :
    IF Strays(i) THEN find(i) = Outside ELSE
    /\ find(i) = NoMatch <=> answers(i) = {}
    /\ find(i) # NoMatch =>
         /\ find(i) \in answers(i)
         /\ \A d \in answers(i) :
              IF i.rightmost
                THEN /\ i.child[d] <= i.child[find(i)]
                     /\ i.child[d] = i.child[find(i)] =>
                          IF i.child[d] = 0 THEN d <= find(i)
                                            ELSE find(i) <= d
                ELSE find(i) <= d

(* "normal case: [left,right) are under one-component-longer prefix"       *)
(* (cs.cpp:182) than the Interest Name: the walk of findRightmost never    *)
(* leaves the packets under that Name, where its end condition             *)
(* right != first would not hold any more.                                 *)
SearchInRange == \A i \in Interests : find(i) # Outside

Cache == INSTANCE BoundedCache WITH cached <- table, expiry <- staleTime

(* The store with its queues and timers does what BoundedCache promises:   *)
(* it loses a packet only to make room, and always the packet the          *)
(* documentation of the policy names, judged by the clock and by the       *)
(* order of arrival and use and not by the queue the packet is in.         *)
ImplementsBoundedCache == Cache!Spec
=============================================================================
