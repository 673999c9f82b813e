------------------------------ MODULE NameTree ------------------------------
(***************************************************************************)
(* The name tree of the forwarder (NFD/daemon/table/name-tree.cpp) with    *)
(* the tables that hang on it: FIB and PIT entries, measurements           *)
(* (measurements.cpp) and strategy choices (strategy-choice.cpp), and the  *)
(* strategy information that the ncc and access strategies keep there.     *)
(*                                                                         *)
(* A name is a sequence of components.  A node is a pair of a name and of  *)
(* the bucket whose chain it is in.  Times are what is left of a lifetime. *)
(***************************************************************************)
EXTENDS Integers, FiniteSets, SequencesExt

CONSTANTS
  Names,            \* the names used and their prefixes
  Hash,             \* computeHash
  WORD,             \* the range of the 32-bit words that resize() computes with
  MIN_BUCKETS,      \* m_minNBuckets
  ENLARGE, SHRINK,  \* m_enlargeLoadFactor and m_shrinkLoadFactor, in percent
  Strategies, DEFAULT_STRATEGY,
  FibNames, ChoiceNames, DataNames, \* the names that the tables and Data packets have
  PitKeys,                          \* the Interests: names with selectors
  INITIAL_LIFETIME,       \* Measurements::getInitialLifetime
  MEASUREMENTS_LIFETIME,  \* of NccStrategy
  ME_LIFETIME,            \* of AccessStrategy
  UPDATE_MEASUREMENTS_N_LEVELS

Lifetimes == {INITIAL_LIFETIME, MEASUREMENTS_LIFETIME, ME_LIFETIME}

ASSUME NameTreeAssumption ==
  /\ Names \subseteq Seq(Nat) /\ <<>> \in Names /\ IsFiniteSet(Names)
  /\ \A n \in Names : \A i \in 0..Len(n) : SubSeq(n, 1, i) \in Names
  /\ DEFAULT_STRATEGY \in Strategies
  /\ FibNames \union ChoiceNames \union DataNames \union {k[1] : k \in PitKeys} \subseteq Names
  /\ Lifetimes \subseteq Nat \ {0} /\ UPDATE_MEASUREMENTS_N_LEVELS \in Nat

\* The values of m_nBuckets: a word has the same remainder as the hash that it is cut from.
BucketCounts == {b \in MIN_BUCKETS..WORD : b % MIN_BUCKETS = 0 /\ WORD % b = 0}

\* They are powers of two (1024 is the default minimum and 2^32 the range of a word): one
\* can be doubled or halved.  There are not more names than the largest table is for.
ASSUME BucketAssumption ==
  /\ Hash \in [Names -> Nat] /\ WORD \in Nat /\ MIN_BUCKETS \in Nat \ {0}
  /\ MIN_BUCKETS \in BucketCounts
  /\ \A b \in BucketCounts :
       /\ b # WORD => 2 * b \in BucketCounts
       /\ b # MIN_BUCKETS => b % 2 = 0 /\ b \div 2 \in BucketCounts
  /\ SHRINK \in Nat /\ ENLARGE \in Nat /\ 2 * SHRINK <= ENLARGE
  /\ MIN_BUCKETS * ENLARGE >= 100 /\ Cardinality(Names) <= (WORD * ENLARGE) \div 100

VARIABLES
  tree,       \* nodes, nBuckets (m_nBuckets), nItems (m_nItems), children (m_children)
  fib,        \* names with a FIB entry
  pit,        \* PIT entries: the strategies that keep information there
  measured,   \* measurements entries: what is left of m_expiry, and the same as for pit
  cleanups,   \* scheduled calls of Measurements::cleanup: name and time left
  choice,     \* strategy choice entries
  failed,     \* an assertion failed
  promised,   \* history: for how long the measurements of a name were to be kept
  changed     \* history: a strategy was changed when there were measurements

tables == <<fib, pit, measured, cleanups, choice>>
vars == <<tree, tables, failed, promised, changed>>

----------------------------------------------------------------------------
(* The hash table and the tree                                             *)

\* A name and the names above it (Name::getPrefix).
UpTo == [n \in Names |-> {a \in Names : IsPrefix(a, n)}]
Longest(S) == CHOOSE a \in S : \A b \in S : Len(b) <= Len(a)

present(t) == {x[1] : x \in t.nodes}
findExactMatch(t, n) == <<n, Hash[n] % t.nBuckets>> \in t.nodes

\* Mutant of resize: nodes stay in their chains.
resizeInPlace(t, k) == [t EXCEPT !.nBuckets = k]

resize(t, k) ==
  [t EXCEPT !.nodes = {<<x[1], (Hash[x[1]] % WORD) % k>> : x \in @}, !.nBuckets = k]

\* Mutant of insert: the new entry is not counted.
insertUncounted(t, n) ==
  IF findExactMatch(t, n) THEN t
  ELSE [t EXCEPT !.nodes = @ \union {<<n, Hash[n] % t.nBuckets>>}]

insert(t, n) ==
  IF findExactMatch(t, n) THEN t
  ELSE [t EXCEPT !.nodes = @ \union {<<n, Hash[n] % t.nBuckets>>},
                 !.nItems = @ + 1,
                 !.children = [a \in Names |-> IF n # <<>> /\ a = Front(n) THEN @[a] \union {n}
                                               ELSE @[a]]]

enlarged(t) ==
  IF t.nItems > (t.nBuckets * ENLARGE) \div 100 THEN resize(t, 2 * t.nBuckets) ELSE t
shrunk(t) ==
  IF t.nBuckets \div 2 >= MIN_BUCKETS /\ t.nItems < (t.nBuckets * SHRINK) \div 100
  THEN resize(t, t.nBuckets \div 2) ELSE t

\* The prefixes from the root on.
lookup(t, n) ==
  LET walk[i \in 0..Len(n) + 1] ==
        IF i = 0 THEN t ELSE enlarged(insert(walk[i - 1], SubSeq(n, 1, i - 1)))
  IN  walk[Len(n) + 1]

\* Mutant of emptied: the walk up stops at the parent.
emptiedWithoutParents(t, held, n) == {n} \ (held \union {a \in Names : t.children[a] # {}})

\* The entries that the recursion of eraseEntryIfEmpty erases: nothing is attached to them,
\* and their only child is the one erased before.
emptied(t, held, n) ==
  {a \in UpTo[n] : \A b \in UpTo[n] :
     Len(b) >= Len(a) => b \notin held /\ t.children[b] \subseteq UpTo[n]}

\* Each call of the recursion checks the size on its way back.
eraseEntryIfEmpty(t, held, n) ==
  LET gone == emptied(t, held, n)
      left == [t EXCEPT !.nodes = {x \in @ : x[1] \notin gone},
                        !.nItems = @ - Cardinality(gone),
                        !.children = [a \in Names |-> @[a] \ gone]]
      resized[i \in 0..Cardinality(gone)] == IF i = 0 THEN left ELSE shrunk(resized[i - 1])
  IN  resized[Cardinality(gone)]

attached(f, p, m, c) == f \union {k[1] : k \in DOMAIN p} \union DOMAIN m \union DOMAIN c

----------------------------------------------------------------------------
(* Strategy choices                                                        *)

\* By name, through the hash table; from an entry, up the tree.
findEffectiveStrategy(n) ==
  choice[Longest({a \in UpTo[n] : a \in DOMAIN choice /\ findExactMatch(tree, a)})]
effective(n) == choice[Longest(UpTo[n] \intersect DOMAIN choice)]

\* Mutant of covered: only the entry itself.
coveredRoot(n) == {n}

\* partialEnumerate: the entries below n, without the subtrees that have a choice.
covered(n) ==
  {m \in present(tree) : /\ n \in UpTo[m]
                         /\ \A c \in DOMAIN choice \intersect UpTo[m] : Len(c) <= Len(n)}

changeStrategy(n, old, new) ==
  LET region == IF old = new THEN {} ELSE covered(n)
  IN  /\ pit' = [k \in DOMAIN pit |-> IF k[1] \in region THEN {} ELSE pit[k]]
      /\ measured' = [m \in DOMAIN measured |->
                        IF m \in region THEN [measured[m] EXCEPT !.info = {}] ELSE measured[m]]
      /\ changed' = (changed \/ (old # new /\ DOMAIN measured # {}))

ChoiceInsert(n, s) ==
  /\ ~failed /\ ~(n \in DOMAIN choice /\ choice[n] = s)
  /\ changeStrategy(n, IF n \in DOMAIN choice THEN choice[n] ELSE findEffectiveStrategy(n), s)
  /\ tree' = lookup(tree, n)
  /\ choice' = [c \in DOMAIN choice \union {n} |-> IF c = n THEN s ELSE choice[c]]
  /\ UNCHANGED <<fib, cleanups, failed, promised>>

ChoiceErase(n) ==
  /\ ~failed /\ n # <<>> /\ n \in DOMAIN choice
  /\ changeStrategy(n, choice[n], findEffectiveStrategy(Front(n)))
  /\ choice' = [c \in DOMAIN choice \ {n} |-> choice[c]]
  /\ tree' = eraseEntryIfEmpty(tree, attached(fib, pit, measured, choice'), n)
  /\ UNCHANGED <<fib, cleanups, failed, promised>>

----------------------------------------------------------------------------
(* Measurements                                                            *)

\* Measurements::get for the names N: a new entry has no information.
gotten(m, N) ==
  [n \in DOMAIN m \union N |->
     IF n \in DOMAIN m THEN m[n] ELSE [left |-> INITIAL_LIFETIME, info |-> {}]]

\* Mutant of extended: the lifetime is set, be it longer or shorter.
extendedAlways(m, N, lifetime) ==
  [n \in DOMAIN m |-> IF n \in N THEN [m[n] EXCEPT !.left = lifetime] ELSE m[n]]

\* extendLifetime.
extended(m, N, lifetime) ==
  [n \in DOMAIN m |->
     IF n \in N /\ m[n].left < lifetime THEN [m[n] EXCEPT !.left = lifetime] ELSE m[n]]

informed(m, N, s) ==
  [n \in DOMAIN m |-> IF n \in N THEN [m[n] EXCEPT !.info = @ \union {s}] ELSE m[n]]

\* The measurements become m: a cleanup is scheduled for a new entry, and canceled and
\* scheduled again for an extended one.
Measure(m) ==
  LET rescheduled == {n \in DOMAIN m : n \in DOMAIN measured => measured[n].left # m[n].left}
  IN  /\ measured' = m
      /\ cleanups' = {c \in cleanups : ~(c[1] \in rescheduled /\ c[2] = measured[c[1]].left)}
                       \union {<<n, m[n].left>> : n \in rescheduled}

Promise(N, lifetime) ==
  promised' = [n \in Names |-> IF n \in N /\ promised[n] < lifetime THEN lifetime ELSE promised[n]]

Cleanup(c) ==
  /\ ~failed /\ c \in cleanups /\ c[2] = 0
  /\ cleanups' = cleanups \ {c}
  /\ \/ c[1] \notin DOMAIN measured /\ UNCHANGED <<measured, tree>>
     \/ /\ c[1] \in DOMAIN measured
        /\ measured' = [n \in DOMAIN measured \ {c[1]} |-> measured[n]]
        /\ tree' = eraseEntryIfEmpty(tree, attached(fib, pit, measured', choice), c[1])
  /\ UNCHANGED <<fib, pit, choice, failed, promised, changed>>

\* Time passes: every event is run at its time.
Tick ==
  /\ ~failed /\ cleanups # {} /\ \A c \in cleanups : c[2] > 0
  /\ cleanups' = {<<c[1], c[2] - 1>> : c \in cleanups}
  /\ measured' = [n \in DOMAIN measured |-> [measured[n] EXCEPT !.left = @ - 1]]
  /\ promised' = [n \in Names |-> IF promised[n] > 0 THEN promised[n] - 1 ELSE 0]
  /\ UNCHANGED <<tree, fib, pit, choice, failed, changed>>

----------------------------------------------------------------------------
(* FIB                                                                     *)

FibInsert(n) ==
  /\ ~failed /\ n \notin fib
  /\ tree' = lookup(tree, n)
  /\ fib' = fib \union {n}
  /\ UNCHANGED <<pit, measured, cleanups, choice, failed, promised, changed>>

\* Fib::erase; removeNextHopFromAllEntries calls it for one entry after another.
FibErase(n) ==
  /\ ~failed /\ n \in fib
  /\ fib' = fib \ {n}
  /\ tree' = eraseEntryIfEmpty(tree, attached(fib', pit, measured, choice), n)
  /\ UNCHANGED <<pit, measured, cleanups, choice, failed, promised, changed>>

----------------------------------------------------------------------------
(* PIT, and the strategies at work                                         *)

\* NccStrategy::getMeasurementsEntryInfo: up from n, the entries without information in the
\* namespace of the strategy.
uninformed(m, n) ==
  {a \in UpTo[n] : \A b \in UpTo[n] : Len(b) >= Len(a) =>
     effective(b) = "ncc" /\ ~(b \in DOMAIN m /\ "ncc" \in m[b].info)}

\* The entries that getParent finds or inserts for those of N.
parents(N) == {Front(a) : a \in N \ {<<>>}}

\* NccStrategy::getMeasurementsEntryInfo of a PIT entry.
nccReceived(n) ==
  LET N == uninformed(measured, n)
  IN  informed(gotten(measured, {n} \union parents(N)), N, "ncc")

\* NccStrategy::beforeSatisfyInterest and timeoutOnBestFace: the levels that are visited,
\* up to the end of the namespace.
levels(n) ==
  {a \in UpTo[n] : /\ Len(n) - Len(a) < UPDATE_MEASUREMENTS_N_LEVELS
                       /\ \A b \in UpTo[n] : Len(b) >= Len(a) => effective(b) = "ncc"}
nccUpdated(n) ==
  LET L == levels(n)
      N == L \union UNION {uninformed(measured, a) : a \in L}
  IN  extended(informed(gotten(measured, {n} \union parents(N)), N, "ncc"), L, MEASUREMENTS_LIFETIME)

prefixOf(d) == IF d = <<>> THEN d ELSE Front(d)

\* Mutant of measuredFor: the parent, be it in the namespace or not.
measuredForParent(d) == prefixOf(d)

\* AccessStrategy::addPrefixMeasurements: where the information for Data d goes, and the
\* entries that it looks up.
measuredFor(d) == IF effective(prefixOf(d)) = "access" THEN prefixOf(d) ELSE d
lookedUp(d) == {prefixOf(d), measuredFor(d)}

\* AccessStrategy::findPrefixMeasurements: the longest match of the Interest, if the
\* strategy is in charge of it.  The code asserts that it has information.
prefixMeasurements(n) ==
  LET M == UpTo[n] \intersect DOMAIN measured
  IN  {a \in M : a = Longest(M) /\ effective(a) = "access"}
hasInfo(n) == \E a \in prefixMeasurements(n) : "access" \in measured[a].info
withoutInfo(n) == prefixMeasurements(n) # {} /\ ~hasInfo(n)

\* PIT entry k with information of the strategies in S, too.
pitWith(k, S) ==
  [l \in DOMAIN pit \union {k} |->
     (IF l \in DOMAIN pit THEN pit[l] ELSE {}) \union (IF l = k THEN S ELSE {})]

\* NccStrategy::afterReceiveInterest: nothing more to do if the Interest was forwarded.
NccReceive(k) ==
  /\ effective(k[1]) = "ncc"
  /\ pit' = pitWith(k, {"ncc"})
  /\ \/ UNCHANGED <<measured, cleanups, promised>>
     \/ /\ Measure(nccReceived(k[1]))
        /\ Promise(DOMAIN measured' \ DOMAIN measured, INITIAL_LIFETIME)
  /\ UNCHANGED failed

\* AccessStrategy::afterReceiveInterest: only an Interest that is sent to the last working
\* next hop, which the measurements tell, leaves information.
AccessReceive(k) ==
  /\ effective(k[1]) = "access"
  /\ \/ /\ hasInfo(k[1])
        /\ pit' = pitWith(k, {"access"})
        /\ UNCHANGED failed
     \/ /\ withoutInfo(k[1])
        /\ pit' = pitWith(k, {})
        /\ failed' = TRUE
  /\ UNCHANGED <<measured, cleanups, promised>>

\* onIncomingInterest: the PIT entry is inserted; the Interest may then be dropped, found in
\* the Content Store or suppressed, or go to the effective strategy.
ReceiveInterest(k) ==
  /\ ~failed
  /\ tree' = lookup(tree, k[1])
  /\ \/ /\ pit' = pitWith(k, {})
        /\ UNCHANGED <<measured, cleanups, promised, failed>>
     \/ NccReceive(k)
     \/ AccessReceive(k)
  /\ UNCHANGED <<fib, choice, changed>>

\* NccStrategy::doPropagate, by the timer that the information in the PIT entry holds and
\* cancels when it ends.  A timer that ncc-strategy.cpp:114 has overwritten is not modelled.
DoPropagate(k) ==
  /\ ~failed /\ "ncc" \in pit[k]
  /\ Measure(nccReceived(k[1]))
  /\ Promise(DOMAIN measured' \ DOMAIN measured, INITIAL_LIFETIME)
  /\ UNCHANGED <<tree, fib, pit, choice, failed, changed>>

NccUpdate(k) ==
  /\ ~failed /\ effective(k[1]) = "ncc"
  /\ Measure(nccUpdated(k[1]))
  /\ Promise(levels(k[1]), MEASUREMENTS_LIFETIME)
  /\ UNCHANGED <<tree, fib, pit, choice, failed, changed>>

\* AccessStrategy::beforeSatisfyInterest by Data d, which must be in its namespace.
AccessUpdate(k, d) ==
  /\ ~failed /\ effective(k[1]) = "access" /\ IsPrefix(k[1], d)
  /\ LET at == measuredFor(d)
         m == gotten(measured, lookedUp(d))
     IN  /\ tree' = lookup(tree, at)
         /\ \/ /\ effective(at) = "access"
               /\ Measure(informed(extended(m, {at}, ME_LIFETIME), {at}, "access"))
               /\ Promise({at}, ME_LIFETIME)
               /\ UNCHANGED failed
            \/ /\ effective(at) # "access"
               /\ Measure(m) /\ Promise({}, 0)
               /\ failed' = TRUE
  /\ UNCHANGED <<fib, pit, choice, changed>>

PitErase(k) ==
  /\ ~failed
  /\ pit' = [l \in DOMAIN pit \ {k} |-> pit[l]]
  /\ tree' = eraseEntryIfEmpty(tree, attached(fib, pit', measured, choice), k[1])
  /\ UNCHANGED <<fib, measured, cleanups, choice, failed, promised, changed>>

----------------------------------------------------------------------------
\* The root has the default strategy (setDefaultStrategy).
Init ==
  /\ tree = lookup([nodes |-> {}, nBuckets |-> MIN_BUCKETS, nItems |-> 0,
                    children |-> [n \in Names |-> {}]], <<>>)
  /\ fib = {} /\ pit = <<>> /\ measured = <<>> /\ cleanups = {}
  /\ choice = [n \in {<<>>} |-> DEFAULT_STRATEGY]
  /\ failed = FALSE /\ promised = [n \in Names |-> 0] /\ changed = FALSE

Next ==
  \/ \E n \in FibNames : FibInsert(n) \/ FibErase(n)
  \/ \E k \in PitKeys : ReceiveInterest(k)
  \/ \E k \in DOMAIN pit : DoPropagate(k) \/ NccUpdate(k) \/ PitErase(k)
  \/ \E k \in DOMAIN pit, d \in DataNames : AccessUpdate(k, d)
  \/ \E n \in ChoiceNames : ChoiceErase(n) \/ \E s \in Strategies : ChoiceInsert(n, s)
  \/ \E c \in cleanups : Cleanup(c)
  \/ Tick

Spec == Init /\ [][Next]_vars

----------------------------------------------------------------------------
(* Properties                                                              *)

\* The variables hold values of the types of their members (name-tree.hpp,
\* name-tree-entry.hpp, measurements-entry.hpp).
TypeOK ==
  /\ tree.nodes \subseteq Names \X Nat /\ tree.nBuckets \in Nat /\ tree.nItems \in Nat
  /\ tree.children \in [Names -> SUBSET Names]
  /\ fib \subseteq Names
  /\ DOMAIN pit \subseteq PitKeys /\ \A k \in DOMAIN pit : pit[k] \subseteq Strategies
  /\ DOMAIN measured \subseteq Names
  /\ \A n \in DOMAIN measured : measured[n] \in [left : Nat, info : SUBSET Strategies]
  /\ cleanups \subseteq Names \X Nat
  /\ DOMAIN choice \subseteq Names /\ \A n \in DOMAIN choice : choice[n] \in Strategies
  /\ promised \in [Names -> Nat] /\ failed \in BOOLEAN /\ changed \in BOOLEAN

\* "The function deletes a Name Tree entry if nothing is attached to it and it has no
\* children, then repeats the same process on its ancestors" (name-tree.hpp): after every
\* operation of every table, the tree holds the names that something is attached to and
\* their prefixes, linked to their parents, and nothing else.
TreeExact ==
  /\ present(tree) = UNION {UpTo[n] : n \in attached(fib, pit, measured, choice)}
  /\ tree.children = [a \in Names |-> {n \in present(tree) \ {<<>>} : Front(n) = a}]

\* Each entry is found where findExactMatch looks for it and nowhere else, however lookup
\* and eraseEntryIfEmpty resize the table; m_nItems counts the entries, as resize asserts,
\* and the load stays under the limit.
HashTableSound ==
  /\ tree.nodes = {<<n, Hash[n] % tree.nBuckets>> : n \in present(tree)}
  /\ tree.nItems = Cardinality(present(tree))
  /\ tree.nItems <= (tree.nBuckets * ENLARGE) \div 100 /\ tree.nBuckets >= MIN_BUCKETS

\* Strategy information belongs to the strategy that is in charge of the name, whatever
\* choices are inserted, replaced and erased around it (changeStrategy, "reset StrategyInfo
\* on a portion of NameTree, where entry's effective strategy is covered by the changing
\* StrategyChoice entry") and whatever a strategy asks of names outside its namespace.
InfoOfEffectiveStrategy ==
  /\ \A k \in DOMAIN pit : pit[k] \subseteq {effective(k[1])}
  /\ \A n \in DOMAIN measured : measured[n].info \subseteq {effective(n)}

\* "The entry will be kept until at least now()+lifetime" (extendLifetime): measurements
\* outlive every lifetime they were given, and each entry has one cleanup, at its expiry.
MeasurementsKept ==
  /\ \A n \in Names : promised[n] > 0 => n \in DOMAIN measured
  /\ cleanups = {<<n, measured[n].left>> : n \in DOMAIN measured}

\* The assertions of AccessStrategy ("Data Name must be in this strategy", and that the
\* measurements it finds are its own) fail only after a runtime change of
\* strategies, or when another strategy is in charge of a part of an access namespace.
Nested ==
  \E a \in DOMAIN choice, b \in DOMAIN choice :
    choice[a] = "access" /\ choice[b] # "access" /\ a \in UpTo[b]
AssertedOnlyAcrossNamespaces == failed => changed \/ Nested
=============================================================================
