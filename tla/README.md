# TOP-NDN simulation: TLA+ models, checks and proofs

This directory is a verification development for the code under `src/`: a fork
of ndnSIM (an NDN simulator on ns-3 that embeds the NFD forwarder) in which the
consumer derives its retransmission timeout (RTO) from the correlation of names,
the forwarder reflects Data to the face it came from, and multicast is the
default strategy. Paths below are relative to `src/ndnSIM/` unless they start
with `src/`.

`PROJECT.json` lists components, runs, mutants, the map from definitions to
source lines, findings, hazards and theorems.

## 1. The system

A simulated node is a `Forwarder` (NFD) with faces to net devices and to
applications. Everything runs in one thread, the ns-3 event loop: packet
arrivals, timers and application events are handlers that run to completion, so
a handler is one atomic step and the hard part is the *order* of handlers at and
between instants. There is no crash recovery (nothing is persisted) and no data
race; there are lost, late, duplicated and looping packets, timers that race
packets, and faces that disappear.

| Part | State | Operations | Correct when |
|---|---|---|---|
| Forwarding pipelines `NFD/daemon/fw/forwarder.cpp` | PIT, CS, Dead Nonce List, faces | incoming Interest / Data, loop, CS hit / miss, outgoing, reject, unsatisfied, finalize | every pending downstream is answered, expires or is rejected; loops are detected; nobody waits for what is cached |
| PIT entry `NFD/daemon/table/pit-entry.cpp` | in-records, out-records, unsatisfy and straggler timer | insert / update / delete records, nonce and scope tests | exactly one timer watches a pending entry, due at the last expiry |
| Strategies `NFD/daemon/fw/*-strategy*.cpp` | suppression interval per entry | `afterReceiveInterest`: which next hops, or reject | forwards only where allowed; retransmissions are not suppressed for ever |
| Dead Nonce List `NFD/daemon/table/dead-nonce-list.cpp` | queue with MARKs, capacity, mark counts | `add`, `mark`, `adjustCapacity` | bounded, FIFO, entries kept for about the lifetime |
| Content Store `NFD/daemon/table/cs*.cpp` | table ordered by name, policy queues | `insert`, `find`, eviction, stale timer | within its limit, every entry in one queue, never answers with stale Data to MustBeFresh |
| Consumer `apps/ndn-consumer.cpp` | next sequence number, timeouts, transmission counts, delays, retransmission set | `SendPacket`, `OnData`, `CheckRetxTimeout` / `OnTimeout`, `StopApplication` | containers agree; a request is given up only after its last transmission; every request ends |
| RTT estimator `utils/ndn-rtt-estimator.cpp`, `utils/ndn-rtt-mean-deviation.cpp` | history of Interests, estimate, variance, multiplier | `SetInterestInfo`, `AckSeq`, `CalRTObyCorrelativity`, `RetransmitTimeout`, `UpateRttHistory` | never measures a retransmission; RTO within its limits; history within 3 minutes |
| Face table `NFD/daemon/fw/face-table.cpp` | faces by id | `add`, `remove` | a removed face gets nothing, although PIT records still name it |
| Name tree and FIB `NFD/daemon/table/name-tree.cpp`, `fib.cpp` | hash table of nodes, parent and child links, what is attached to each name | `lookup`, `eraseEntryIfEmpty`, `resize`; insert and erase of the tables | holds what is used and nothing else; entries are found after every resize |
| Strategy Choice `NFD/daemon/table/strategy-choice.cpp` | a strategy per prefix, strategy information on PIT and measurements entries | `insert`, `erase`, `changeStrategy` | information always belongs to the strategy in charge of the name |
| Measurements `NFD/daemon/table/measurements.cpp`, ncc and access strategies | entries with expiry and a cleanup event | `get`, `getParent`, `extendLifetime`, `cleanup` | kept as long as promised, erased then |
| RIB and FIB updater `NFD/rib/` | routes, inherited routes, expiration events, batch queue, commands under way | register, unregister, expiration, removal of a face; batches sent as add / remove commands, timeouts, retries | one batch at a time, the queue advances, the FIB agrees with the RIB |
| Other consumers, producer, node glue, helpers, tracers, management, sockets, ndn-cxx | | | see section 8 |

Interactions: the consumer hands an Interest to its `AppFace`, which calls
`Forwarder::onIncomingInterest`; pipelines call the tables and the strategy of
the entry's name, which calls back `onOutgoingInterest` and `onInterestReject`;
faces deliver to the next node. Data comes back along in-records and reaches
`Consumer::OnData` as an event of its own (`ScheduleNow` in
`model/ndn-app-face.cpp`). The RIB is not started in the fork's scenarios.

What is hard to test here (the list with lines is `hazards` in `PROJECT.json`):
timers racing packets at the same instant, several Interests of different
lifetimes in one entry, one Data for several entries, nonces at the moment they
leave the PIT, faces removed while records name them, the feedback loop of the
Dead Nonce List, answers that come after a retransmission or after a request was
given up, the purge of the RTT history, the stale timer of cached Data against
refresh and eviction, the answers of a batch of FIB commands in any order and
with failures, expirations that meet a refresh, resizing of the hash table in the
middle of a walk, and strategy changes under nested prefixes.

## 2. Modules

| Module | Models | Remarks |
|---|---|---|
| `DeadNonceList` | `dead-nonce-list.cpp` | one action per operation; `phase` stands for the two periodic events |
| `PitEntry` | `pit-entry.cpp`, `pit-face-record.cpp`, timers of `forwarder.cpp` | a PIT entry as a record; pure operators |
| `Strategies` | multicast, broadcast, best-route, best-route2, exponential suppression | pure operators of an entry and ranked next hops |
| `Forwarder` | `forwarder.cpp`, `pit.cpp`, `FaceTable::remove` | composes `PitEntry` and `Strategies`; state machine of one node |
| `BoundedCache` | what a Content Store promises (abstract) | no queues, iterators or timers |
| `ContentStore` | `cs.cpp`, `cs-entry.cpp`, both replacement policies | implements `BoundedCache` |
| `FibUpdater` | the computations of `fib-updater.cpp`, `rib-entry.cpp`, lookups of `rib.cpp` | pure operators: from a RIB and an update to FIB updates and inherited routes |
| `Rib` | `rib.cpp`, commands and answers of `fib-updater.cpp`, `rib-manager.cpp`, the next-hop commands of `fib-manager.cpp` | composes `FibUpdater`; state machine of RIB, commands under way and FIB |
| `NameTree` | `name-tree.cpp`, `strategy-choice.cpp`, `measurements.cpp`, entries of `fib.cpp` and `pit.cpp`, measurements of the ncc and access strategies | state machine of the shared tree |
| `RttEstimator` | the estimator | pure operators on the history |
| `Consumer` | `ndn-consumer.cpp` | composes `RttEstimator`; state machine of one application |
| `MC*` | TLC instances | `MCDeadNonceList` adds to `DeadNonceList` a load that becomes steady |
| `*Proofs` | theorems and their lemmas | |
| `FiniteInduction` | lemmas on bounded ranges of numbers | induction and recursive functions, for the loops of the code |

**DeadNonceList.** `queue`, `capacity` and `counts` are `m_queue`, `m_capacity`
and `m_actualMarkCounts` (a multiset in the code; `adjustCapacity` asks only
whether counts above, at or below the expected one occur, so a set is enough).
The hashed index of the queue answers `has`. `mark` appends without evicting, as
the code does. The adjustment interval is `EXPECTED_MARK_COUNT` mark intervals
with the division rounded down, so an adjustment comes after
`EXPECTED_MARK_COUNT` marks, one more or one less. The constants' assumptions
are the assertions of the destructor and two relations that the values chosen in
the code have.

**PitEntry, Strategies, Forwarder.** Time counts down: a record has the time
`left` to its expiry and the `age` since it was renewed. `Tick` is possible only
when no timer is due, and timers and packets of one instant run in any order
(the code distinguishes `expiry > now` from `expiry >= now`; so does the model,
at `left = 0`). An action covers the handler with all it calls:
`onIncomingInterest` includes the PIT insertion, cancelled timers, the Content
Store lookup, the strategy and everything it sends or rejects. An Interest is a
*kind* (Name and Selectors), a nonce and a lifetime. `outInterest` and `outData`
are what the last step sent, and `kept` is a history variable: the Data that last
satisfied an entry, as long as the Content Store keeps it. `Arrivals` is the set of
Interests that may come. Dropped packets (scope violations, packets of a
removed face) change nothing and are not steps.

Abstractions: a cache that may evict anything at an insertion (so that every
replacement policy is covered); a Dead Nonce List that may forget any entry at
any time (`dnlEvict`); FIB and strategy choice fixed but for removed faces; the
packet contents. `canForwardTo` accepts a face with an in-record of its own, and
Data is sent to the face it came from: both are changes of this fork (the tests
`NFD/tests/daemon/fw/forwarder.t.cpp:423` and `multicast-strategy.t.cpp:107`
still describe the original behaviour, and `NoDownstreamForgotten` asks nothing of the
downstream that the Data itself comes from).

**ContentStore, BoundedCache.** A Data packet stands for its full Name and the
packets are numbered in the order of the table, which is all that `find` uses of
names, with the Name they share (`NameOf`: several packets may differ in the digest
alone) and the child of the Interest's Name under which a packet lies. An Interest with a
full Name (`full`) is longer than the Name of the packet it asks for, so `getPrefix` cuts
nothing off and a turn of `findRightmost` starts at the first packet of that Name; the
result `Outside` stands for a walk that has left its range, after which the lookup may
find nothing or any packet. `queues`,
`queueType` and `timers` are the cleanup index of the policy: lists of iterators,
entry infos and `moveToStaleQueue` events. `recency` is a history variable, the
order of arrival (under LRU, of arrival or use) as a set of pairs, which the code keeps
nowhere and `BoundedCache` judges evictions by. `InterestAssumption` says what the order
of the table gives: of two packets under an Interest's Name the earlier lies under the
same child or an earlier one. `BoundedCache` says what the policies'
documentation says and leaves open what it leaves open: which of two stale packets
goes first, and whether a packet at the very instant of its expiry is stale.

**FibUpdater, Rib.** The RIB answers a registration at once and applies it later:
the update is queued, turned into commands for the forwarder's FIB, and applied
when they are answered. `FibUpdater` computes the commands as the code does, in
*stages* (one per call of the code), because an inherited route may be removed and
added again within one update. In `Rib` a handler ends in `sendBatchFromQueue`,
which calls itself when a batch needs no command; `sending` holds meanwhile and no
other handler runs. Commands under way are a bag. Each may be answered, refused
because its face is gone, or lost on either way (`OnTimeout`: executed or not), in
any order. A face dies in the forwarder first, and the RIB hears of it later or,
if the notification is lost, through the list of active faces
(`RemoveInvalidFaces`). `OnRouteExpiration` may happen at any time after the
registration: the periods are arbitrary.

The expiration event of a route that is being erased is cancelled twice by the code: when
the FIB updates are computed, on a copy of the entry that shares the event
(`temp.eraseRoute`, `NFD/rib/fib-updater.cpp:164`), and when the batch is applied. Both
are in the model, since a batch that fails in between leaves the route without its event.

The history variable `mishaps` records five things that the code does not
recover from: a lost REMOVE, which is retried as an ADD (`"retry"`,
`NFD/rib/fib-updater.cpp:293`); a batch that fails with commands outstanding, whose
later answers meet the next batch (`"overlap"`, `NFD/rib/rib.cpp:441`); an
expiration while a new registration of the route is under way (`"refresh"`,
`NFD/rib/rib-manager.cpp:300`); a registration that changes the capture flag of a route,
which the entry's counter does not follow (`"flag"`, `NFD/rib/rib.cpp:114`); and an update
that sets next hops of names which the entry shields from it (`"exposed"`,
`NFD/rib/fib-updater.cpp:589` and `:528`). They are part of the model, and `QueueAdvances`
and the type invariant hold in spite of them. `Undisturbed` (the first two have not
happened) is what `OneBatchAtATime`, `ExpiryPending` and `AssertedOnlyForCapture` need;
`Faithful` (at most a refresh has happened) is what the properties that compare FIB and RIB
need, and `ExpiresOwnRoute` excludes the first three. In an
`"overlap"` even the *success* callback of the failed batch may run: a second failed
command no longer matches the face of the batch under way, and counts as done.

**NameTree.** A node is a name with the bucket it is chained in; `findExactMatch`
looks in the bucket that the hash gives now, so a wrong `resize` loses nodes.
`eraseEntryIfEmpty` is the whole recursion up the tree, each level of which may
shrink the table. Times are what is left of a lifetime. Strategies act through what
they do to the tree: which entries they look up, create, extend and inform, within
their namespace (the filter of `measurements-accessor.cpp`, which creates an entry
before it refuses it). The prefixes of every name are names (the code creates the nodes
of all prefixes). `BucketCounts` are the sizes that doubling and halving reach from
`MIN_BUCKETS`. Where the code decides by faces or timers whether it acts at
all, the action is possible and not forced. A failed assertion sets `failed` and
ends the behaviour. `promised` and `changed` are history variables.

**RttEstimator, Consumer.** Time is counted in `RetxTimer` periods; a step of
`CheckRetxTimeout` is one period and all the `OnTimeout` calls at its end.
`sameName` (`m_isSameWithLastInterest`) selects between the TCP-like RTO
and the RTO by correlation. The weights of the correlation are left open: the
RTO by correlation is any value between two RTTs of usable records, or the
estimate, clamped. `pending` is the consumer's own entry in the node's PIT: it
is what lets a Data reach the application, at most one per Interest lifetime.
`UpateRttHistory` erases from a deque inside a loop that increments the erased
iterator: undefined by the standard, so `UpdateStep` does what libstdc++'s deque
does (elements before or after the hole move, whichever are fewer) and the state
`undefined` stands for a loop that ran past the end.

## 3. Runs

Each takes about a minute or less with two workers, `forwarder` about two.

| Run | Configuration | Shows |
|---|---|---|
| `dead_nonce_list` | capacity 5..12 from 8, 2 marks per lifetime, eviction limit 3; any history, then a steady load of 0, 2, 5 or 8 nonces per mark | `BoundedMemory`, `RecentNoncesSurvive` for every interleaving; from any state the control loop converges (`CapacitySettles`) and entries are kept for the lifetime (`EntriesKeptForLifetime`) |
| `forwarder` | 1 application and 2 network faces, one failing; two entries of one `/localhop` Name, with and without MustBeFresh, under best-route2 with intervals 1..2; three requesters with lifetimes 1 and 2, 2 nonces; 2 Data that are fresh for 0 and 2, a Dead Nonce List lifetime of 2 | `TimersCoverInRecords`, `PendingNotCached`, `NoDownstreamForgotten`, `NonceNotForgotten`, `PendingResolved` |
| `forwarder_pick` (violation) | one kind, 3 nonces | finding 1 |
| `forwarder_loop` (violation) | one kind, 2 nonces | finding 2 |
| `consumer` | 3 requests, 2 transmissions each, both RTO methods | `RequestsTracked`, `KarnRule`, `NeverGivenUpEarly`, `RequestResolved` |
| `consumer_history` (violation) | 3 requests, 3 transmissions, RTO by correlation | finding 3 |
| `content_store` | 4 packets under an Interest's Name and two of its children, with freshness never, 0, 1 and 2; limits 1..3; both policies; 8 lookups, 3 of them with a full Name | `IndexConsistent`, `FindAnswers`, and that the store implements `BoundedCache` |
| `content_store_walk` (violation) | the same | finding 6 |
| `rib` | 3 nested names, 2 faces of which one dies, 6 registrations with and without child-inherit, capture and expiration; 4 commands, 1 loss | `NextHopsJustified`, `InheritedInstalled`, `OneBatchAtATime`, `QueueAdvances`, `ExpiryPending`, `ExpiresOwnRoute`, `AssertedOnlyForCapture` |
| `rib_own` (violation) | 2 nested names, 2 faces, no capture, no failure | finding 4 |
| `rib_shield` (violation) | 3 nested names, 2 faces, 4 registrations, 5 commands, no capture, no failure | finding 5 |
| `name_tree` | 5 names on two branches, 3 Interests (two of one name), choices at 2 nested names, 3 strategies | `TreeExact`, `HashTableSound`, `InfoOfEffectiveStrategy`, `MeasurementsKept`, `AssertedOnlyAcrossNamespaces` |

**Why the bounds are enough.** Three faces give two downstreams and an upstream,
and a face that is both. Two nonces give a retransmission and a loop; three are
needed where an older and a newer Interest compete with a retransmission. The
lifetimes 1 and 2 with a straggler time of 1 let an entry be extended, expire
one record before another, and be revived while straggling; with an interval of 1 a
lifetime of 2 lets suppression end before the out-record expires. Two kinds matched by one
Data exercise the loop over matching entries, and as only one of them wants fresh Data, the
store may hold an answer to one and not to the other. Of the two Data one goes stale before
the Dead Nonce List would forget a nonce and the other one does not, so both branches of
`insertDeadNonceList` come with Data that is kept, evicted or not cached at all. Each face
asks with one kind and one lifetime (`MixedArrivals`); the violation runs have one
kind under multicast and under best-route, with every Interest from every face, and the proofs
have all strategies and arrivals. The capacities
of the Dead Nonce List are small, but 1.2 and 0.9 truncated still move in steps
of one and two, the eviction limit is smaller than the queue, and the load finds every
capacity and every queue that any history can leave, too small and too large by a
factor of two, and both clamps. With 2 expected marks the capacities that the loop leaves
alone span a factor of 2, with the code's 5 a factor of 1.25: `CapacitySettles` covers
truncation, clamps and the order of marks and adjustments, and is weak evidence that
steps of 1.2 and 0.9 do not overshoot the narrower band. In `consumer`, RTOs from 1 to 4 periods against a lifetime of 2 make
Data come before a timeout, between transmissions, and after the request was
given up. `Window` is chosen in the proportion the code has: three minutes cover
all transmissions of a request with the default lifetime. Time counters saturate
(`AgeCap`) where no comparison can tell larger values apart, so no behaviour is cut
off by a bound on time. `SeqMax` is a parameter of the program.

In `content_store` a limit below the number of packets makes every insertion evict
from each queue, and three units of time let a packet go stale, be refreshed and go
stale again. In `rib` the three nested names give an ancestor, an entry in between
that inherits, blocks or captures, and one below; four commands are enough to
register on two levels, change the route above and withdraw it with a face failing
and a command lost; queue and losses are bounded by `MaxQueue` and `MaxTimeouts`
because a second batch waiting behind one in progress, and one command lost, already
give every pair of batches that can meet. In `consumer` the variance adds a margin of 0
or 1 to the estimate, which is enough to tell an RTO at its lower limit from one above
it. In `name_tree` the table starts
with 2 buckets, so five names enlarge it three times; it shrinks below 25 percent
load where the code has 10, because ten percent of so small a table truncates to one
entry or none, and the root is never erased. The word of `resize` is 32 for 2^32, and two of the hashes are beyond it. The lifetimes 1, 2 and 3
keep the order of 4, 8 and 16 seconds.

**Deadlock** is checked except in `consumer`, where undefined behaviour stops
the model, in the `rib` runs, which stop after `MaxUpdates` commands or at a
failed assertion, in `content_store`, whose clock ends, and in `name_tree`, where a
failed assertion ends the program.

**Fairness.** `Forwarder`: weak fairness of `Timers` and of `Tick`: the ns-3
scheduler runs every event that is due before time advances, and simulated time
advances while events are scheduled. Nothing is assumed of packets, faces or
eviction. `Consumer`: weak fairness of `CheckRetxTimeout`, which reschedules
itself unconditionally (`apps/ndn-consumer.cpp:149`); none of Data.
`MCDeadNonceList`: weak fairness of the step after which the load is steady and of the
steps under it, the periodic events and a load that goes on; the claim is about loads that
become steady.

## 4. Findings

1. `forwarder_pick`: `compare_pickInterest` orders by
   `a.getLastRenewed() > b.getLastRenewed()` and the caller takes
   `std::max_element`, so the *earliest* renewed in-record is picked. The comment
   above it (`NFD/daemon/fw/forwarder.cpp:197`) promises the last.
2. `forwarder_loop`: the PIT entry is inserted before the Dead Nonce List is
   asked (`forwarder.cpp:93`). If the nonce is only in that list, the new entry
   stays empty and no timer will erase it, contrary to
   `NFD/daemon/fw/ncc-strategy.cpp:195`. It goes away only when a new Interest of
   the same name, or a matching Data, arms a timer. `TimersCoverInRecords` and
   `PendingResolved` therefore speak of entries with in-records.
3. `consumer_history`: `UpateRttHistory` (`utils/ndn-rtt-estimator.cpp:311`)
   leaves stale records in the history or runs past its end.
4. `rib_own`: an entry that inherits a face and then registers a route of its own on
   it keeps the record of the inherited route. When the ancestor's route is
   unregistered, `traverseSubTree` finds the record and removes the next hop from the
   FIB (`NFD/rib/fib-updater.cpp:668`), while the RIB keeps the entry's own route.
5. `rib_shield`: when a child-inherit route is erased, `createFibUpdatesForErasedRoute`
   gives the children all routes of the ancestors (`NFD/rib/fib-updater.cpp:589`), also
   on a face on which the entry keeps another child-inherit route; `traverseSubTree`, which
   ignores a face for such a route (line 679), starts below the entry. The names below end
   with the farther ancestor's cost. The proof of `NextHopsJustified` found it: the
   four commands of the `rib` run are one too few.
6. `content_store_walk`: a rightmost lookup by a full Name, when that packet is cached and
   cannot answer (it is stale and the Interest has MustBeFresh) and another packet of the
   same Name with a smaller digest is cached. `left` (`NFD/daemon/table/cs.cpp:180`) is then
   the first packet of the Name and lies before `first`, `right = left` (`:188`) passes
   `first`, and `right != first` is never false again: the walk goes on to the begin of the
   table, or `findRightmostAmongExact` is called with a range whose end is before its
   start. `Strays` delimits the case in `FindAnswers`.

`AssertedOnlyForCapture` and `AssertedOnlyAcrossNamespaces` delimit two known limits
of the code instead of excluding them: the assertion of `modifyInheritedRoutes` fails
when the last route of an entry captures and an ancestor's route is unblocked by its
removal (and when a registration turns child-inherit off and capture on, a record is
removed that the same update has removed already), and the access strategy's assertions fail after a strategy change or with
nested namespaces (the comment at `NFD/daemon/fw/access-strategy.cpp:249` concedes the first).

Three more disagreements with the documentation are exempted from the forwarder's
properties, which say so, and have no run of their own:

- Data is sent back to a pending downstream it came from, because this fork has commented
  out the test (`NFD/daemon/fw/forwarder.cpp:399-405`);
  `NFD/tests/daemon/fw/forwarder.t.cpp:423` expects that it is not.
- "When a Nonce is erased (dead) from PIT entry, the Nonce and the Interest Name is added to
  Dead Nonce List" (`NFD/daemon/table/dead-nonce-list.hpp:40`). The code adds the nonces of a
  satisfied entry only if its Data goes stale early (`forwarder.cpp:506-521`), relying on the
  Content Store to answer a looping Interest. `NonceNotForgotten` shows that it does while
  it keeps the Data; if the Data is evicted or was not to be cached, the nonce is in neither
  place and a looping Interest is forwarded as a new one.
- `/localhop`: `NFD/docs/RELEASE_NOTES.rst:693` says that an Interest with a non-local
  incoming face cannot be forwarded to a non-local face; the code, and the test
  `ScopeLocalhopOutgoing`, ask for one local in-record (`NFD/daemon/table/pit-entry.cpp:105`).
  The scope tests are part of every step of the model, and no property repeats them.

## 5. Mutants

Each property of a passing run is accompanied by a plausible bug of the code
(a dropped `std::min`, a wrong end of a range, a timer not cancelled, min for max,
an off-by-one in the count of transmissions, a record not marked, a stale event not
cancelled, a hash table resized without moving its nodes) under which the
run finds it violated; they are the definitions commented "Mutant of" and
listed in `PROJECT.json`.

## 6. Proofs

All theorems hold for every value of the constants allowed by the named `ASSUME`s: any
names, faces, Data, lifetimes and numbers of each, where TLC checks one small choice.

- `DeadNonceListProofs`: `TypeCorrect`, `MemoryBounded`, `RecentSurvive`. The
  inductive invariant is `TypeOK /\ BoundedMemory`: the bound needs the range of
  `capacity` and of `phase`. An addition to a queue over capacity evicts at least one
  entry, so it does not grow the queue; an adjustment sets `phase` to 0 and so must
  bring the queue to `MAX_CAPACITY`, which one eviction does because
  `EVICT_LIMIT > EXPECTED_MARK_COUNT` and at most `EXPECTED_MARK_COUNT + 1` marks
  came since the last one. `RecentSurvive` is an action property, proved from a
  lemma on what `evictEntries` returns.
- `PitEntryProofs`: lemmas on each operation on an entry: it preserves `IsEntry`,
  and which parts of `TimersCoverEntry` it establishes. The maximum of the
  in-records' expiries exists because the faces are finite (`FaceAssumption`).
- `ForwarderProofs`: `TypeCorrect` and `TimersCover`, from the inductive invariant
  `TypeOK /\ TimersCoverInRecords`. `TimersCoverEntry` needs its clause on rejected entries:
  the straggler timer runs beside in-records only while no out-record is unexpired, and this
  is what `onInterestReject`'s early return guarantees; and it says that the unsatisfy timer
  *equals* the latest expiry, because "not later" alone would not survive a `Tick`. There is
  one lemma per action, one case per pipeline branch. `DownstreamsKept` follows from the
  same invariant, for one downstream (`DownstreamKept`) at a time. The attempt showed a case
  that the runs' lifetimes do not include: a downstream that asks again with a lifetime of
  zero ends its own waiting, and `NoDownstreamForgotten` now says so.
  `PendingUncached` and `NoncesKept` need a second invariant, `CacheInv`, which relates the
  PIT to the Content Store. A pending entry has no answer in the store; every cached answer
  to an entry `Outlives` its out-records: the age of the record and the freshness left add up
  to the FreshnessPeriod at least, since the answer came after the Interest was sent; and
  the Data in `kept` did satisfy its entry and is in the store, with the same inequality.
  An Interest that is forwarded starts with age 0 and would break it, if the store had an
  answer: either it was asked, or the entry is pending and the first part applies. A `Tick`
  adds to the age what it takes from the freshness. When the nonce leaves with a FreshnessPeriod of
  at least the Dead Nonce List's lifetime, the inequality is what `NonceKept` asks for. TLC
  checked `CacheInv` on the instance of the `forwarder` run before it was proved.
- `RibProofs`: `TypeCorrect`, `QueueNeverStuck`, `BatchesDoNotOverlap`, `RoutesExpire`,
  `NextHopsAreJustified`, `InheritedRoutesInstalled`, and the action properties
  `ExpirationsAreOwn` and `AssertsOnlyForCapture`. `UpdaterInv` is the protocol between the
  queue, the batch in progress and the commands under way: every update that a batch
  waits for has a command under way (also after failures and losses), and, while the
  updates are undisturbed, exactly one. `EventInv` relates the expiration events of the
  routes to the batches queued and in progress: the events of the batches are in the
  order of their registrations and younger than those in the RIB, so the event that
  `Rib::insert` cancels is never the one that the new registration just scheduled.
  `RecordInv` says that the records a batch will apply are those that `computeUpdates`
  gives for the RIB as it still is; `RegistrationRecorded` and `UnregistrationRecorded`
  show for each of the five computations that these remove only what is there, once, and
  add only to entries (`Recorded`, `RemovesOnce`), which is `AssertsOnlyForCapture`.
- The FIB against the RIB (also in `RibProofs`). `Want` is the cost that a name should
  inherit on a face, and `WellKept` says that the capture counters count (`Counted`) and
  that a name which should inherit a route has a record of it
  (`RecordKept`; records may outlive their routes, which is finding 4). The computations
  are compared with `Want` before and after, next hop by next hop: `KeyMoves` says that the
  last stage that sets a next hop sets it to what the new RIB asks for, and that a next hop
  that no stage sets is what it asks for already. It is shown
  for each computation (`NewEntryMoved`, `NewRouteMoved`, `UpdatedMoved`, `ErasedMoved`,
  together `ComputeMoves`), for the name itself and, in `ChildMoves`, for the names below,
  where the route that reaches a name does so by way of entries that neither capture nor
  shield it. `RecordedAfter` gives `WellKept` for the RIB afterwards. The invariant
  `FaithfulInv` adds the commands: between batches every next hop on a live face is what
  the RIB asks for (`FibOK`; that of the name's own route may be missing, finding 4, but
  has no other cost); during one, a next hop that the batch does not set is so
  still, and one that it sets has its command outstanding or executed (`KeyOK`). As long
  as updates of the batch's own face are outstanding the other faces are untouched, which
  is why a batch that fails because its face is gone leaves a FIB that agrees with the RIB
  it did not change. At the end of a batch all its commands are executed, and
  `BatchCompletes` turns `KeyMoves` into `FibOK` for the new RIB. TLC checked
  `FaithfulInv` on the instance of the `rib` run before it was proved.
- `NameTreeProofs`: `TypeCorrect`, `TreeIsExact`, `TableIsSound`, `InfoIsOfStrategy`,
  `MeasurementsOutlive`, `AssertionsHold`. `TreeInv` says that the tree holds exactly the
  prefixes of the names with something attached, that every node is chained in the
  bucket its hash gives now, and that the load is within the thresholds: the last part is
  what bounds the buckets within the word that `resize` computes with, without which a
  node could be lost. `eraseEntryIfEmpty` is shown to stop at the lowest prefix that is
  still needed, and each halving on the way to keep every node in reach. `TableInv` and
  `CleanupInv` are the types of the tables and the pairing of measurements with cleanup
  events. `InfoOfEffectiveStrategy` is inductive with `TableInv`: the information that
  `changeStrategy` clears is that of the names for which the nearest choice is the one
  that changes. `AccessInv` adds to `AssertedOnlyAcrossNamespaces` that, before any
  change of strategy and without nested namespaces, every measurement under access has its
  information.
- `ConsumerProofs`: `TypeCorrect`, `AllRequestsTracked`, and the action properties
  `KarnRuleHolds` and `GivenUpLast`. `BasicInv` adds to the types that a request has one
  record and that an Interest pending and not retransmitted was sent within its lifetime
  (so an answer to it is measured within the bounds of the type). `TrackInv` pairs each
  outstanding request with its record: how often it was transmitted, whether the record
  is marked, and that the record's age and the time left together do not exceed
  `LongestTime`, the longest that so many transmissions take with the RTO doubled each
  time. With `WindowAssumption` the purge then never meets the record of a request under
  way, and this is where `RequestsTracked` depends on the relation of three minutes to
  the lifetime (the hazard at `utils/ndn-rtt-estimator.cpp:309`).
- `ContentStoreProofs`: `TypeCorrect` (the store never exceeds its limit),
  `IndexAlwaysConsistent`, `LookupsAnswered` and the refinement
  `StoreImplementsBoundedCache`, for any Data, freshness and limits and both policies. The
  inductive invariant is `Inv == Rest /\ Consistent`: neither of the first two is inductive
  alone, since an eviction takes exactly the surplus only if the queues hold exactly
  the table, and the table stays within the limit only if the eviction does. The
  lemmas say what adding to, removing from and dropping the front of the queues does
  to `Placed`; `PlacedSize` counts: a table has as many packets as its queues have
  places. `LookupsAnswered` follows the loop of `findRightmost`: a child without a match
  is skipped and the right answer among the packets left is still the right one
  (`SkipIsRight`), and the loop ends with it (`ResultIsRight`); a full Name has one packet
  under it, and one turn decides (`FullNameIsRight`). The refinement
  needs `OrderInv` besides: the LRU, unsolicited and FIFO queues are in the order of
  `recency`, and what is in the stale queue has expired. An eviction that takes the
  fronts of the queues one after the other (`TakenInTurn`) then takes the packets that
  `BoundedCache!Shrinks` allows (`EvictRefines`); every other action keeps the order
  because what it appends has just become the latest.

**Loops and induction.** The library's induction theorems take an operator as parameter
and cannot be used by the provers at hand. `FiniteInduction` replaces them where a loop
runs over a bounded range: a non-empty set of numbers has a smallest element (from
`WFMin`), so a property of all numbers up to a bound is proved by its smallest
counterexample (`BoundedInduction`), and a recursive function on such a range exists and
satisfies its equation (`BoundedRecursion`; `JumpRecursion` for `findRightmost`, whose
next index is any smaller one).

**Assumptions.** The Data of a Content Store are finitely many, numbered in the order of
the table, with `InterestAssumption` (above); `LocalFace` is a set of faces and the
faces are finite; lifetimes are natural numbers with a largest one (a 64-bit millisecond
count in the code); `InitialInterval <= MaxInterval` (asserted by
`RetxSuppressionExponential`); ages of records saturate beyond the largest lifetime and
interval together and beyond the Dead Nonce List's lifetime (`AgeCap`); an Interest under `/localhost` matches only Data under
`/localhost`; the names of the tree are finitely many and closed under prefixes;
`BucketAssumption`: the bucket counts are reached by doubling up to the word, the
shrinking threshold is at most half the enlarging one (10 and 50 percent in the code),
and the names fit in the largest table; `WindowAssumption`: the transmissions of a
request with an RTO by correlation end within the window (180 s in the code; by default
they take 2 + 4 + 8 s). TLC evaluates each on the runs'
constants.

**Only model-checked.** Liveness under fairness, which the prover does not treat:
`PendingResolved`, `RequestResolved`, `EntriesKeptForLifetime`, `CapacitySettles`. Every
other property of a passing run is a theorem. The findings are counterexamples.

## 7. Plan

Done: Dead Nonce List, PIT entries, strategies, forwarder pipelines, consumer and
estimator, Content Store with its policies, RIB and FIB updater, name tree with
strategy choices and measurements, with the theorems above. Next: `Network`, forwarders
joined by lossy links with a consumer and a producer.

## 8. Not modelled

- The next hops that the ncc, access and client-control strategies choose, and their
  timers: no scenario of the fork selects them. What they leave in the name tree is in
  `NameTree`, where a propagation timer ends with the PIT information that holds it; one
  that `NFD/daemon/fw/ncc-strategy.cpp:114` overwrites without cancelling it is left out.
- The chains of the hash table's buckets (a set of nodes per bucket), and operations of
  the tables without a caller: `Measurements::findExactMatch`, which creates a node that
  nothing erases (`NFD/daemon/table/measurements.cpp:127`), and `Fib::erase` of a name
  without an entry.
- RIB: several origins of one route (the branches at `NFD/rib/fib-updater.cpp:174-180`,
  `427-439` and `478-487` that look for another origin), the routes that
  `onNrdCommandPrefixAddNextHopSuccess` inserts into the RIB directly
  (`NFD/rib/rib-manager.cpp:566`), the remote registrator, a list of active faces that
  is out of date when it arrives, command validation and datasets.
- `Cs::setPolicy` on a store that is not empty: excluded by its precondition
  (`NFD/daemon/table/cs.hpp`), which every caller meets.
- ConsumerWindow: its window is not enforced in this fork, since nothing calls
  `WillSendOutInterest` (`apps/ndn-consumer.cpp:238`).
- `model/cs` and `utils/trie`: an alternative cache selected by a helper, template
  code; `Forwarder`'s cache covers its behaviour towards the pipelines.
- Management, channels and sockets of NFD, NDNLP: I/O and encoding, replaced in the
  simulator by `NetDeviceFace` and `AppFace`.
- ConsumerBatches, ConsumerZipfMandelbrot, Producer: they choose the next sequence
  number, or answer every Interest; no state beyond the base class that could go wrong.
- Helpers, tracers, topology readers, bindings, examples, `src/scratch`, `src/scene`,
  `src/Code Backup`: set-up, output, scenarios and old copies.
- ndn-cxx and websocketpp: third-party libraries. With the sockets, the management
  encoding, the helpers and the tools they make up most of the lines of the repository;
  they are encoding, cryptography and I/O, without protocol state of the program's own.
