---------------------------- MODULE BoundedCache ----------------------------
(***************************************************************************)
(* What NFD's Content Store promises to the forwarding pipelines, with no  *)
(* word about queues, iterators or timers: at most `limit' Data packets    *)
(* are kept, a packet is thrown away only to make room, and the one that   *)
(* is thrown away is the one the replacement policy's documentation names. *)
(*   - LRU: the packet whose last insertion or use is the oldest.          *)
(*   - Priority FIFO: unsolicited packets first, then packets whose        *)
(*     freshness has expired, then the packets in the order they arrived   *)
(*     (cs-policy-priority-fifo.hpp).                                      *)
(* ContentStore implements it.                                             *)
(***************************************************************************)
EXTENDS Integers, FiniteSets

CONSTANTS
  Data,       \* the Data packets
  Freshness,  \* [Data -> Int]: the FreshnessPeriod, -1 when the Data has none
  Limits,     \* the capacities the store may be configured with
  Policies    \* the replacement policies, among "lru" and "fifo"

VARIABLES
  cached,       \* the Data packets in the store
  unsolicited,  \* those that no Interest asked for
  expiry,       \* [Data -> Int]: when the freshness ends, -1 for never
  recency,      \* <<d, e>> where the cached d is less recent than the cached e
  limit,
  policy,
  now

vars == <<cached, unsolicited, expiry, recency, limit, policy, now>>

Never == -1
Expired(exp, d) == exp[d] # Never /\ exp[d] < now
Fresh(exp, d)   == exp[d] = Never \/ exp[d] > now

(* The policy says that d has to go before e does.  Of two packets whose   *)
(* freshness has expired nothing is said, and nothing of a packet at the   *)
(* very instant at which it expires.                                       *)
GoesFirst(d, e, uns, exp, order) ==
  IF policy = "lru" THEN <<d, e>> \in order
  ELSE \/ d \in uns /\ e \notin uns
       \/ d \in uns /\ e \in uns /\ <<d, e>> \in order
       \/ d \notin uns /\ e \notin uns /\ Expired(exp, d) /\ Fresh(exp, e)
       \/ /\ d \notin uns /\ e \notin uns /\ Fresh(exp, d) /\ Fresh(exp, e)
          /\ <<d, e>> \in order

(* Of the packets `all' the store keeps as many as it may, and no packet   *)
(* is lost while one that has to go first is kept.                         *)
Shrinks(all, lim, uns, exp, order) ==
  /\ cached' \subseteq all
  /\ Cardinality(cached') = IF Cardinality(all) > lim THEN lim
                                                      ELSE Cardinality(all)
  /\ \A lost \in all \ cached', kept \in cached' :
       ~GoesFirst(kept, lost, uns, exp, order)
  /\ unsolicited' = uns \intersect cached'
  /\ expiry' = exp
  /\ recency' = order \intersect (cached' \X cached')

Renewed(d) ==
  {p \in recency : p[1] # d /\ p[2] # d} \union ((cached \ {d}) \X {d})

(* A Data packet arrives: it is stored, or it renews the packet stored. *)
Arrive(d, uns) ==
  /\ LET exp == [expiry EXCEPT ![d] = IF Freshness[d] >= 0
                                        THEN now + Freshness[d] ELSE Never]
         all == IF uns /\ d \notin cached THEN unsolicited \union {d}
                ELSE IF uns THEN unsolicited ELSE unsolicited \ {d}
     IN  Shrinks(cached \union {d}, limit, all, exp, Renewed(d))
  /\ UNCHANGED <<limit, policy, now>>

(* A lookup uses a packet: LRU takes note of it, FIFO does not. *)
Use(d) ==
  /\ d \in cached
  /\ recency' = IF policy = "lru" THEN Renewed(d) ELSE recency
  /\ UNCHANGED <<cached, unsolicited, expiry, limit, policy, now>>

(* The capacity is configured. *)
Resize(lim) ==
  /\ limit' = lim
  /\ Shrinks(cached, lim, unsolicited, expiry, recency)
  /\ UNCHANGED <<policy, now>>

(* An empty store is given another policy. *)
ChangePolicy(p) ==
  /\ cached = {}
  /\ policy' = p
  /\ UNCHANGED <<cached, unsolicited, expiry, recency, limit, now>>

Elapse ==
  /\ now' = now + 1
  /\ UNCHANGED <<cached, unsolicited, expiry, recency, limit, policy>>

Init ==
  /\ cached = {} /\ unsolicited = {} /\ recency = {}
  /\ expiry = [d \in Data |-> Never]
  /\ limit \in Limits
  /\ policy \in Policies
  /\ now = 0

Next ==
  \/ \E d \in Data, uns \in BOOLEAN : Arrive(d, uns)
  \/ \E d \in Data : Use(d)
  \/ \E lim \in Limits : Resize(lim)
  \/ \E p \in Policies : ChangePolicy(p)
  \/ Elapse

Spec == Init /\ [][Next]_vars
=============================================================================
