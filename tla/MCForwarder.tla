---------------------------- MODULE MCForwarder ----------------------------
(***************************************************************************)
(* Instances of Forwarder with an application face and two network faces.  *)
(*   fresh, plain   /localhop/x, with and without MustBeFresh: two entries *)
(*                  of one Name, forwarded by best-route2                  *)
(*   any            /                                                      *)
(***************************************************************************)
EXTENDS Forwarder

CONSTANTS app, net1, net2, n1, fresh, plain, any, short, long, host

MCNameOf == [k \in Kind |-> IF k = any THEN any ELSE fresh]
MCScopeOf == [k \in Kind |-> IF k = any THEN "none" ELSE "localhop"]
MCStrategyOf == [k \in Kind |-> IF k = any THEN "multicast" ELSE "best-route2"]
BestRoute == [k \in Kind |-> "best-route"]
MCNextHops == [k \in Kind |-> IF k = any THEN <<net1>> ELSE <<net1, net2>>]
MCMatches == {m \in Kind \X Data : m[1] = any \/ m[2] # host}

\* With a DnlLifetime of 2, short becomes stale before the Dead Nonce List would
\* forget a nonce, and long does not.
MCFreshnessPeriod ==
  [d \in Data |-> CASE d = short -> 0 [] d = long -> 2 [] d = host -> NoPeriod]

AllArrivals == Face \X Kind \X Nonce \X Lifetime

\* The two entries have three requesters, of different lifetimes.
MixedArrivals ==
  {<<app, fresh, n, 2>> : n \in Nonce} \union {<<net1, fresh, n1, 1>>, <<net2, plain, n1, 1>>}
=============================================================================
