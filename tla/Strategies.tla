----------------------------- MODULE Strategies -----------------------------
(***************************************************************************)
(* The forwarding strategies' afterReceiveInterest                         *)
(* (NFD/daemon/fw/*-strategy*.cpp) as functions of the PIT entry: the      *)
(* faces the Interest is sent on, whether the strategy rejects it, and the *)
(* suppression interval it leaves behind.  `nexthops' maps the ranks of    *)
(* the FIB entry's next hops, lowest cost first, to their faces.           *)
(***************************************************************************)
EXTENDS PitEntry

Decision(faces, reject, interval) ==
  [faces |-> faces, reject |-> reject, interval |-> interval]

FacesOf(nexthops) == {nexthops[i] : i \in DOMAIN nexthops}

\* The face of the first next hop that is in F, if any, as a set.
FirstOf(nexthops, F) ==
  {nexthops[i] : i \in {j \in DOMAIN nexthops :
                          /\ nexthops[j] \in F
                          /\ \A h \in DOMAIN nexthops : h < j => nexthops[h] \notin F}}

\* MulticastStrategy, the default of this fork, and BroadcastStrategy.
multicast(e, scope, nexthops) ==
  LET faces == {f \in FacesOf(nexthops) : canForwardTo(e, scope, f)}
      unexpired == hasUnexpiredOutRecords(e) \/ faces # {}
  IN  Decision(faces, ~unexpired, e.interval)

\* BestRouteStrategy (version 1): the first usable next hop, never resent.
bestRoute(e, scope, nexthops) ==
  LET faces == FirstOf(nexthops, {f \in Face : canForwardTo(e, scope, f)})
  IN  IF hasUnexpiredOutRecords(e) THEN Decision({}, FALSE, e.interval)
      ELSE Decision(faces, faces = {}, e.interval)

\* RetxSuppressionExponential::decide
decide(e) ==
  LET sinceLastOutgoing == Min({e.out[f].age : f \in DOMAIN e.out})
  IN  CASE ~hasUnexpiredOutRecords(e) -> "NEW"
        [] hasUnexpiredOutRecords(e) /\ sinceLastOutgoing < e.interval -> "SUPPRESS"
        [] OTHER -> "FORWARD"

\* Mutant of NextInterval: without std::min.
NextIntervalUncapped(interval) == 2 * interval

\* The interval after a FORWARD decision (multiplier 2).
NextInterval(interval) ==
  IF 2 * interval < MaxInterval THEN 2 * interval ELSE MaxInterval

\* BestRouteStrategy2: NEW goes to the best eligible next hop; a retransmission
\* that is not suppressed goes to the best one without an unexpired
\* out-record, else to the one whose out-record is the oldest.
bestRoute2(e, scope, nexthops, inFace) ==
  LET eligible == {f \in FacesOf(nexthops) : f # inFace /\ ~violatesScope(e, scope, f)}
      unused == {f \in eligible : ~(f \in DOMAIN e.out /\ e.out[f].left > 0)}
      earliest == {f \in eligible : \A g \in eligible : e.out[f].age >= e.out[g].age}
  IN  CASE decide(e) = "NEW" ->
             Decision(FirstOf(nexthops, eligible), eligible = {}, e.interval)
        [] decide(e) = "SUPPRESS" ->
             Decision({}, FALSE, e.interval)
        [] decide(e) = "FORWARD" /\ unused # {} ->
             Decision(FirstOf(nexthops, unused), FALSE, NextInterval(e.interval))
        [] decide(e) = "FORWARD" /\ unused = {} ->
             Decision(FirstOf(nexthops, earliest), FALSE, NextInterval(e.interval))

afterReceiveInterest(strategy, e, scope, nexthops, inFace) ==
  CASE strategy = "multicast" -> multicast(e, scope, nexthops)
    [] strategy = "best-route" -> bestRoute(e, scope, nexthops)
    [] strategy = "best-route2" -> bestRoute2(e, scope, nexthops, inFace)
=============================================================================
