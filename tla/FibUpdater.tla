----------------------------- MODULE FibUpdater -----------------------------
(***************************************************************************)
(* The FIB updates that one RIB update needs (NFD/rib/fib-updater.cpp,     *)
(* with rib-entry.cpp and the ancestor lookup of rib.cpp).                 *)
(*                                                                         *)
(* Routes of one origin: an entry has at most one route per face.  A name  *)
(* is a sequence of components; the tree of entries that the RIB links     *)
(* through parent and children is the prefix order on the names present.   *)
(*                                                                         *)
(* A computation is a sequence of stages, one per call that the code makes: *)
(*   fib   next hops <<name, face>> to set, with the update that sets them *)
(*   rem   records of inherited routes to remove, as <<name, face>>        *)
(*   add   records of inherited routes to add, after those of rem          *)
(***************************************************************************)
EXTENDS Integers, SequencesExt

CONSTANTS
  Names,    \* the name prefixes that are registered
  Faces     \* FaceIds

ASSUME FibUpdaterAssumption ==
  /\ Names \subseteq Seq(Nat) /\ IsFiniteSet(Names)
  /\ Faces # {}

\* The prefixes and the extensions of a name, itself excluded.
Above == [n \in Names |-> {a \in Names : IsStrictPrefix(a, n)}]
Below == [n \in Names |-> {d \in Names : IsStrictPrefix(n, d)}]

\* Function g with the value v at x, and g where it is defined and h elsewhere.
Put(g, x, v) == [y \in DOMAIN g \union {x} |-> IF y = x THEN v ELSE g[y]]
Over(g, h) == [x \in DOMAIN g \union DOMAIN h |-> IF x \in DOMAIN g THEN g[x] ELSE h[x]]

----------------------------------------------------------------------------
(* RibEntry                                                                *)

\* An entry without routes is not in m_rib.
NoEntry == [routes |-> <<>>, inherited |-> [f \in Faces |-> 0], nCapture |-> 0]
isIn(rib, n) == DOMAIN rib[n].routes # {}

\* m_nRoutesWithCaptureSet > 0, of an unsigned counter that may have wrapped.
hasCapture(e) == e.nCapture # 0
hasChildInheritOnFaceId(e, f) == f \in DOMAIN e.routes /\ e.routes[f].childInherit

insertRoute(e, f, r) ==
  [e EXCEPT !.routes = Put(@, f, r), !.nCapture = @ + (IF r.capture THEN 1 ELSE 0)]
eraseRoute(e, f) ==
  [e EXCEPT !.routes = [g \in DOMAIN @ \ {f} |-> @[g]],
            !.nCapture = @ - (IF e.routes[f].capture THEN 1 ELSE 0)]

----------------------------------------------------------------------------
(* Sets of routes, ordered and compared by face: a function from faces to  *)
(* costs                                                                   *)

Just(f, r) == [g \in {f} |-> r.cost]
Only(R, S) == [f \in DOMAIN R \intersect S |-> R[f]]
If(c, R) == IF c THEN R ELSE <<>>

\* Rib::getAncestorRoutes: the walk up ends after an ancestor with capture, and the
\* nearest route on a face is the one that is kept.
getAncestorRoutes(rib, n) ==
  LET ancestors == {a \in Above[n] : isIn(rib, a)}
      visited == {a \in ancestors :
                    \A b \in ancestors \intersect Below[a] : ~hasCapture(rib[b])}
      giving(f) == {a \in visited : hasChildInheritOnFaceId(rib[a], f)}
      nearest(f) == CHOOSE a \in giving(f) : \A b \in giving(f) : Len(b) <= Len(a)
  IN  [f \in {g \in Faces : giving(g) # {}} |-> rib[nearest(f)].routes[f].cost]

----------------------------------------------------------------------------
(* Stages                                                                  *)

AddNextHop(cost) == [action |-> "add", cost |-> cost]
RemoveNextHop == [action |-> "remove", cost |-> 0]

Stage(fib, rem, add) == [fib |-> fib, rem |-> rem, add |-> add]
setNextHop(n, f, u) == Stage([k \in {<<n, f>>} |-> u], {}, {})

addInheritedRoutes(n, R) ==
  LET keys == {n} \X DOMAIN R
  IN  Stage([k \in keys |-> AddNextHop(R[k[2]])], {}, keys)

removeInheritedRoutes(rib, n, R) ==
  LET keys == {n} \X {f \in DOMAIN R : rib[n].inherited[f] > 0}
  IN  Stage([k \in keys |-> RemoveNextHop], keys, {})

\* modifyChildrensInheritedRoutes on the children of n, and traverseSubTree: an entry
\* with capture shields its subtree, and one with its own child-inherit route on a face
\* shields its subtree from that face.
modifyChildrensInheritedRoutes(rib, n, add, remove) ==
  LET below == {d \in Below[n] : isIn(rib, d)}
      path(d) == {d} \union (below \intersect Above[d])
      reached(d, f) ==
        \A e \in path(d) : ~hasCapture(rib[e]) /\ ~hasChildInheritOnFaceId(rib[e], f)
      toRemove == {k \in below \X DOMAIN remove :
                     reached(k[1], k[2]) /\ rib[k[1]].inherited[k[2]] > 0}
      toAdd == {k \in below \X DOMAIN add :
                  reached(k[1], k[2]) /\ k[2] \notin DOMAIN rib[k[1]].routes}
  IN  Stage([k \in toAdd \union toRemove |->
               IF k \in toAdd THEN AddNextHop(add[k[2]]) ELSE RemoveNextHop],
            toRemove, toAdd)

----------------------------------------------------------------------------
(* computeUpdates                                                          *)

createFibUpdatesForNewRibEntry(rib, n, f, r) ==
  LET ancestors == getAncestorRoutes(rib, n)
  IN  << setNextHop(n, f, AddNextHop(r.cost)),
         addInheritedRoutes(n, If(~r.capture, Only(ancestors, Faces \ {f}))),
         modifyChildrensInheritedRoutes(rib, n,
           If(r.childInherit, Over(Just(f, r), If(~r.capture, ancestors))),
           If(r.capture, ancestors)) >>

createFibUpdatesForNewRoute(rib, n, f, r) ==
  LET captureWasTurnedOn == ~hasCapture(rib[n]) /\ r.capture
      blocked == If(captureWasTurnedOn, getAncestorRoutes(rib, n))
  IN  << removeInheritedRoutes(rib, n, blocked),
         modifyChildrensInheritedRoutes(rib, n, If(r.childInherit, Just(f, r)), blocked),
         setNextHop(n, f, AddNextHop(r.cost)) >>

\* The children learn of a new cost only when no flag changes with it.
createFibUpdatesForUpdatedRoute(rib, n, f, r) ==
  LET old == rib[n].routes[f]
      ancestors == getAncestorRoutes(rib, n)
      turnedOn == ~old.childInherit /\ r.childInherit
      turnedOff == old.childInherit /\ ~r.childInherit
      recosted == /\ r.cost # old.cost /\ r.childInherit /\ old.childInherit
                  /\ r.capture = old.capture
      costStage == IF r.cost = old.cost THEN <<>> ELSE <<setNextHop(n, f, AddNextHop(r.cost))>>
      inheritStage ==
        IF turnedOn \/ recosted
          THEN <<modifyChildrensInheritedRoutes(rib, n, Just(f, r), <<>>)>>
        ELSE IF turnedOff
          THEN <<modifyChildrensInheritedRoutes(rib, n, Only(ancestors, {f}), Just(f, r))>>
        ELSE <<>>
      captureStage ==
        IF ~old.capture /\ r.capture
          THEN <<removeInheritedRoutes(rib, n, ancestors),
                 modifyChildrensInheritedRoutes(rib, n, <<>>, ancestors)>>
        ELSE IF old.capture /\ ~r.capture
          THEN <<addInheritedRoutes(n, Only(ancestors, Faces \ DOMAIN rib[n].routes)),
                 modifyChildrensInheritedRoutes(rib, n, ancestors, <<>>)>>
        ELSE <<>>
  IN  costStage \o inheritStage \o captureStage

\* Mutants of the last stage of createFibUpdatesForErasedRoute: it is left out; it is
\* made for an entry that is about to be removed, too.
unblockedRouteNever(temp, n, ancestors, f) == addInheritedRoutes(n, <<>>)
unblockedRouteAlways(temp, n, ancestors, f) ==
  addInheritedRoutes(n, If(~hasCapture(temp), Only(ancestors, {f})))

\* The removed route may have blocked an inherited one.
unblockedRoute(temp, n, ancestors, f) ==
  addInheritedRoutes(n, If(~hasCapture(temp) /\ temp.routes # <<>>, Only(ancestors, {f})))

createFibUpdatesForErasedRoute(rib, n, f) ==
  LET old == rib[n].routes[f]
      temp == eraseRoute(rib[n], f)
      ancestors == getAncestorRoutes(rib, n)
      captureWasTurnedOff == hasCapture(rib[n]) /\ ~hasCapture(temp)
      unblocked == If(old.capture /\ captureWasTurnedOff, ancestors)
  IN  << setNextHop(n, f, RemoveNextHop),
         addInheritedRoutes(n, Only(unblocked, Faces \ DOMAIN temp.routes)),
         modifyChildrensInheritedRoutes(rib, n,
           IF old.capture THEN unblocked
                          ELSE If(old.childInherit /\ ~hasCapture(temp), ancestors),
           If(old.childInherit, Just(f, old))),
         unblockedRoute(temp, n, ancestors, f) >>

\* Mutant of createFibUpdatesForErasedRibEntry: the inherited next hops stay.
createNoUpdatesForErasedRibEntry(rib, n) == <<>>

createFibUpdatesForErasedRibEntry(rib, n) ==
  LET keys == {n} \X {f \in Faces : rib[n].inherited[f] > 0}
  IN  <<Stage([k \in keys |-> RemoveNextHop], {}, {})>>

computeUpdatesForRegistration(rib, n, f, r) ==
  IF ~isIn(rib, n) THEN createFibUpdatesForNewRibEntry(rib, n, f, r)
  ELSE IF f \notin DOMAIN rib[n].routes THEN createFibUpdatesForNewRoute(rib, n, f, r)
  ELSE createFibUpdatesForUpdatedRoute(rib, n, f, r)

computeUpdatesForUnregistration(rib, n, f) ==
  IF f \notin DOMAIN rib[n].routes THEN <<>>
  ELSE createFibUpdatesForErasedRoute(rib, n, f)
       \o (IF DOMAIN rib[n].routes = {f} THEN createFibUpdatesForErasedRibEntry(rib, n)
                                         ELSE <<>>)

\* An update u of the RIB: [action, name, face, route].
computeUpdates(rib, u) ==
  IF u.action = "register" THEN computeUpdatesForRegistration(rib, u.name, u.face, u.route)
                           ELSE computeUpdatesForUnregistration(rib, u.name, u.face)

\* addFibUpdate: a later update of a next hop replaces an earlier one.
FibUpdates(stages) ==
  LET setting(k) == {i \in DOMAIN stages : k \in DOMAIN stages[i].fib}
      last(k) == CHOOSE i \in setting(k) : \A j \in setting(k) : j <= i
  IN  [k \in UNION {DOMAIN stages[i].fib : i \in DOMAIN stages} |-> stages[last(k)].fib[k]]
=============================================================================
