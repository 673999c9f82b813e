----------------------------- MODULE RibProofs -----------------------------
(***************************************************************************)
(* Proofs about Rib for any names, faces, registrations and bounds.        *)
(***************************************************************************)
EXTENDS Rib, TLAPS, FiniteSetTheorems, WellFoundedInduction

\* A non-empty set of numbers with a bound has a largest element.
LEMMA LargestExists ==
  ASSUME NEW m \in Nat, NEW S \in SUBSET (0..m), S # {}
  PROVE  \E x \in S : \A y \in S : y <= x
<1> DEFINE R == OpToRel(<, Nat)
           T == {m - x : x \in S}
<1>1. T \subseteq Nat /\ T # {}
  <2>1. \A x \in S : x \in Nat /\ m - x \in Nat
    OBVIOUS
  <2> QED
    BY <2>1, Zenon
<1>2. PICK t \in T : \A y \in T : <<y, t>> \notin R
  <2>1. IsWellFoundedOn(R, Nat)
    BY NatLessThanWellFounded
  <2> HIDE DEF R, T
  <2> QED
    BY <1>1, <2>1, WFMin, Zenon
<1>3. \A y \in T : t <= y
  <2> SUFFICES ASSUME NEW y \in T, ~(t <= y)
               PROVE  FALSE
    OBVIOUS
  <2>1. y \in Nat /\ t \in Nat /\ y < t
    BY <1>1
  <2>2. <<y, t>> \in R
    BY <2>1 DEF OpToRel
  <2> QED
    BY <2>2, <1>2
<1>4. PICK x \in S : t = m - x
  OBVIOUS
<1>5. \A y \in S : y <= x
  <2> SUFFICES ASSUME NEW y \in S
               PROVE  y <= x
    OBVIOUS
  <2>1. m - x <= m - y
    BY <1>3, <1>4
  <2>2. m \in Int /\ x \in Int /\ y \in Int
    OBVIOUS
  <2> HIDE DEF T
  <2> QED
    BY ONLY <2>1, <2>2
<1> QED
  BY <1>5

----------------------------------------------------------------------------
(* Types of the RIB and of what the FIB updater computes                   *)

Entry ==
  [routes : UNION {[F -> Route] : F \in SUBSET Faces}, inherited : [Faces -> Nat], nCapture : Int]

Keys == Names \X Faces
NextHop == [action : {"add", "remove"}, cost : Nat]
StageType ==
  [fib : UNION {[K -> NextHop] : K \in SUBSET Keys}, rem : SUBSET Keys, add : SUBSET Keys]

\* A set of routes: costs of faces.
IsCostMap(R) == DOMAIN R \subseteq Faces /\ \A f \in DOMAIN R : R[f] \in Nat

\* The fields of an entry.
LEMMA EntryFields ==
  ASSUME NEW e \in Entry
  PROVE  /\ DOMAIN e.routes \subseteq Faces /\ \A f \in DOMAIN e.routes : e.routes[f] \in Route
         /\ e.routes = [f \in DOMAIN e.routes |-> e.routes[f]]
         /\ e.inherited \in [Faces -> Nat] /\ e.nCapture \in Int
         /\ e = [routes |-> e.routes, inherited |-> e.inherited, nCapture |-> e.nCapture]
<1>1. PICK F \in SUBSET Faces : e.routes \in [F -> Route]
  BY DEF Entry
<1> QED
  BY <1>1 DEF Entry

\* An entry from its fields.
LEMMA EntryIntro ==
  ASSUME NEW routes, DOMAIN routes \subseteq Faces, routes = [f \in DOMAIN routes |-> routes[f]],
         \A f \in DOMAIN routes : routes[f] \in Route,
         NEW inh \in [Faces -> Nat], NEW c \in Int
  PROVE  [routes |-> routes, inherited |-> inh, nCapture |-> c] \in Entry
<1>1. routes \in [DOMAIN routes -> Route]
  OBVIOUS
<1>2. routes \in UNION {[F -> Route] : F \in SUBSET Faces}
  BY <1>1
<1> QED
  BY <1>2 DEF Entry

\* The operations on sets of routes.
LEMMA CostMaps ==
  /\ IsCostMap(<<>>)
  /\ \A f \in Faces, r \in Route : IsCostMap(Just(f, r))
  /\ \A R, S : IsCostMap(R) => IsCostMap(Only(R, S))
  /\ \A R : \A c \in BOOLEAN : IsCostMap(R) => IsCostMap(If(c, R))
  /\ \A R, S : IsCostMap(R) /\ IsCostMap(S) => IsCostMap(Over(R, S))
<1>1. IsCostMap(<<>>)
  BY DEF IsCostMap
<1>2. ASSUME NEW f \in Faces, NEW r \in Route PROVE IsCostMap(Just(f, r))
  BY DEF IsCostMap, Just, Route
<1>3. ASSUME NEW R, IsCostMap(R), NEW S PROVE IsCostMap(Only(R, S))
  BY <1>3 DEF IsCostMap, Only
<1>4. ASSUME NEW R, IsCostMap(R), NEW c \in BOOLEAN PROVE IsCostMap(If(c, R))
  BY <1>1, <1>4 DEF If
<1>5. ASSUME NEW R, NEW S, IsCostMap(R), IsCostMap(S) PROVE IsCostMap(Over(R, S))
  BY <1>5 DEF IsCostMap, Over
<1> QED
  BY <1>1, <1>2, <1>3, <1>4, <1>5

\* The routes of the ancestors.
LEMMA AncestorRoutesType ==
  ASSUME NEW r \in [Names -> Entry], NEW n \in Names
  PROVE  IsCostMap(getAncestorRoutes(r, n))
<1> DEFINE ancestors == {a \in Above[n] : isIn(r, a)}
           visited == {a \in ancestors :
                         \A b \in ancestors \intersect Below[a] : ~hasCapture(r[b])}
           giving(f) == {a \in visited : hasChildInheritOnFaceId(r[a], f)}
           nearest(f) == CHOOSE a \in giving(f) : \A b \in giving(f) : Len(b) <= Len(a)
<1>1. getAncestorRoutes(r, n) = [f \in {g \in Faces : giving(g) # {}} |-> r[nearest(f)].routes[f].cost]
  BY Zenon DEF getAncestorRoutes
<1>2. \A f : giving(f) \subseteq Above[n]
  OBVIOUS
<1> HIDE DEF visited
<1>3. \A f : \A a \in giving(f) : f \in DOMAIN r[a].routes
  BY DEF hasChildInheritOnFaceId
<1> HIDE DEF giving
<1>4. \A a \in Above[n] : a \in Names /\ a \in Seq(Nat) /\ Len(a) \in 0..Len(n)
  <2> TAKE a \in Above[n]
  <2>1. a \in Names /\ IsStrictPrefix(a, n) /\ a \in Seq(Nat) /\ n \in Seq(Nat)
    BY FibUpdaterAssumption DEF Above
  <2>2. Len(a) <= Len(n)
    BY <2>1 DEF IsStrictPrefix, IsPrefix
  <2> QED
    BY <2>1, <2>2
<1>5. ASSUME NEW f \in Faces, giving(f) # {}
      PROVE  r[nearest(f)].routes[f].cost \in Nat
  <2>1. \E a \in giving(f) : \A b \in giving(f) : Len(b) <= Len(a)
    <3> DEFINE S == {Len(a) : a \in giving(f)}
    <3>1. Len(n) \in Nat
      BY FibUpdaterAssumption
    <3>2. S \in SUBSET (0..Len(n)) /\ S # {}
      BY <1>2, <1>4, <1>5
    <3>3. \E x \in S : \A y \in S : y <= x
      BY <3>1, <3>2, LargestExists
    <3> QED
      BY <3>3
  <2>2. nearest(f) \in giving(f)
    BY <2>1
  <2> HIDE DEF nearest
  <2>3. nearest(f) \in Names /\ f \in DOMAIN r[nearest(f)].routes
    BY <1>2, <1>3, <1>4, <2>2
  <2>4. r[nearest(f)].routes[f] \in Route
    BY <2>3, EntryFields
  <2> QED
    BY <2>4 DEF Route
<1> HIDE DEF nearest
<1> QED
  BY <1>1, <1>5 DEF IsCostMap

\* The fields of a stage.
LEMMA StageFields ==
  ASSUME NEW s \in StageType
  PROVE  /\ DOMAIN s.fib \subseteq Keys /\ \A k \in DOMAIN s.fib : s.fib[k] \in NextHop
         /\ s.rem \subseteq Keys /\ s.add \subseteq Keys
<1>1. PICK K \in SUBSET Keys : s.fib \in [K -> NextHop]
  BY DEF StageType
<1> QED
  BY <1>1 DEF StageType

\* A stage from its fields.
LEMMA StageIntro ==
  ASSUME NEW K \in SUBSET Keys, NEW g \in [K -> NextHop],
         NEW rem \in SUBSET Keys, NEW add \in SUBSET Keys
  PROVE  Stage(g, rem, add) \in StageType
<1>1. g \in UNION {[L -> NextHop] : L \in SUBSET Keys}
  OBVIOUS
<1> QED
  BY <1>1 DEF Stage, StageType

\* Updates of next hops.
LEMMA NextHopType == RemoveNextHop \in NextHop /\ \A c \in Nat : AddNextHop(c) \in NextHop
  BY DEF RemoveNextHop, AddNextHop, NextHop

\* The stages of a computation.
LEMMA StagesType ==
  ASSUME NEW r \in [Names -> Entry], NEW n \in Names
  PROVE  /\ \A f \in Faces, u \in NextHop : setNextHop(n, f, u) \in StageType
         /\ \A R : IsCostMap(R) => addInheritedRoutes(n, R) \in StageType
         /\ \A R : IsCostMap(R) => removeInheritedRoutes(r, n, R) \in StageType
         /\ \A R, S : IsCostMap(R) /\ IsCostMap(S) =>
                        modifyChildrensInheritedRoutes(r, n, R, S) \in StageType
<1>1. ASSUME NEW f \in Faces, NEW u \in NextHop PROVE setNextHop(n, f, u) \in StageType
  <2>1. [k \in {<<n, f>>} |-> u] \in [{<<n, f>>} -> NextHop] /\ {<<n, f>>} \in SUBSET Keys
    BY DEF Keys
  <2> HIDE DEF Keys
  <2> QED
    BY <2>1, StageIntro DEF setNextHop
<1>2. ASSUME NEW R, IsCostMap(R) PROVE addInheritedRoutes(n, R) \in StageType
  <2> DEFINE keys == {n} \X DOMAIN R
             g == [k \in keys |-> AddNextHop(R[k[2]])]
  <2>1. keys \in SUBSET Keys /\ \A k \in keys : R[k[2]] \in Nat
    BY <1>2 DEF IsCostMap, Keys
  <2>2. g \in [keys -> NextHop]
    BY <2>1, NextHopType
  <2>3. addInheritedRoutes(n, R) = Stage(g, {}, keys)
    BY DEF addInheritedRoutes
  <2> HIDE DEF keys, g
  <2> QED
    BY <2>1, <2>2, <2>3, StageIntro
<1>3. ASSUME NEW R, IsCostMap(R) PROVE removeInheritedRoutes(r, n, R) \in StageType
  <2> DEFINE keys == {n} \X {f \in DOMAIN R : r[n].inherited[f] > 0}
             g == [k \in keys |-> RemoveNextHop]
  <2>1. keys \in SUBSET Keys
    BY <1>3 DEF IsCostMap, Keys
  <2>2. g \in [keys -> NextHop]
    BY NextHopType
  <2>3. removeInheritedRoutes(r, n, R) = Stage(g, keys, {})
    BY DEF removeInheritedRoutes
  <2> HIDE DEF keys, g
  <2> QED
    BY <2>1, <2>2, <2>3, StageIntro
<1>4. ASSUME NEW R, NEW S, IsCostMap(R), IsCostMap(S)
      PROVE  modifyChildrensInheritedRoutes(r, n, R, S) \in StageType
  <2> DEFINE below == {d \in Below[n] : isIn(r, d)}
             path(d) == {d} \union (below \intersect Above[d])
             reached(d, f) ==
               \A e \in path(d) : ~hasCapture(r[e]) /\ ~hasChildInheritOnFaceId(r[e], f)
             toRemove == {k \in below \X DOMAIN S :
                            reached(k[1], k[2]) /\ r[k[1]].inherited[k[2]] > 0}
             toAdd == {k \in below \X DOMAIN R :
                         reached(k[1], k[2]) /\ k[2] \notin DOMAIN r[k[1]].routes}
             g == [k \in toAdd \union toRemove |->
                     IF k \in toAdd THEN AddNextHop(R[k[2]]) ELSE RemoveNextHop]
  <2>1. modifyChildrensInheritedRoutes(r, n, R, S) = Stage(g, toRemove, toAdd)
    BY Zenon DEF modifyChildrensInheritedRoutes
  <2>2. below \subseteq Names
    BY DEF Below
  <2> HIDE DEF below, reached
  <2>3. toRemove \in SUBSET Keys /\ toAdd \in SUBSET Keys /\ \A k \in toAdd : R[k[2]] \in Nat
    BY <1>4, <2>2 DEF IsCostMap, Keys
  <2> HIDE DEF toRemove, toAdd
  <2>4. g \in [toAdd \union toRemove -> NextHop] /\ toAdd \union toRemove \in SUBSET Keys
    BY <2>3, NextHopType
  <2> HIDE DEF g
  <2> QED
    BY <2>1, <2>3, <2>4, StageIntro
<1> QED
  BY <1>1, <1>2, <1>3, <1>4

\* Short sequences.
LEMMA ShortSeqs ==
  ASSUME NEW S
  PROVE  /\ <<>> \in Seq(S)
         /\ \A a \in S : <<a>> \in Seq(S)
         /\ \A a \in S, b \in S : <<a, b>> \in Seq(S)
         /\ \A a \in S, b \in S, c \in S : <<a, b, c>> \in Seq(S)
         /\ \A a \in S, b \in S, c \in S, d \in S : <<a, b, c, d>> \in Seq(S)
  OBVIOUS

\* The computation of updates for a registration.
LEMMA RegistrationStages ==
  ASSUME NEW r \in [Names -> Entry], NEW n \in Names, NEW f \in Faces, NEW new \in Route
  PROVE  computeUpdatesForRegistration(r, n, f, new) \in Seq(StageType)
<1> DEFINE ancestors == getAncestorRoutes(r, n)
           set == setNextHop(n, f, AddNextHop(new.cost))
<1>1. /\ new.cost \in Nat /\ new.capture \in BOOLEAN /\ new.childInherit \in BOOLEAN
      /\ (~new.capture) \in BOOLEAN
  BY DEF Route
<1>2. IsCostMap(ancestors) /\ IsCostMap(Just(f, new)) /\ IsCostMap(<<>>)
  BY AncestorRoutesType, CostMaps
<1>3. set \in StageType
  BY <1>1, NextHopType, StagesType
<1> HIDE DEF ancestors, set
<1>4. createFibUpdatesForNewRibEntry(r, n, f, new) \in Seq(StageType)
  <2>1. IsCostMap(If(~new.capture, Only(ancestors, Faces \ {f})))
    BY <1>1, <1>2, CostMaps
  <2>2. IsCostMap(If(new.childInherit, Over(Just(f, new), If(~new.capture, ancestors))))
    BY <1>1, <1>2, CostMaps
  <2>3. IsCostMap(If(new.capture, ancestors))
    BY <1>1, <1>2, CostMaps
  <2> QED
    BY <1>3, <2>1, <2>2, <2>3, StagesType, ShortSeqs
    DEF createFibUpdatesForNewRibEntry, ancestors, set
<1>5. createFibUpdatesForNewRoute(r, n, f, new) \in Seq(StageType)
  <2> DEFINE on == ~hasCapture(r[n]) /\ new.capture
  <2>1. on \in BOOLEAN
    OBVIOUS
  <2>2. IsCostMap(If(on, ancestors)) /\ IsCostMap(If(new.childInherit, Just(f, new)))
    BY <1>1, <1>2, <2>1, CostMaps
  <2> QED
    BY <1>3, <2>2, StagesType, ShortSeqs DEF createFibUpdatesForNewRoute, ancestors, set
<1>6. ASSUME f \in DOMAIN r[n].routes
      PROVE  createFibUpdatesForUpdatedRoute(r, n, f, new) \in Seq(StageType)
  <2> DEFINE old == r[n].routes[f]
             turnedOn == ~old.childInherit /\ new.childInherit
             turnedOff == old.childInherit /\ ~new.childInherit
             recosted == /\ new.cost # old.cost /\ new.childInherit /\ old.childInherit
                         /\ new.capture = old.capture
             costStage == IF new.cost = old.cost THEN <<>> ELSE <<set>>
             onStage == modifyChildrensInheritedRoutes(r, n, Just(f, new), <<>>)
             offStage == modifyChildrensInheritedRoutes(r, n, Only(ancestors, {f}), Just(f, new))
             inheritStage == IF turnedOn \/ recosted THEN <<onStage>>
                             ELSE IF turnedOff THEN <<offStage>>
                             ELSE <<>>
             remStage == removeInheritedRoutes(r, n, ancestors)
             hideStage == modifyChildrensInheritedRoutes(r, n, <<>>, ancestors)
             addStage == addInheritedRoutes(n, Only(ancestors, Faces \ DOMAIN r[n].routes))
             showStage == modifyChildrensInheritedRoutes(r, n, ancestors, <<>>)
             captureStage == IF ~old.capture /\ new.capture THEN <<remStage, hideStage>>
                             ELSE IF old.capture /\ ~new.capture THEN <<addStage, showStage>>
                             ELSE <<>>
  <2>1. createFibUpdatesForUpdatedRoute(r, n, f, new) =
          costStage \o inheritStage \o captureStage
    BY Zenon DEF createFibUpdatesForUpdatedRoute, ancestors, set
  <2>2. /\ onStage \in StageType /\ offStage \in StageType /\ remStage \in StageType
        /\ hideStage \in StageType /\ addStage \in StageType /\ showStage \in StageType
    BY <1>2, CostMaps, StagesType
  <2> HIDE DEF onStage, offStage, remStage, hideStage, addStage, showStage
  <2>3. costStage \in Seq(StageType)
    BY <1>3, ShortSeqs
  <2>4. inheritStage \in Seq(StageType)
    BY <2>2, ShortSeqs
  <2>5. captureStage \in Seq(StageType)
    BY <2>2, ShortSeqs
  <2> HIDE DEF costStage, inheritStage, captureStage
  <2>6. costStage \o inheritStage \o captureStage \in Seq(StageType)
    BY <2>3, <2>4, <2>5
  <2> QED
    BY <2>1, <2>6, ShortSeqs
<1> QED
  BY <1>4, <1>5, <1>6 DEF computeUpdatesForRegistration

\* The computation of updates for an unregistration.
LEMMA UnregistrationStages ==
  ASSUME NEW r \in [Names -> Entry], NEW n \in Names, NEW f \in Faces
  PROVE  computeUpdatesForUnregistration(r, n, f) \in Seq(StageType)
<1>1. ASSUME f \in DOMAIN r[n].routes
      PROVE  createFibUpdatesForErasedRoute(r, n, f) \in Seq(StageType)
  <2> DEFINE old == r[n].routes[f]
             temp == eraseRoute(r[n], f)
             ancestors == getAncestorRoutes(r, n)
             captureWasTurnedOff == hasCapture(r[n]) /\ ~hasCapture(temp)
             unblocked == If(old.capture /\ captureWasTurnedOff, ancestors)
             inherit == IF old.capture THEN unblocked
                        ELSE If(old.childInherit /\ ~hasCapture(temp), ancestors)
             gone == If(old.childInherit, Just(f, old))
             own == Only(unblocked, Faces \ DOMAIN temp.routes)
             last == If(~hasCapture(temp) /\ temp.routes # <<>>, Only(ancestors, {f}))
  <2>1. createFibUpdatesForErasedRoute(r, n, f) =
          << setNextHop(n, f, RemoveNextHop), addInheritedRoutes(n, own),
             modifyChildrensInheritedRoutes(r, n, inherit, gone), addInheritedRoutes(n, last) >>
    BY Zenon DEF createFibUpdatesForErasedRoute, unblockedRoute
  <2>2. old \in Route
    BY <1>1, EntryFields
  <2>3. IsCostMap(ancestors)
    BY AncestorRoutesType
  <2>4. /\ (old.capture /\ captureWasTurnedOff) \in BOOLEAN
        /\ (old.childInherit /\ ~hasCapture(temp)) \in BOOLEAN
        /\ (~hasCapture(temp) /\ temp.routes # <<>>) \in BOOLEAN
        /\ old.childInherit \in BOOLEAN /\ old.capture \in BOOLEAN
    BY <2>2 DEF Route
  <2> HIDE DEF old, temp, ancestors, captureWasTurnedOff
  <2>5. IsCostMap(unblocked)
    BY <2>3, <2>4, CostMaps
  <2> HIDE DEF unblocked
  <2>6. IsCostMap(inherit)
    BY <2>3, <2>4, <2>5, CostMaps
  <2>7. IsCostMap(gone) /\ IsCostMap(own) /\ IsCostMap(last)
    BY <2>2, <2>3, <2>4, <2>5, CostMaps
  <2> HIDE DEF inherit, gone, own, last
  <2>8. /\ setNextHop(n, f, RemoveNextHop) \in StageType
        /\ addInheritedRoutes(n, own) \in StageType /\ addInheritedRoutes(n, last) \in StageType
        /\ modifyChildrensInheritedRoutes(r, n, inherit, gone) \in StageType
    BY <2>6, <2>7, NextHopType, StagesType
  <2> QED
    BY <2>1, <2>8, ShortSeqs
<1>2. createFibUpdatesForErasedRibEntry(r, n) \in Seq(StageType)
  <2> DEFINE keys == {n} \X {g \in Faces : r[n].inherited[g] > 0}
             fibs == [k \in keys |-> RemoveNextHop]
  <2>1. keys \in SUBSET Keys /\ fibs \in [keys -> NextHop]
    BY NextHopType DEF Keys
  <2>2. createFibUpdatesForErasedRibEntry(r, n) = <<Stage(fibs, {}, {})>>
    BY DEF createFibUpdatesForErasedRibEntry
  <2> HIDE DEF keys, fibs
  <2> QED
    BY <2>1, <2>2, StageIntro, ShortSeqs
<1>3. CASE f \in DOMAIN r[n].routes
  <2> DEFINE first == createFibUpdatesForErasedRoute(r, n, f)
             rest == IF DOMAIN r[n].routes = {f} THEN createFibUpdatesForErasedRibEntry(r, n)
                                                 ELSE <<>>
  <2>1. first \in Seq(StageType) /\ rest \in Seq(StageType)
    BY <1>1, <1>2, <1>3, ShortSeqs
  <2>2. computeUpdatesForUnregistration(r, n, f) = first \o rest
    BY <1>3 DEF computeUpdatesForUnregistration
  <2> HIDE DEF first, rest
  <2> QED
    BY <2>1, <2>2
<1>4. CASE f \notin DOMAIN r[n].routes
  BY <1>4, ShortSeqs DEF computeUpdatesForUnregistration
<1> QED
  BY <1>3, <1>4

\* A batch names a registered prefix and a face.
LEMMA UpdateFields ==
  ASSUME NEW u \in Update
  PROVE  /\ u.name \in Names /\ u.face \in Faces
         /\ u.action \in {"register", "unregister", "removeFace"}
         /\ u.action = "register" => u.route \in Route
  BY DEF Update

\* The computation of updates for a batch.
LEMMA ComputeUpdatesType ==
  ASSUME NEW r \in [Names -> Entry], NEW u \in Update
  PROVE  computeUpdates(r, u) \in Seq(StageType)
  BY UpdateFields, RegistrationStages, UnregistrationStages DEF computeUpdates

\* The FIB updates of a computation.
LEMMA FibUpdatesType ==
  ASSUME NEW stages \in Seq(StageType)
  PROVE  /\ DOMAIN FibUpdates(stages) \subseteq Keys
         /\ \A k \in DOMAIN FibUpdates(stages) : FibUpdates(stages)[k] \in NextHop
<1> DEFINE setting(k) == {i \in DOMAIN stages : k \in DOMAIN stages[i].fib}
           last(k) == CHOOSE i \in setting(k) : \A j \in setting(k) : j <= i
           keys == UNION {DOMAIN stages[i].fib : i \in DOMAIN stages}
<1>1. FibUpdates(stages) = [k \in keys |-> stages[last(k)].fib[k]]
  BY Zenon DEF FibUpdates
<1>2. \A i \in DOMAIN stages : /\ DOMAIN stages[i].fib \subseteq Keys
                               /\ \A k \in DOMAIN stages[i].fib : stages[i].fib[k] \in NextHop
  BY StageFields
<1>3. keys \subseteq Keys
  BY <1>2
<1>4. ASSUME NEW k \in keys PROVE stages[last(k)].fib[k] \in NextHop
  <2>1. Len(stages) \in Nat /\ DOMAIN stages = 1..Len(stages)
    OBVIOUS
  <2>2. setting(k) \in SUBSET (0..Len(stages)) /\ setting(k) # {}
    BY <2>1
  <2> HIDE DEF setting
  <2>3. \E i \in setting(k) : \A j \in setting(k) : j <= i
    BY <2>1, <2>2, LargestExists
  <2>4. last(k) \in setting(k)
    BY <2>3
  <2> HIDE DEF last
  <2> QED
    BY <1>2, <2>4 DEF setting
<1> HIDE DEF keys, last
<1> QED
  BY <1>1, <1>3, <1>4

----------------------------------------------------------------------------
(* Applying a batch                                                        *)

\* A route is inserted: the entry has it and its other routes.
LEMMA InsertRouteType ==
  ASSUME NEW e \in Entry, NEW f \in Faces, NEW new \in Route
  PROVE  /\ insertRoute(e, f, new) \in Entry
         /\ insertRoute(e, f, new).routes = Put(e.routes, f, new)
<1> DEFINE c == e.nCapture + (IF new.capture THEN 1 ELSE 0)
<1>1. /\ DOMAIN e.routes \subseteq Faces /\ \A g \in DOMAIN e.routes : e.routes[g] \in Route
      /\ e.inherited \in [Faces -> Nat] /\ e.nCapture \in Int
      /\ e = [routes |-> e.routes, inherited |-> e.inherited, nCapture |-> e.nCapture]
  BY EntryFields
<1>2. insertRoute(e, f, new) =
        [routes |-> Put(e.routes, f, new), inherited |-> e.inherited, nCapture |-> c]
  <2> DEFINE d == [e EXCEPT !.routes = Put(e.routes, f, new)]
  <2>1. d = [routes |-> Put(e.routes, f, new), inherited |-> e.inherited,
             nCapture |-> e.nCapture]
    BY <1>1
  <2>2. insertRoute(e, f, new) = [d EXCEPT !.nCapture = c]
    BY <1>1, <2>1 DEF insertRoute
  <2> HIDE DEF d, c
  <2> QED
    BY <2>1, <2>2
<1>3. c \in Int
  BY <1>1
<1>4. /\ DOMAIN Put(e.routes, f, new) \subseteq Faces
      /\ \A g \in DOMAIN Put(e.routes, f, new) : Put(e.routes, f, new)[g] \in Route
      /\ Put(e.routes, f, new) = [g \in DOMAIN Put(e.routes, f, new) |-> Put(e.routes, f, new)[g]]
  BY <1>1 DEF Put
<1> HIDE DEF c
<1> QED
  BY <1>1, <1>2, <1>3, <1>4, EntryIntro

\* A route is erased: the entry keeps its other routes.
LEMMA EraseRouteType ==
  ASSUME NEW e \in Entry, NEW f \in Faces
  PROVE  /\ eraseRoute(e, f) \in Entry
         /\ eraseRoute(e, f).routes = [g \in DOMAIN e.routes \ {f} |-> e.routes[g]]
<1> DEFINE c == e.nCapture - (IF e.routes[f].capture THEN 1 ELSE 0)
           rest == [g \in DOMAIN e.routes \ {f} |-> e.routes[g]]
<1>1. /\ DOMAIN e.routes \subseteq Faces /\ \A g \in DOMAIN e.routes : e.routes[g] \in Route
      /\ e.inherited \in [Faces -> Nat] /\ e.nCapture \in Int
      /\ e = [routes |-> e.routes, inherited |-> e.inherited, nCapture |-> e.nCapture]
  BY EntryFields
<1>2. eraseRoute(e, f) = [routes |-> rest, inherited |-> e.inherited, nCapture |-> c]
  <2> DEFINE d == [e EXCEPT !.routes = rest]
  <2>1. d = [routes |-> rest, inherited |-> e.inherited, nCapture |-> e.nCapture]
    BY <1>1
  <2>2. eraseRoute(e, f) = [d EXCEPT !.nCapture = c]
    BY <1>1, <2>1 DEF eraseRoute
  <2> HIDE DEF d, c, rest
  <2> QED
    BY <2>1, <2>2
<1>3. c \in Int
  BY <1>1
<1>4. /\ DOMAIN rest \subseteq Faces
      /\ \A g \in DOMAIN rest : rest[g] \in Route
      /\ rest = [g \in DOMAIN rest |-> rest[g]]
  BY <1>1
<1> HIDE DEF c, rest
<1> QED
  BY <1>1, <1>2, <1>3, <1>4, EntryIntro DEF rest

\* Rib::insert gives the name the route, and changes no other route.
LEMMA InsertType ==
  ASSUME rib \in [Names -> Entry], NEW n \in Names, NEW f \in Faces, NEW new \in Route
  PROVE  /\ insert(n, f, new) \in [Names -> Entry]
         /\ DOMAIN insert(n, f, new)[n].routes = DOMAIN rib[n].routes \union {f}
         /\ insert(n, f, new)[n].routes[f] = new
         /\ \A g \in DOMAIN rib[n].routes \ {f} :
              insert(n, f, new)[n].routes[g] = rib[n].routes[g]
         /\ \A m \in Names \ {n} : insert(n, f, new)[m] = rib[m]
<1> DEFINE t == insert(n, f, new)
           e == rib[n]
<1>1. /\ e \in Entry
      /\ DOMAIN e.routes \subseteq Faces /\ \A g \in DOMAIN e.routes : e.routes[g] \in Route
      /\ e.routes = [g \in DOMAIN e.routes |-> e.routes[g]]
      /\ e.inherited \in [Faces -> Nat] /\ e.nCapture \in Int
      /\ e = [routes |-> e.routes, inherited |-> e.inherited, nCapture |-> e.nCapture]
  BY EntryFields
<1>2. CASE f \in DOMAIN e.routes
  <2> DEFINE rs == [e.routes EXCEPT ![f] = new]
             d == [e EXCEPT !.routes = rs]
  <2>1. t = [rib EXCEPT ![n] = d]
    BY <1>2 DEF insert
  <2>2. /\ DOMAIN rs = DOMAIN e.routes /\ rs[f] = new
        /\ \A g \in DOMAIN e.routes \ {f} : rs[g] = e.routes[g]
        /\ rs = [g \in DOMAIN rs |-> rs[g]]
    BY <1>1, <1>2
  <2>3. d = [routes |-> rs, inherited |-> e.inherited, nCapture |-> e.nCapture]
    BY <1>1
  <2> HIDE DEF rs, d, e, t
  <2>4. d \in Entry
    BY <1>1, <2>2, <2>3, EntryIntro
  <2> QED
    BY <1>2, <2>1, <2>2, <2>3, <2>4 DEF e, t
<1>3. CASE f \notin DOMAIN e.routes
  <2>1. t = [rib EXCEPT ![n] = insertRoute(e, f, new)]
    BY <1>3 DEF insert
  <2>2. insertRoute(e, f, new) \in Entry /\ insertRoute(e, f, new).routes = Put(e.routes, f, new)
    BY <1>1, InsertRouteType
  <2> HIDE DEF t
  <2> QED
    BY <2>1, <2>2 DEF Put, t
<1> QED
  BY <1>2, <1>3

\* Rib::erase takes the route from the name, and changes no other route.
LEMMA EraseType ==
  ASSUME rib \in [Names -> Entry], NEW n \in Names, NEW f \in Faces
  PROVE  /\ erase(n, f) \in [Names -> Entry]
         /\ DOMAIN erase(n, f)[n].routes = DOMAIN rib[n].routes \ {f}
         /\ \A g \in DOMAIN rib[n].routes \ {f} : erase(n, f)[n].routes[g] = rib[n].routes[g]
         /\ \A m \in Names \ {n} : erase(n, f)[m] = rib[m]
<1>1. CASE f \notin DOMAIN rib[n].routes
  BY <1>1 DEF erase
<1>2. CASE DOMAIN rib[n].routes = {f}
  <2>1. erase(n, f) = [rib EXCEPT ![n] = NoEntry]
    BY <1>2 DEF erase
  <2>2. NoEntry \in Entry /\ DOMAIN NoEntry.routes = {}
    <3>1. /\ DOMAIN <<>> = {} /\ <<>> = [g \in DOMAIN <<>> |-> <<>>[g]]
          /\ [g \in Faces |-> 0] \in [Faces -> Nat] /\ 0 \in Int
      OBVIOUS
    <3> QED
      BY <3>1, EntryIntro DEF NoEntry
  <2> QED
    BY <1>2, <2>1, <2>2
<1>3. CASE f \in DOMAIN rib[n].routes /\ DOMAIN rib[n].routes # {f}
  <2>1. erase(n, f) = [rib EXCEPT ![n] = eraseRoute(rib[n], f)]
    BY <1>3 DEF erase
  <2>2. /\ eraseRoute(rib[n], f) \in Entry
        /\ eraseRoute(rib[n], f).routes = [g \in DOMAIN rib[n].routes \ {f} |-> rib[n].routes[g]]
    BY EraseRouteType
  <2> QED
    BY <2>1, <2>2
<1> QED
  BY <1>1, <1>2, <1>3

----------------------------------------------------------------------------
(* The records of inherited routes                                         *)

RecordStages == Seq([rem : SUBSET Keys, add : SUBSET Keys])

\* The indices of a computation that have a property are finitely many.
LEMMA FiniteIndices ==
  ASSUME NEW m \in Nat, NEW S \in SUBSET (1..m)
  PROVE  IsFiniteSet(S) /\ Cardinality(S) \in Nat
<1>1. IsFiniteSet(1..m)
  BY FS_Interval
<1> QED
  BY <1>1, FS_Subset, FS_CardinalityType

\* If a record is there whenever it is removed, no number of records is negative.
LEMMA RecordsNatural ==
  ASSUME NEW stages \in RecordStages, NEW t \in [Names -> Entry], modifiable(t, stages),
         NEW n \in Names, NEW f \in Faces
  PROVE  t[n].inherited[f] - Cardinality({i \in DOMAIN stages : <<n, f>> \in stages[i].rem})
           + Cardinality({i \in DOMAIN stages : <<n, f>> \in stages[i].add}) \in Nat
<1> DEFINE k == <<n, f>>
           removing == {i \in DOMAIN stages : k \in stages[i].rem}
           adding == {i \in DOMAIN stages : k \in stages[i].add}
           have == t[n].inherited[f]
<1>0. /\ Len(stages) \in Nat /\ DOMAIN stages = 1..Len(stages)
      /\ have \in Nat
  <2>1. t[n] \in Entry
    OBVIOUS
  <2>2. t[n].inherited \in [Faces -> Nat]
    BY <2>1, EntryFields
  <2> QED
    BY <2>2 DEF RecordStages
<1>1. /\ removing \in SUBSET (1..Len(stages)) /\ adding \in SUBSET (1..Len(stages))
      /\ Cardinality(removing) \in Nat /\ Cardinality(adding) \in Nat
      /\ IsFiniteSet(removing) /\ IsFiniteSet(adding)
  BY <1>0, FiniteIndices
<1>2. CASE removing = {}
  BY <1>0, <1>1, <1>2, FS_EmptySet
<1>3. CASE removing # {}
  <2>1. PICK i \in removing : \A j \in removing : j <= i
    <3>1. removing \in SUBSET (0..Len(stages))
      BY <1>0, <1>1
    <3> HIDE DEF removing
    <3> QED
      BY <1>0, <1>3, <3>1, LargestExists
  <2>2. i \in 1..Len(stages) /\ k \in stages[i].rem
    BY <1>1, <2>1
  <2> DEFINE before == SubSeq(stages, 1, i - 1)
             removed == {j \in DOMAIN before : k \in before[j].rem}
             added == {j \in DOMAIN before : k \in before[j].add}
  <2>3. modifyInheritedRoutes(t, before)[n].inherited[f] > 0
    <3>1. \A j \in DOMAIN stages : \A x \in stages[j].rem :
            modifyInheritedRoutes(t, SubSeq(stages, 1, j - 1))[x[1]].inherited[x[2]] > 0
      BY DEF modifiable
    <3> QED
      BY <1>0, <2>2, <3>1
  <2>4. have - Cardinality(removed) + Cardinality(added) > 0
    <3>1. modifyInheritedRoutes(t, before)[n] =
            [t[n] EXCEPT !.inherited =
               [g \in Faces |-> t[n].inherited[g]
                  - Cardinality({j \in DOMAIN before : <<n, g>> \in before[j].rem})
                  + Cardinality({j \in DOMAIN before : <<n, g>> \in before[j].add})]]
      BY Zenon DEF modifyInheritedRoutes
    <3>2. t[n] = [routes |-> t[n].routes, inherited |-> t[n].inherited, nCapture |-> t[n].nCapture]
      BY EntryFields
    <3>3. modifyInheritedRoutes(t, before)[n].inherited =
            [g \in Faces |-> t[n].inherited[g]
                  - Cardinality({j \in DOMAIN before : <<n, g>> \in before[j].rem})
                  + Cardinality({j \in DOMAIN before : <<n, g>> \in before[j].add})]
      BY <3>1, <3>2
    <3> QED
      BY <2>3, <3>3
  <2>5. DOMAIN before = 1..(i - 1) /\ \A j \in 1..(i - 1) : before[j] = stages[j]
    BY <1>0, <2>2 DEF RecordStages
  <2>6. removed = removing \ {i} /\ added \subseteq adding
    <3>1. \A j \in removing : j # i => j \in 1..(i - 1)
      BY <1>1, <2>1, <2>2
    <3>2. \A j \in 1..(i - 1) : j \in DOMAIN stages /\ j # i
      BY <1>0, <2>2
    <3> HIDE DEF before
    <3> QED
      BY <2>5, <3>1, <3>2
  <2> HIDE DEF before, removed, added, removing, adding, have
  <2>7. Cardinality(removed) = Cardinality(removing) - 1
    BY <1>1, <2>1, <2>6, FS_RemoveElement
  <2>8. Cardinality(added) \in Nat /\ Cardinality(added) <= Cardinality(adding)
    BY <1>1, <2>6, FS_Subset, FS_CardinalityType
  <2>9. have - Cardinality(removing) + Cardinality(adding) \in Nat
    BY <1>0, <1>1, <2>4, <2>7, <2>8
  <2> QED
    BY <2>9 DEF have, removing, adding
<1> QED
  BY <1>2, <1>3

\* modifyInheritedRoutes changes no route.
LEMMA ModifyType ==
  ASSUME NEW stages \in RecordStages, NEW t \in [Names -> Entry], modifiable(t, stages)
  PROVE  /\ modifyInheritedRoutes(t, stages) \in [Names -> Entry]
         /\ \A n \in Names : modifyInheritedRoutes(t, stages)[n].routes = t[n].routes
<1> DEFINE inh(n) == [f \in Faces |-> t[n].inherited[f]
                        - Cardinality({i \in DOMAIN stages : <<n, f>> \in stages[i].rem})
                        + Cardinality({i \in DOMAIN stages : <<n, f>> \in stages[i].add})]
<1>1. modifyInheritedRoutes(t, stages) = [n \in Names |-> [t[n] EXCEPT !.inherited = inh(n)]]
  BY Zenon DEF modifyInheritedRoutes
<1>2. ASSUME NEW n \in Names
      PROVE  [t[n] EXCEPT !.inherited = inh(n)] \in Entry
             /\ [t[n] EXCEPT !.inherited = inh(n)].routes = t[n].routes
  <2>1. inh(n) \in [Faces -> Nat]
    BY RecordsNatural
  <2>2. /\ DOMAIN t[n].routes \subseteq Faces /\ \A f \in DOMAIN t[n].routes : t[n].routes[f] \in Route
        /\ t[n].routes = [f \in DOMAIN t[n].routes |-> t[n].routes[f]]
        /\ t[n].nCapture \in Int
        /\ t[n] = [routes |-> t[n].routes, inherited |-> t[n].inherited, nCapture |-> t[n].nCapture]
    BY EntryFields
  <2> HIDE DEF inh
  <2>3. [t[n] EXCEPT !.inherited = inh(n)] =
          [routes |-> t[n].routes, inherited |-> inh(n), nCapture |-> t[n].nCapture]
    BY <2>2
  <2> QED
    BY <2>1, <2>2, <2>3, EntryIntro
<1> HIDE DEF inh
<1> QED
  BY <1>1, <1>2

----------------------------------------------------------------------------
(* Bags of commands                                                        *)

\* One command fewer: the others stay as they were.
LEMMA BagRemove ==
  ASSUME NEW B, IsABag(B), NEW c \in BagToSet(B), NEW R, R = B (-) SetToBag({c})
  PROVE  /\ IsABag(R) /\ BagToSet(R) \subseteq BagToSet(B)
         /\ \A d \in BagToSet(B) \ {c} : d \in BagToSet(R) /\ R[d] = B[d]
         /\ B[c] = 1 => c \notin BagToSet(R)
<1> DEFINE copies(d) == IF d \in {c} THEN B[d] - 1 ELSE B[d]
<1>1. R = [d \in {e \in DOMAIN B : copies(e) > 0} |-> copies(d)]
  BY DEF SetToBag, (-)
<1>2. \A d \in DOMAIN B : B[d] \in Nat /\ B[d] > 0
  BY DEF IsABag
<1>3. DOMAIN R = {e \in DOMAIN B : copies(e) > 0}
  BY <1>1
<1>4. \A d \in DOMAIN R : copies(d) \in Nat /\ copies(d) > 0
  BY <1>2, <1>3
<1>5. \A d \in DOMAIN B \ {c} : d \in DOMAIN R /\ R[d] = B[d]
  BY <1>1, <1>2
<1>6. B[c] = 1 => c \notin DOMAIN R
  BY <1>3
<1> HIDE DEF copies
<1>7. R = [d \in DOMAIN R |-> copies(d)]
  BY <1>1
<1>8. IsABag(R)
  BY <1>4, <1>7 DEF IsABag
<1> QED
  BY <1>3, <1>5, <1>6, <1>8 DEF BagToSet

\* More commands: one of each.
LEMMA BagAdd ==
  ASSUME NEW B, IsABag(B), NEW S, NEW R, R = B (+) SetToBag(S)
  PROVE  /\ IsABag(R) /\ BagToSet(R) = BagToSet(B) \union S
         /\ \A d \in BagToSet(B) \ S : R[d] = B[d]
         /\ \A d \in S \ BagToSet(B) : R[d] = 1
<1> DEFINE copies(d) == (IF d \in DOMAIN B THEN B[d] ELSE 0) + (IF d \in S THEN 1 ELSE 0)
<1>1. R = [d \in DOMAIN B \union S |-> copies(d)]
  BY DEF SetToBag, (+)
<1>2. \A d \in DOMAIN B : B[d] \in Nat /\ B[d] > 0
  BY DEF IsABag
<1>3. \A d \in DOMAIN B \union S : copies(d) \in Nat /\ copies(d) > 0
  BY <1>2
<1> QED
  BY <1>1, <1>2, <1>3 DEF BagToSet, IsABag

\* The commands of a batch are on their way once each.
LEMMA CommandFields ==
  ASSUME NEW u, NEW batch
  PROVE  /\ Command(u, batch).update = u /\ Command(u, batch).batch = batch
         /\ Command(u, batch) =
              [update |-> Command(u, batch).update, verb |-> Command(u, batch).verb,
               batch |-> Command(u, batch).batch, nTimeouts |-> Command(u, batch).nTimeouts]
  BY DEF Command

----------------------------------------------------------------------------
(* The queue and the commands under way                                    *)

\* The updates whose answers the batch in progress waits for.
Waiting == IF forBatchFace # {} THEN forBatchFace ELSE forOtherFaces

\* The commands are records, and the FIB updater keeps the updates of the batch's face
\* apart from the others.
Shape ==
  /\ IsABag(sent)
  /\ \A c \in BagToSet(sent) :
       c = [update |-> c.update, verb |-> c.verb, batch |-> c.batch, nTimeouts |-> c.nTimeouts]
  /\ \A u \in forBatchFace : u.face = current.face
  /\ \A u \in forOtherFaces : u.face # current.face

\* While the program runs, a handler leaves queued batches only behind one in progress,
\* and every update that is waited for has a command under way.
QueueInv ==
  stopped = "no" =>
    /\ ~sending /\ queue # <<>> => inProgress
    /\ inProgress => /\ Waiting # {}
                     /\ \A u \in Waiting : \E c \in BagToSet(sent) : c.update = u

\* While the updates are undisturbed, there is one command for an update, of the batch in
\* progress, which waits for it.
BatchInv ==
  Undisturbed =>
    \A c \in BagToSet(sent) :
      /\ inProgress /\ c.batch = current /\ c.update \in Waiting /\ sent[c] = 1
      /\ \A d \in BagToSet(sent) : c.update = d.update => c = d

UpdaterInv == Shape /\ QueueInv /\ BatchInv

\* Nothing is queued or sent initially.
LEMMA InitUpdaterInv == Init => UpdaterInv
<1> SUFFICES ASSUME Init PROVE UpdaterInv
  OBVIOUS
<1>1. DOMAIN sent = {} /\ sent = [e \in {} |-> 1]
  BY DEF Init, EmptyBag, SetToBag
<1>2. IsABag(sent)
  BY <1>1 DEF IsABag
<1> QED
  BY <1>1, <1>2 DEF Init, UpdaterInv, Shape, QueueInv, BatchInv, BagToSet

\* The commands left once c is answered.
LEMMA AnsweredInv ==
  ASSUME Shape, NEW c \in BagToSet(sent)
  PROVE  /\ IsABag(Answered(c)) /\ BagToSet(Answered(c)) \subseteq BagToSet(sent)
         /\ \A d \in BagToSet(sent) \ {c} :
              d \in BagToSet(Answered(c)) /\ Answered(c)[d] = sent[d]
         /\ sent[c] = 1 => c \notin BagToSet(Answered(c))
  BY BagRemove DEF Shape, Answered

\* The end of a batch leaves the handler in sendBatchFromQueue or ends the program.
LEMMA BatchEnds ==
  ASSUME NEW batch, NEW stages, onFibUpdateSuccess(batch, stages) \/ onFibUpdateFailure
  PROVE  inProgress' = FALSE /\ (sending' = TRUE \/ stopped' = "assert")
  BY DEF onFibUpdateSuccess, onFibUpdateFailure

----------------------------------------------------------------------------
(* The actions                                                             *)

\* An own update is answered.
LEMMA OwnUpdateInv ==
  ASSUME UpdaterInv, NEW c \in BagToSet(sent), Ready, c.update.face = current.face,
         OwnUpdateDone(c), UNCHANGED <<queue, current, mishaps>>
  PROVE  UpdaterInv'
<1> DEFINE left == forBatchFace \ {c.update}
           sentNow == Answered(c)
<1>1. /\ IsABag(sentNow) /\ BagToSet(sentNow) \subseteq BagToSet(sent)
      /\ \A d \in BagToSet(sent) \ {c} : d \in BagToSet(sentNow) /\ sentNow[d] = sent[d]
      /\ sent[c] = 1 => c \notin BagToSet(sentNow)
  BY AnsweredInv DEF UpdaterInv
<1>2. forBatchFace' = left /\ forOtherFaces' = forOtherFaces
  BY DEF OwnUpdateDone
<1>3. Undisturbed =>
        /\ c.batch = current /\ inProgress /\ c.update \in forBatchFace
        /\ left = {} => BagToSet(sentNow) = {}
  <2> SUFFICES ASSUME Undisturbed
               PROVE  /\ c.batch = current /\ inProgress /\ c.update \in forBatchFace
                      /\ left = {} => BagToSet(sentNow) = {}
    OBVIOUS
  <2>1. c.batch = current /\ inProgress /\ c.update \in Waiting /\ sent[c] = 1
    BY DEF UpdaterInv, BatchInv
  <2>2. c.update \in forBatchFace
    BY <2>1 DEF UpdaterInv, Shape, Waiting
  <2>3. ASSUME left = {} PROVE BagToSet(sentNow) = {}
    <3>1. \A d \in BagToSet(sent) : d.update \in forBatchFace
      BY <2>2 DEF UpdaterInv, BatchInv, Waiting
    <3>2. \A d \in BagToSet(sent) : d.update = c.update
      BY <2>3, <3>1
    <3>3. \A d \in BagToSet(sent) : d = c
      BY <3>2 DEF UpdaterInv, BatchInv
    <3> QED
      BY <1>1, <2>1, <3>3
  <2> QED
    BY <2>1, <2>2, <2>3
<1> HIDE DEF sentNow
<1>4. CASE left # {} /\ sent' = sentNow /\ UNCHANGED <<rib, inProgress, timers, sending, stopped>>
  <2>1. Shape'
    BY <1>1, <1>2, <1>4 DEF UpdaterInv, Shape
  <2>2. QueueInv'
    BY <1>1, <1>2, <1>4 DEF UpdaterInv, QueueInv, Waiting
  <2>3. BatchInv'
    BY <1>1, <1>2, <1>3, <1>4 DEF UpdaterInv, BatchInv, Waiting, Undisturbed
  <2> QED
    BY <2>1, <2>2, <2>3 DEF UpdaterInv
<1>5. CASE /\ left = {} /\ forOtherFaces # {}
           /\ sent' = sentNow (+) sendUpdates(forOtherFaces, c.batch)
           /\ UNCHANGED <<rib, inProgress, timers, sending, stopped>>
  <2> DEFINE S == {Command(u, c.batch) : u \in forOtherFaces}
  <2>1. sent' = sentNow (+) SetToBag(S)
    BY <1>5 DEF sendUpdates
  <2>2. \A d \in S : /\ d.update \in forOtherFaces /\ d.batch = c.batch
                     /\ d = [update |-> d.update, verb |-> d.verb, batch |-> d.batch,
                             nTimeouts |-> d.nTimeouts]
    BY CommandFields
  <2>3. \A u \in forOtherFaces : \E d \in S : d.update = u
    BY CommandFields
  <2>4. \A d \in S, e \in S : d.update = e.update => d = e
    BY CommandFields
  <2> HIDE DEF S
  <2>5. /\ IsABag(sent') /\ BagToSet(sent') = BagToSet(sentNow) \union S
        /\ \A d \in S \ BagToSet(sentNow) : sent'[d] = 1
    BY <1>1, <2>1, BagAdd
  <2>6. Shape'
    BY <1>1, <1>2, <2>2, <2>5 DEF UpdaterInv, Shape
  <2>7. Waiting' = forOtherFaces
    BY <1>2, <1>5 DEF Waiting
  <2>8. QueueInv'
    BY <1>5, <2>3, <2>5, <2>7 DEF UpdaterInv, QueueInv
  <2>9. BatchInv'
    BY <1>3, <1>5, <2>2, <2>4, <2>5, <2>7 DEF BatchInv, Undisturbed
  <2> QED
    BY <2>6, <2>8, <2>9 DEF UpdaterInv
<1>6. CASE left = {} /\ sent' = sentNow /\ onFibUpdateSuccess(c.batch, inherited)
  <2>1. inProgress' = FALSE /\ (sending' = TRUE \/ stopped' = "assert")
    BY <1>6, BatchEnds
  <2>2. Shape'
    BY <1>1, <1>2, <1>6 DEF UpdaterInv, Shape
  <2>3. QueueInv'
    BY <2>1 DEF QueueInv
  <2>4. BatchInv'
    BY <1>3, <1>6 DEF BatchInv, Undisturbed
  <2> QED
    BY <2>2, <2>3, <2>4 DEF UpdaterInv
<1> QED
  BY <1>4, <1>5, <1>6 DEF OwnUpdateDone, sentNow

\* An update of another face is answered.
LEMMA OtherUpdateInv ==
  ASSUME UpdaterInv, NEW c \in BagToSet(sent), Ready, c.update.face # current.face,
         OtherUpdateDone(c), UNCHANGED <<queue, current, mishaps>>
  PROVE  UpdaterInv'
<1> DEFINE left == forOtherFaces \ {c.update}
           sentNow == Answered(c)
<1>1. /\ IsABag(sentNow) /\ BagToSet(sentNow) \subseteq BagToSet(sent)
      /\ \A d \in BagToSet(sent) \ {c} : d \in BagToSet(sentNow) /\ sentNow[d] = sent[d]
      /\ sent[c] = 1 => c \notin BagToSet(sentNow)
  BY AnsweredInv DEF UpdaterInv
<1>2. forOtherFaces' = left /\ forBatchFace' = forBatchFace /\ sent' = sentNow
  BY DEF OtherUpdateDone
<1>3. Undisturbed =>
        /\ inProgress /\ forBatchFace = {} /\ c.update \in forOtherFaces
        /\ left = {} => BagToSet(sentNow) = {}
  <2> SUFFICES ASSUME Undisturbed
               PROVE  /\ inProgress /\ forBatchFace = {} /\ c.update \in forOtherFaces
                      /\ left = {} => BagToSet(sentNow) = {}
    OBVIOUS
  <2>1. inProgress /\ c.update \in Waiting /\ sent[c] = 1
    BY DEF UpdaterInv, BatchInv
  <2>2. c.update \in forOtherFaces /\ forBatchFace = {}
    BY <2>1 DEF UpdaterInv, Shape, Waiting
  <2>3. ASSUME left = {} PROVE BagToSet(sentNow) = {}
    <3>1. \A d \in BagToSet(sent) : d.update \in forOtherFaces
      BY <2>2 DEF UpdaterInv, BatchInv, Waiting
    <3>2. \A d \in BagToSet(sent) : d.update = c.update
      BY <2>3, <3>1
    <3>3. \A d \in BagToSet(sent) : d = c
      BY <3>2 DEF UpdaterInv, BatchInv
    <3> QED
      BY <1>1, <2>1, <3>3
  <2> QED
    BY <2>1, <2>2, <2>3
<1> HIDE DEF sentNow
<1>4. Shape'
  BY <1>1, <1>2 DEF UpdaterInv, Shape
<1>5. CASE left # {} /\ UNCHANGED <<rib, inProgress, timers, sending, stopped>>
  <2>1. \A u \in forBatchFace : u # c.update
    BY DEF UpdaterInv, Shape
  <2>2. Waiting' = IF forBatchFace # {} THEN forBatchFace ELSE left
    BY <1>2 DEF Waiting
  <2>3. Waiting' \subseteq Waiting \ {c.update} /\ Waiting' # {}
    BY <1>5, <2>1, <2>2 DEF Waiting
  <2>4. QueueInv'
    BY <1>1, <1>2, <1>5, <2>3 DEF UpdaterInv, QueueInv
  <2>5. BatchInv'
    BY <1>1, <1>2, <1>3, <1>5, <2>2 DEF UpdaterInv, BatchInv, Waiting, Undisturbed
  <2> QED
    BY <1>4, <2>4, <2>5 DEF UpdaterInv
<1>6. CASE left = {} /\ onFibUpdateSuccess(c.batch, inherited)
  <2>1. inProgress' = FALSE /\ (sending' = TRUE \/ stopped' = "assert")
    BY <1>6, BatchEnds
  <2>2. QueueInv'
    BY <2>1 DEF QueueInv
  <2>3. BatchInv'
    BY <1>2, <1>3, <1>6 DEF BatchInv, Undisturbed
  <2> QED
    BY <1>4, <2>2, <2>3 DEF UpdaterInv
<1> QED
  BY <1>5, <1>6 DEF OtherUpdateDone

\* A batch is refused for a face that is gone: nothing of it may be outstanding.
LEMMA FailureInv ==
  ASSUME UpdaterInv, NEW c \in BagToSet(sent), sent' = Answered(c), onFibUpdateFailure,
         mishaps' = mishaps \union (IF Answered(c) # EmptyBag THEN {"overlap"} ELSE {}),
         UNCHANGED <<forBatchFace, forOtherFaces, queue, current>>
  PROVE  UpdaterInv'
<1>1. IsABag(Answered(c)) /\ BagToSet(Answered(c)) \subseteq BagToSet(sent)
  BY AnsweredInv DEF UpdaterInv
<1>2. Shape'
  BY <1>1 DEF UpdaterInv, Shape
<1>3. QueueInv'
  BY BatchEnds DEF QueueInv
<1>4. BatchInv'
  <2>1. Undisturbed' => sent' = EmptyBag
    BY DEF Undisturbed
  <2>2. BagToSet(EmptyBag) = {}
    BY DEF BagToSet, EmptyBag, SetToBag
  <2> QED
    BY <2>1, <2>2 DEF BatchInv
<1> QED
  BY <1>2, <1>3, <1>4 DEF UpdaterInv

\* A command that is sent again is for the same update and batch.
LEMMA TimeoutCommand ==
  ASSUME Shape, NEW c \in BagToSet(sent),
         NEW again, again = [c EXCEPT !.verb = "add", !.nTimeouts = @ + 1]
  PROVE  /\ again.update = c.update /\ again.batch = c.batch
         /\ again = [update |-> again.update, verb |-> again.verb, batch |-> again.batch,
                     nTimeouts |-> again.nTimeouts]
<1>1. PICK u, v, b, n : c = [update |-> u, verb |-> v, batch |-> b, nTimeouts |-> n]
  BY DEF Shape
<1> DEFINE d == [c EXCEPT !.verb = "add"]
<1>2. d = [update |-> u, verb |-> "add", batch |-> b, nTimeouts |-> n] /\ c.nTimeouts = n
  BY <1>1
<1>3. again = [d EXCEPT !.nTimeouts = n + 1]
  BY <1>2
<1> HIDE DEF d
<1>4. again = [update |-> u, verb |-> "add", batch |-> b, nTimeouts |-> n + 1]
  BY <1>2, <1>3
<1> QED
  BY <1>1, <1>4

\* A command times out: it is sent again for the same update, or the program ends.
LEMMA TimeoutInv ==
  ASSUME UpdaterInv, NEW c \in BagToSet(sent), OnTimeout(c)
  PROVE  UpdaterInv'
<1> DEFINE again == [c EXCEPT !.verb = "add", !.nTimeouts = @ + 1]
           sentNow == Answered(c)
<1>1. /\ IsABag(sentNow) /\ BagToSet(sentNow) \subseteq BagToSet(sent)
      /\ \A d \in BagToSet(sent) \ {c} : d \in BagToSet(sentNow) /\ sentNow[d] = sent[d]
      /\ sent[c] = 1 => c \notin BagToSet(sentNow)
  BY AnsweredInv DEF UpdaterInv
<1>2. /\ UNCHANGED <<queue, inProgress, current, forBatchFace, forOtherFaces, sending>>
      /\ Undisturbed' => Undisturbed
  BY DEF OnTimeout, ribVars, updaterVars, Undisturbed
<1>3. Waiting' = Waiting
  BY <1>2 DEF Waiting
<1>4. CASE stopped' = stopped /\ sent' = sentNow (+) SetToBag({again})
  <2>1. /\ again.update = c.update /\ again.batch = c.batch
        /\ again = [update |-> again.update, verb |-> again.verb, batch |-> again.batch,
                    nTimeouts |-> again.nTimeouts]
    BY TimeoutCommand DEF UpdaterInv
  <2> HIDE DEF again, sentNow
  <2>2. /\ IsABag(sent') /\ BagToSet(sent') = BagToSet(sentNow) \union {again}
        /\ \A d \in BagToSet(sentNow) \ {again} : sent'[d] = sentNow[d]
        /\ again \notin BagToSet(sentNow) => sent'[again] = 1
    BY <1>1, <1>4, BagAdd
  <2>3. Shape'
    BY <1>1, <1>2, <2>1, <2>2 DEF UpdaterInv, Shape
  <2>4. \A u : (\E d \in BagToSet(sent) : d.update = u) => \E d \in BagToSet(sent') : d.update = u
    BY <1>1, <2>1, <2>2
  <2>5. QueueInv'
    BY <1>2, <1>3, <1>4, <2>4 DEF UpdaterInv, QueueInv
  <2>6. BatchInv'
    <3> SUFFICES ASSUME Undisturbed'
                 PROVE  \A d \in BagToSet(sent') :
                          /\ inProgress /\ d.batch = current /\ d.update \in Waiting
                          /\ sent'[d] = 1
                          /\ \A e \in BagToSet(sent') : d.update = e.update => d = e
      BY <1>2, <1>3 DEF BatchInv
    <3>1. \A d \in BagToSet(sent) :
            /\ inProgress /\ d.batch = current /\ d.update \in Waiting /\ sent[d] = 1
            /\ \A e \in BagToSet(sent) : d.update = e.update => d = e
      BY <1>2 DEF UpdaterInv, BatchInv
    <3>2. \A d \in BagToSet(sentNow) : d # c /\ d.update # c.update
      BY <1>1, <3>1
    <3>3. again \notin BagToSet(sentNow)
      BY <2>1, <3>2
    <3> QED
      BY <1>1, <2>1, <2>2, <3>1, <3>2, <3>3
  <2> QED
    BY <2>3, <2>5, <2>6 DEF UpdaterInv
<1>5. CASE stopped' = "error" /\ sent' = sentNow
  <2> HIDE DEF sentNow
  <2>1. Shape'
    BY <1>1, <1>2, <1>5 DEF UpdaterInv, Shape
  <2>2. QueueInv'
    BY <1>5 DEF QueueInv
  <2>3. BatchInv'
    <3>1. ASSUME NEW d \in BagToSet(sentNow), sent[d] = 1 PROVE sentNow[d] = 1
      BY <1>1, <3>1
    <3> QED
      BY <1>1, <1>2, <1>3, <1>5, <3>1 DEF UpdaterInv, BatchInv
  <2> QED
    BY <2>1, <2>2, <2>3 DEF UpdaterInv
<1> QED
  BY <1>4, <1>5 DEF OnTimeout

\* Sending a batch may add to the mishaps, but never a retry, an overlap or a refresh.
LEMMA SendBatchMishaps ==
  ASSUME SendBatchFromQueue
  PROVE  mishaps \subseteq mishaps' /\ mishaps' \subseteq mishaps \union {"flag", "exposed"}
<1> DEFINE X == IF flagged(Head(queue)) THEN {"flag"} ELSE {}
           Y == IF exposes(Head(queue), DOMAIN FibUpdates(computeUpdates(rib, Head(queue))))
                THEN {"exposed"} ELSE {}
<1>1. mishaps' = mishaps \union X \union Y
  BY Zenon DEF SendBatchFromQueue
<1>2. X \subseteq {"flag"} /\ Y \subseteq {"exposed"}
  OBVIOUS
<1> HIDE DEF X, Y
<1> QED
  BY <1>1, <1>2

\* Sending the next batch.
LEMMA SendBatchInv ==
  ASSUME UpdaterInv, SendBatchFromQueue
  PROVE  UpdaterInv'
<1>0. ~inProgress /\ mishaps \subseteq mishaps'
  BY SendBatchMishaps DEF SendBatchFromQueue, mayAdvance
<1>1. PICK batch, own, others :
        /\ current' = batch /\ forBatchFace' = own /\ forOtherFaces' = others
        /\ \A u \in own : u.face = batch.face
        /\ \A u \in others : u.face # batch.face
        /\ \/ /\ own \union others # {}
              /\ sent' = sent (+) sendUpdates(IF own # {} THEN own ELSE others, batch)
              /\ inProgress' = TRUE /\ sending' = FALSE
           \/ /\ own \union others = {}
              /\ onFibUpdateSuccess(batch, inherited')
              /\ UNCHANGED sent
  <2> DEFINE batch == Head(queue)
             stages == computeUpdates(rib, batch)
             fibUpdates == FibUpdates(stages)
             updates == {[name |-> k[1], face |-> k[2], action |-> fibUpdates[k].action,
                          cost |-> fibUpdates[k].cost] : k \in DOMAIN fibUpdates}
             own == {u \in updates : u.face = batch.face /\ batch.action # "removeFace"}
             others == {u \in updates : u.face # batch.face}
  <2>1. /\ current' = batch /\ forBatchFace' = own /\ forOtherFaces' = others
        /\ \/ /\ own \union others # {}
              /\ sent' = sent (+) sendUpdates(IF own # {} THEN own ELSE others, batch)
              /\ inProgress' = TRUE /\ sending' = FALSE
           \/ /\ own \union others = {}
              /\ onFibUpdateSuccess(batch, inherited')
              /\ UNCHANGED sent
    BY Zenon DEF SendBatchFromQueue
  <2>2. /\ \A u \in own : u.face = batch.face
        /\ \A u \in others : u.face # batch.face
    OBVIOUS
  <2> HIDE DEF own, others, updates, batch
  <2> QED
    BY <2>1, <2>2
<1>2. Undisturbed' => BagToSet(sent) = {}
  BY <1>0 DEF UpdaterInv, BatchInv, Undisturbed
<1>3. CASE /\ own \union others # {}
           /\ sent' = sent (+) sendUpdates(IF own # {} THEN own ELSE others, batch)
           /\ inProgress' = TRUE /\ sending' = FALSE
  <2> DEFINE S == {Command(u, batch) : u \in Waiting'}
  <2>1. Waiting' # {} /\ Waiting' = IF own # {} THEN own ELSE others
    BY <1>1, <1>3 DEF Waiting
  <2>2. sent' = sent (+) SetToBag(S)
    BY <1>3, <2>1 DEF sendUpdates
  <2>3. \A d \in S : /\ d.update \in Waiting' /\ d.batch = batch
                     /\ d = [update |-> d.update, verb |-> d.verb, batch |-> d.batch,
                             nTimeouts |-> d.nTimeouts]
    BY CommandFields
  <2>4. \A u \in Waiting' : \E d \in S : d.update = u
    BY CommandFields
  <2>5. \A d \in S, e \in S : d.update = e.update => d = e
    BY CommandFields
  <2> HIDE DEF S
  <2>6. /\ IsABag(sent') /\ BagToSet(sent') = BagToSet(sent) \union S
        /\ \A d \in S \ BagToSet(sent) : sent'[d] = 1
    BY <2>2, BagAdd DEF UpdaterInv, Shape
  <2>7. Shape'
    BY <1>1, <2>3, <2>6 DEF UpdaterInv, Shape
  <2>8. QueueInv'
    BY <1>3, <2>1, <2>4, <2>6 DEF QueueInv
  <2>9. BatchInv'
    BY <1>1, <1>2, <1>3, <2>3, <2>5, <2>6 DEF BatchInv
  <2> QED
    BY <2>7, <2>8, <2>9 DEF UpdaterInv
<1>4. CASE /\ own \union others = {}
           /\ onFibUpdateSuccess(batch, inherited')
           /\ UNCHANGED sent
  <2>1. inProgress' = FALSE /\ (sending' = TRUE \/ stopped' = "assert")
    BY <1>4, BatchEnds
  <2>2. Shape'
    BY <1>1, <1>4 DEF UpdaterInv, Shape
  <2>3. QueueInv'
    BY <2>1 DEF QueueInv
  <2>4. BatchInv'
    BY <1>2, <1>4 DEF BatchInv
  <2> QED
    BY <2>2, <2>3, <2>4 DEF UpdaterInv
<1> QED
  BY <1>1, <1>3, <1>4

\* The other steps only queue batches.
LEMMA OtherStepsInv ==
  ASSUME UpdaterInv, UNCHANGED <<updaterVars, inProgress, sent, stopped>>,
         Undisturbed' => Undisturbed,
         sending' = TRUE \/ UNCHANGED <<queue, sending>> \/ (~mayAdvance /\ UNCHANGED queue)
  PROVE  UpdaterInv'
<1>1. Waiting' = Waiting
  BY DEF updaterVars, Waiting
<1>2. Shape'
  BY DEF UpdaterInv, updaterVars, Shape
<1>3. QueueInv'
  BY <1>1 DEF UpdaterInv, QueueInv, mayAdvance
<1>4. BatchInv'
  BY <1>1 DEF UpdaterInv, BatchInv, updaterVars
<1> QED
  BY <1>2, <1>3, <1>4 DEF UpdaterInv

\* Every step keeps the invariant of the FIB updater.
LEMMA NextUpdaterInv ==
  ASSUME UpdaterInv, Next
  PROVE  UpdaterInv'
<1>1. CASE SendNothing
  BY <1>1, OtherStepsInv DEF SendNothing, ribVars, Undisturbed
<1>2. CASE SendBatchFromQueue
  BY <1>2, SendBatchInv
<1>3. ASSUME NEW c \in BagToSet(sent), OnUpdateSuccess(c)
      PROVE  UpdaterInv'
  BY <1>3, OwnUpdateInv, OtherUpdateInv DEF OnUpdateSuccess
<1>4. ASSUME NEW c \in BagToSet(sent), OnFaceNotFound(c)
      PROVE  UpdaterInv'
  BY <1>4, FailureInv, OtherUpdateInv DEF OnFaceNotFound
<1>5. ASSUME NEW c \in BagToSet(sent), OnTimeout(c)
      PROVE  UpdaterInv'
  BY <1>5, TimeoutInv
<1>6. ASSUME NEW x \in Registrations, RegisterEntry(x)
      PROVE  UpdaterInv'
  BY <1>6, OtherStepsInv DEF RegisterEntry, Undisturbed
<1>7. ASSUME NEW n \in Names, NEW f \in Faces, UnregisterEntry(n, f)
      PROVE  UpdaterInv'
  BY <1>7, OtherStepsInv DEF UnregisterEntry, Undisturbed
<1>8. ASSUME NEW t \in timers, OnRouteExpiration(t)
      PROVE  UpdaterInv'
  BY <1>8, OtherStepsInv DEF OnRouteExpiration, Undisturbed
<1>9. ASSUME NEW f \in Destroyable, FaceDestroyed(f)
      PROVE  UpdaterInv'
  BY <1>9, OtherStepsInv DEF FaceDestroyed, ribVars, Undisturbed
<1>10. ASSUME NEW f \in Destroyable, OnFaceDestroyedEvent(f)
      PROVE  UpdaterInv'
  BY <1>10, OtherStepsInv DEF OnFaceDestroyedEvent, Undisturbed
<1>11. CASE RemoveInvalidFaces
  BY <1>11, OtherStepsInv DEF RemoveInvalidFaces, ribVars, Undisturbed
<1> QED
  BY <1>1, <1>2, <1>3, <1>4, <1>5, <1>6, <1>7, <1>8, <1>9, <1>10, <1>11, Zenon
  DEF Next, Answer

\* The invariant of the FIB updater holds throughout.
LEMMA UpdaterInvHolds == Spec => []UpdaterInv
<1>1. UpdaterInv /\ UNCHANGED vars => UpdaterInv'
  <2> SUFFICES ASSUME UpdaterInv, UNCHANGED vars PROVE UpdaterInv'
    OBVIOUS
  <2> QED
    BY OtherStepsInv DEF vars, ribVars, Undisturbed
<1> QED
  BY InitUpdaterInv, NextUpdaterInv, <1>1, PTL DEF Spec

\* The queue is never held up, whatever fails, is refused, overlaps or is lost.
THEOREM QueueNeverStuck == Spec => []QueueAdvances
<1>1. UpdaterInv => QueueAdvances
  <2> SUFFICES ASSUME UpdaterInv, Ready
               PROVE  (queue # <<>> => inProgress) /\ (inProgress => sent # EmptyBag)
    BY DEF QueueAdvances
  <2>1. BagToSet(EmptyBag) = {}
    BY DEF BagToSet, EmptyBag, SetToBag
  <2> QED
    BY <2>1 DEF UpdaterInv, QueueInv, Ready
<1> QED
  BY <1>1, UpdaterInvHolds, PTL

\* Unless a removal is retried or a batch fails with commands outstanding, the commands
\* under way are all of the batch in progress.
THEOREM BatchesDoNotOverlap == Spec => []OneBatchAtATime
<1>1. UpdaterInv => OneBatchAtATime
  BY DEF UpdaterInv, BatchInv, OneBatchAtATime
<1> QED
  BY <1>1, UpdaterInvHolds, PTL

----------------------------------------------------------------------------
(* Types                                                                   *)

\* TypeOK, with the shape of the records and the batch in progress.
TypeInv ==
  /\ rib \in [Names -> Entry]
  /\ fib = [n \in Names |-> fib[n]] /\ \A n \in Names : DOMAIN fib[n] \subseteq alive
  /\ queue \in Seq(Update) /\ inProgress \in BOOLEAN /\ (inProgress => current \in Update)
  /\ forBatchFace \subseteq FibUpdate /\ forOtherFaces \subseteq FibUpdate
  /\ inherited \in RecordStages
  /\ \A c \in BagToSet(sent) : c.update \in FibUpdate /\ c.batch \in Update
  /\ sending \in BOOLEAN /\ stopped \in {"no", "error", "assert"}
  /\ registered \subseteq Faces /\ destroyed \subseteq Faces /\ alive \subseteq Faces
  /\ mishaps \subseteq {"retry", "overlap", "refresh", "flag", "exposed"}
  /\ timers \subseteq [name : Names, face : Faces, event : Nat]
  /\ nUpdates \in Nat

\* The types hold initially.
LEMMA InitTypeInv == Init => TypeInv
<1> SUFFICES ASSUME Init PROVE TypeInv
  OBVIOUS
<1>1. NoEntry \in Entry
  <2>1. /\ DOMAIN <<>> = {} /\ <<>> = [g \in DOMAIN <<>> |-> <<>>[g]]
        /\ [g \in Faces |-> 0] \in [Faces -> Nat] /\ 0 \in Int
    OBVIOUS
  <2> QED
    BY <2>1, EntryIntro DEF NoEntry
<1>2. BagToSet(sent) = {}
  BY DEF Init, BagToSet, EmptyBag, SetToBag
<1>3. rib \in [Names -> Entry]
  BY <1>1 DEF Init
<1>4. <<>> \in Seq(Update) /\ <<>> \in RecordStages
  BY DEF RecordStages
<1>5. fib = [n \in Names |-> fib[n]] /\ \A n \in Names : DOMAIN fib[n] = {}
  BY DEF Init
<1>6. {} \subseteq alive /\ alive \subseteq Faces
  BY DEF Init
<1> QED
  BY <1>2, <1>3, <1>4, <1>5, <1>6, Zenon DEF Init, TypeInv

\* Applying a batch: the route is inserted or erased, and no other route changes.
LEMMA SuccessType ==
  ASSUME TypeInv, NEW batch \in Update, NEW stages \in RecordStages,
         onFibUpdateSuccess(batch, stages)
  PROVE  /\ rib' \in [Names -> Entry] /\ inProgress' = FALSE /\ sending' \in BOOLEAN
         /\ stopped' \in {"no", "error", "assert"}
         /\ timers' = canceled(batch.name, batch.face)
         /\ \A n \in Names : rib'[n].routes =
              IF batch.action = "register" THEN insert(batch.name, batch.face, batch.route)[n].routes
                                           ELSE erase(batch.name, batch.face)[n].routes
<1> DEFINE t == IF batch.action = "register" THEN insert(batch.name, batch.face, batch.route)
                                             ELSE erase(batch.name, batch.face)
<1>1. /\ inProgress' = FALSE /\ timers' = canceled(batch.name, batch.face)
      /\ \/ /\ modifiable(t, stages) /\ rib' = modifyInheritedRoutes(t, stages)
            /\ sending' = TRUE /\ UNCHANGED stopped
         \/ rib' = t /\ sending' = FALSE /\ stopped' = "assert"
  BY DEF onFibUpdateSuccess
<1>2. t \in [Names -> Entry]
  BY UpdateFields, InsertType, EraseType DEF TypeInv
<1> HIDE DEF t
<1>3. rib' \in [Names -> Entry] /\ \A n \in Names : rib'[n].routes = t[n].routes
  BY <1>1, <1>2, ModifyType
<1> QED
  BY <1>1, <1>3 DEF t, TypeInv

\* The FIB keeps its type when a command is executed.
LEMMA ExecutedType ==
  ASSUME TypeInv, NEW c, c.update \in FibUpdate
  PROVE  /\ executed(c) = [n \in Names |-> executed(c)[n]]
         /\ \A n \in Names : DOMAIN executed(c)[n] \subseteq alive
<1>1. c.update.name \in Names
  BY DEF FibUpdate
<1>2. CASE executed(c) = fib
  BY <1>2 DEF TypeInv
<1> DEFINE n == c.update.name
<1>3. ASSUME NEW x, DOMAIN x \subseteq alive, executed(c) = [fib EXCEPT ![n] = x]
      PROVE  /\ executed(c) = [m \in Names |-> executed(c)[m]]
             /\ \A m \in Names : DOMAIN executed(c)[m] \subseteq alive
  <2>1. fib = [m \in Names |-> fib[m]] /\ \A m \in Names : DOMAIN fib[m] \subseteq alive
    BY DEF TypeInv
  <2>2. executed(c) = [m \in Names |-> IF m = n THEN x ELSE fib[m]]
    BY <1>1, <1>3, <2>1
  <2> HIDE DEF n
  <2>3. \A m \in Names : executed(c)[m] = IF m = n THEN x ELSE fib[m]
    BY <2>2
  <2> QED
    BY <1>3, <2>1, <2>2, <2>3
<1>4. DOMAIN fib[n] \subseteq alive
  BY <1>1 DEF TypeInv
<1>5. /\ c.update.face \in alive => DOMAIN Put(fib[n], c.update.face, c.update.cost) \subseteq alive
      /\ DOMAIN [g \in DOMAIN fib[n] \ {c.update.face} |-> fib[n][g]] \subseteq alive
  BY <1>4 DEF Put
<1> QED
  BY <1>2, <1>3, <1>5 DEF executed

\* Answers.
LEMMA AnswerType ==
  ASSUME TypeInv, Shape, NEW c \in BagToSet(sent), OwnUpdateDone(c) \/ OtherUpdateDone(c)
  PROVE  /\ rib' \in [Names -> Entry] /\ inProgress' \in BOOLEAN /\ inProgress' \in {inProgress, FALSE}
         /\ sending' \in BOOLEAN /\ stopped' \in {"no", "error", "assert"}
         /\ timers' \subseteq timers
         /\ forBatchFace' \subseteq FibUpdate /\ forOtherFaces' \subseteq FibUpdate
         /\ \A d \in BagToSet(sent') : d.update \in FibUpdate /\ d.batch \in Update
<1>1. c.batch \in Update /\ c.update \in FibUpdate /\ inherited \in RecordStages
  BY DEF TypeInv
<1>2. BagToSet(Answered(c)) \subseteq BagToSet(sent) /\ IsABag(Answered(c))
  BY AnsweredInv
<1>3. forBatchFace' \subseteq FibUpdate /\ forOtherFaces' \subseteq FibUpdate
  BY DEF OwnUpdateDone, OtherUpdateDone, TypeInv
<1>4. \A d \in BagToSet(sent') : d.update \in FibUpdate /\ d.batch \in Update
  <2>1. CASE sent' = Answered(c)
    BY <1>2, <2>1 DEF TypeInv
  <2>2. CASE sent' = Answered(c) (+) sendUpdates(forOtherFaces, c.batch)
    <3> DEFINE S == {Command(u, c.batch) : u \in forOtherFaces}
    <3>1. BagToSet(sent') = BagToSet(Answered(c)) \union S
      BY <1>2, <2>2, BagAdd DEF sendUpdates
    <3>2. \A d \in S : d.update \in FibUpdate /\ d.batch \in Update
      BY <1>1, CommandFields DEF TypeInv
    <3> HIDE DEF S
    <3> QED
      BY <1>2, <3>1, <3>2 DEF TypeInv
  <2> QED
    BY <2>1, <2>2 DEF OwnUpdateDone, OtherUpdateDone
<1>5. CASE UNCHANGED <<rib, inProgress, timers, sending, stopped>>
  BY <1>3, <1>4, <1>5 DEF TypeInv
<1>6. CASE onFibUpdateSuccess(c.batch, inherited)
  <2>1. /\ rib' \in [Names -> Entry] /\ inProgress' = FALSE /\ sending' \in BOOLEAN
        /\ stopped' \in {"no", "error", "assert"}
        /\ timers' = canceled(c.batch.name, c.batch.face)
    BY <1>1, <1>6, SuccessType
  <2>2. timers' \subseteq timers
    BY <2>1 DEF canceled
  <2> QED
    BY <1>3, <1>4, <2>1, <2>2
<1> QED
  BY <1>5, <1>6 DEF OwnUpdateDone, OtherUpdateDone

\* What an answer leaves alone.
LEMMA OnAnswerType ==
  ASSUME TypeInv, Shape, NEW c \in BagToSet(sent), Answer(c)
  PROVE  TypeInv'
<1>1. c.update \in FibUpdate /\ UNCHANGED <<queue, current, inherited, managerVars, alive, counters>>
  BY DEF TypeInv, Answer, OnUpdateSuccess, OnFaceNotFound
<1>2. fib' = fib \/ fib' = executed(c)
  BY DEF Answer, OnUpdateSuccess, OnFaceNotFound
<1>3. fib' = [n \in Names |-> fib'[n]] /\ \A n \in Names : DOMAIN fib'[n] \subseteq alive
  BY <1>1, <1>2, ExecutedType DEF TypeInv
<1>4. mishaps' \subseteq {"retry", "overlap", "refresh", "flag", "exposed"}
  BY DEF Answer, OnUpdateSuccess, OnFaceNotFound, TypeInv
<1>5. CASE OwnUpdateDone(c) \/ OtherUpdateDone(c)
  <2>1. /\ rib' \in [Names -> Entry] /\ inProgress' \in BOOLEAN /\ inProgress' \in {inProgress, FALSE}
        /\ sending' \in BOOLEAN /\ stopped' \in {"no", "error", "assert"}
        /\ timers' \subseteq timers
        /\ forBatchFace' \subseteq FibUpdate /\ forOtherFaces' \subseteq FibUpdate
        /\ \A d \in BagToSet(sent') : d.update \in FibUpdate /\ d.batch \in Update
    BY <1>5, AnswerType
  <2> QED
    BY <1>1, <1>3, <1>4, <2>1 DEF TypeInv, managerVars, counters
<1>6. CASE /\ sent' = Answered(c) /\ onFibUpdateFailure
           /\ UNCHANGED <<forBatchFace, forOtherFaces>>
  <2>1. BagToSet(sent') \subseteq BagToSet(sent)
    BY <1>6, AnsweredInv
  <2> QED
    BY <1>1, <1>3, <1>4, <1>6, <2>1 DEF TypeInv, managerVars, counters, onFibUpdateFailure
<1> QED
  BY <1>5, <1>6 DEF Answer, OnUpdateSuccess, OnFaceNotFound

\* A command that times out.
LEMMA OnTimeoutType ==
  ASSUME TypeInv, Shape, NEW c \in BagToSet(sent), OnTimeout(c)
  PROVE  TypeInv'
<1>1. /\ UNCHANGED <<ribVars, updaterVars, sending, managerVars, alive, nUpdates>>
      /\ c.update \in FibUpdate /\ c.batch \in Update
      /\ stopped' \in {"no", "error", "assert"}
  BY DEF OnTimeout, TypeInv
<1>2. fib' = fib \/ fib' = executed(c)
  BY DEF OnTimeout
<1>3. fib' = [n \in Names |-> fib'[n]] /\ \A n \in Names : DOMAIN fib'[n] \subseteq alive
  BY <1>1, <1>2, ExecutedType DEF TypeInv
<1>4. mishaps' \subseteq {"retry", "overlap", "refresh", "flag", "exposed"}
  BY DEF OnTimeout, TypeInv
<1>5. IsABag(Answered(c)) /\ BagToSet(Answered(c)) \subseteq BagToSet(sent)
  BY AnsweredInv
<1>6. \A d \in BagToSet(sent') : d.update \in FibUpdate /\ d.batch \in Update
  <2> DEFINE again == [c EXCEPT !.verb = "add", !.nTimeouts = @ + 1]
  <2>1. CASE sent' = Answered(c)
    BY <1>5, <2>1 DEF TypeInv
  <2>2. CASE sent' = Answered(c) (+) SetToBag({again})
    <3>1. again.update = c.update /\ again.batch = c.batch
      BY TimeoutCommand
    <3> HIDE DEF again
    <3>2. BagToSet(sent') = BagToSet(Answered(c)) \union {again}
      BY <1>5, <2>2, BagAdd
    <3> QED
      BY <1>1, <1>5, <3>1, <3>2 DEF TypeInv
  <2> QED
    BY <2>1, <2>2 DEF OnTimeout
<1> QED
  BY <1>1, <1>3, <1>4, <1>6 DEF TypeInv, ribVars, updaterVars, managerVars

\* Sending the next batch.
LEMMA SendBatchType ==
  ASSUME TypeInv, Shape, SendBatchFromQueue
  PROVE  TypeInv'
<1> DEFINE batch == Head(queue)
           stages == computeUpdates(rib, batch)
           fibUpdates == FibUpdates(stages)
           updates == {[name |-> k[1], face |-> k[2], action |-> fibUpdates[k].action,
                        cost |-> fibUpdates[k].cost] : k \in DOMAIN fibUpdates}
           own == {u \in updates : u.face = batch.face /\ batch.action # "removeFace"}
           others == {u \in updates : u.face # batch.face}
           records == [i \in DOMAIN stages |-> [rem |-> stages[i].rem, add |-> stages[i].add]]
<1>1. /\ queue # <<>> /\ queue' = Tail(queue)
      /\ current' = batch /\ forBatchFace' = own /\ forOtherFaces' = others
      /\ inherited' = records
      /\ \/ /\ sent' = sent (+) sendUpdates(IF own # {} THEN own ELSE others, batch)
            /\ inProgress' = TRUE /\ sending' = FALSE
            /\ timers' = IF batch.action = "register" THEN timers
                         ELSE canceled(batch.name, batch.face)
            /\ UNCHANGED <<rib, stopped>>
         \/ /\ onFibUpdateSuccess(batch, inherited')
            /\ UNCHANGED sent
      /\ UNCHANGED <<managerVars, fib, alive, counters>>
  BY Zenon DEF SendBatchFromQueue, mayAdvance
<1>0. mishaps' \subseteq {"retry", "overlap", "refresh", "flag", "exposed"}
  BY SendBatchMishaps DEF TypeInv
<1>2. batch \in Update /\ queue' \in Seq(Update)
  BY <1>1 DEF TypeInv
<1> HIDE DEF batch
<1>3. stages \in Seq(StageType)
  BY <1>2, ComputeUpdatesType DEF TypeInv
<1> HIDE DEF stages
<1>4. /\ DOMAIN fibUpdates \subseteq Keys
      /\ \A k \in DOMAIN fibUpdates : fibUpdates[k] \in NextHop
  BY <1>3, FibUpdatesType
<1> HIDE DEF fibUpdates
<1>5. updates \subseteq FibUpdate
  BY <1>4 DEF Keys, NextHop, FibUpdate
<1>6. own \subseteq FibUpdate /\ others \subseteq FibUpdate
  BY <1>5
<1> HIDE DEF own, others, updates
<1>7. records \in RecordStages
  <2>1. \A i \in DOMAIN stages : stages[i].rem \in SUBSET Keys /\ stages[i].add \in SUBSET Keys
    BY <1>3, StageFields
  <2>2. Len(stages) \in Nat /\ DOMAIN stages = 1..Len(stages)
    BY <1>3
  <2>3. records \in [1..Len(stages) -> [rem : SUBSET Keys, add : SUBSET Keys]]
    BY <2>1, <2>2
  <2> QED
    BY <2>2, <2>3 DEF RecordStages
<1> HIDE DEF records
<1>8. CASE /\ sent' = sent (+) sendUpdates(IF own # {} THEN own ELSE others, batch)
           /\ inProgress' = TRUE /\ sending' = FALSE
           /\ timers' = IF batch.action = "register" THEN timers
                        ELSE canceled(batch.name, batch.face)
           /\ UNCHANGED <<rib, stopped>>
  <2> DEFINE S == {Command(u, batch) : u \in IF own # {} THEN own ELSE others}
  <2>1. BagToSet(sent') = BagToSet(sent) \union S
    BY <1>8, BagAdd DEF sendUpdates, Shape
  <2>2. \A d \in S : d.update \in FibUpdate /\ d.batch \in Update
    BY <1>2, <1>6, CommandFields
  <2> HIDE DEF S
  <2>3. \A d \in BagToSet(sent') : d.update \in FibUpdate /\ d.batch \in Update
    BY <2>1, <2>2 DEF TypeInv
  <2>4. timers' \subseteq timers
    BY <1>8 DEF canceled
  <2> QED
    BY <1>0, <1>1, <1>2, <1>6, <1>7, <1>8, <2>3, <2>4 DEF TypeInv, managerVars, counters
<1>9. CASE onFibUpdateSuccess(batch, inherited') /\ UNCHANGED sent
  <2>1. /\ rib' \in [Names -> Entry] /\ inProgress' = FALSE /\ sending' \in BOOLEAN
        /\ stopped' \in {"no", "error", "assert"}
        /\ timers' = canceled(batch.name, batch.face)
    BY <1>1, <1>2, <1>7, <1>9, SuccessType
  <2>2. timers' \subseteq timers
    BY <2>1 DEF canceled
  <2> QED
    BY <1>0, <1>1, <1>2, <1>6, <1>7, <1>9, <2>1, <2>2 DEF TypeInv, managerVars, counters
<1> QED
  BY <1>1, <1>8, <1>9

\* A registration gives its route the event that is scheduled for it.
LEMMA RegisterType ==
  ASSUME TypeInv, NEW x \in Registrations, RegisterEntry(x)
  PROVE  TypeInv'
<1> DEFINE event == IF x.expires THEN nUpdates + 1 ELSE 0
           batch == [action |-> "register", name |-> x.name, face |-> x.face,
                     route |-> routeOf(x, event)]
<1>1. x.name \in Names /\ x.face \in Faces /\ x.route \in Params /\ x.expires \in BOOLEAN
  BY RibAssumption
<1>2. event \in Nat
  BY DEF TypeInv
<1>3. queue' = Append(queue, batch)
      /\ timers' = timers \union
              (IF x.expires THEN {[name |-> x.name, face |-> x.face, event |-> event]} ELSE {})
  BY DEF RegisterEntry
<1> HIDE DEF event
<1>4. routeOf(x, event) \in Route
  BY <1>1, <1>2 DEF routeOf, Params, Route
<1>5. batch \in Update
  BY <1>1, <1>4 DEF Update
<1> HIDE DEF batch
<1>6. queue' \in Seq(Update)
  BY <1>3, <1>5 DEF TypeInv
<1>7. timers' \subseteq [name : Names, face : Faces, event : Nat]
  BY <1>1, <1>2, <1>3 DEF TypeInv
<1>8. registered' \subseteq Faces
  BY <1>1 DEF RegisterEntry, TypeInv
<1> QED
  BY <1>6, <1>7, <1>8 DEF RegisterEntry, TypeInv, updaterVars

\* A destroyed face: a batch for every route of it.
LEMMA FaceBatchesType ==
  ASSUME TypeInv, NEW f \in Faces, NEW names \in SetToSeqs({n \in Names : f \in DOMAIN rib[n].routes})
  PROVE  /\ names \in Seq(Names)
         /\ [i \in DOMAIN names |-> [action |-> "removeFace", name |-> names[i], face |-> f]]
              \in Seq(Update)
<1> DEFINE S == {n \in Names : f \in DOMAIN rib[n].routes}
<1>1. IsFiniteSet(S) /\ S \subseteq Names
  BY FibUpdaterAssumption, FS_Subset
<1>2. Cardinality(S) \in Nat
  BY <1>1, FS_CardinalityType
<1>3. names \in [1..Cardinality(S) -> S]
  BY DEF SetToSeqs
<1> HIDE DEF S
<1>4. names \in [1..Cardinality(S) -> Names]
  BY <1>1, <1>3
<1>5. names \in Seq(Names)
  BY <1>2, <1>4
<1>6. \A n \in Names : [action |-> "removeFace", name |-> n, face |-> f] \in Update
  BY DEF Update
<1>7. [i \in DOMAIN names |-> [action |-> "removeFace", name |-> names[i], face |-> f]]
        \in [1..Cardinality(S) -> Update]
  BY <1>4, <1>6
<1> QED
  BY <1>2, <1>5, <1>7

\* Every step keeps the types.
LEMMA NextTypeInv ==
  ASSUME TypeInv, Shape, Next
  PROVE  TypeInv'
<1>1. CASE SendNothing
  BY <1>1 DEF SendNothing, TypeInv, ribVars, updaterVars, managerVars, counters
<1>2. CASE SendBatchFromQueue
  BY <1>2, SendBatchType
<1>3. ASSUME NEW c \in BagToSet(sent), Answer(c)
      PROVE  TypeInv'
  BY <1>3, OnAnswerType
<1>4. ASSUME NEW c \in BagToSet(sent), OnTimeout(c)
      PROVE  TypeInv'
  BY <1>4, OnTimeoutType
<1>5. ASSUME NEW x \in Registrations, RegisterEntry(x)
      PROVE  TypeInv'
  BY <1>5, RegisterType
<1>6. ASSUME NEW n \in Names, NEW f \in Faces, UnregisterEntry(n, f)
      PROVE  TypeInv'
  <2>1. [action |-> "unregister", name |-> n, face |-> f, event |-> 0] \in Update
    BY DEF Update
  <2>2. queue' \in Seq(Update)
    BY <1>6, <2>1 DEF UnregisterEntry, TypeInv
  <2> QED
    BY <1>6, <2>2 DEF UnregisterEntry, TypeInv, updaterVars, managerVars
<1>7. ASSUME NEW t \in timers, OnRouteExpiration(t)
      PROVE  TypeInv'
  <2>1. [action |-> "unregister", name |-> t.name, face |-> t.face, event |-> t.event] \in Update
    BY DEF Update, TypeInv
  <2>2. queue' \in Seq(Update)
    BY <1>7, <2>1 DEF OnRouteExpiration, TypeInv
  <2>3. mishaps' \subseteq {"retry", "overlap", "refresh", "flag", "exposed"}
    BY <1>7 DEF OnRouteExpiration, TypeInv
  <2> QED
    BY <1>7, <2>2, <2>3 DEF OnRouteExpiration, TypeInv, updaterVars, managerVars, counters
<1>8. ASSUME NEW f \in Destroyable, FaceDestroyed(f)
      PROVE  TypeInv'
  <2>1. fib' = [n \in Names |-> fib'[n]] /\ \A n \in Names : DOMAIN fib'[n] \subseteq alive'
    BY <1>8 DEF FaceDestroyed, TypeInv
  <2>2. alive' \subseteq Faces /\ destroyed' \subseteq Faces
    BY <1>8, RibAssumption DEF FaceDestroyed, TypeInv
  <2> QED
    BY <1>8, <2>1, <2>2 DEF FaceDestroyed, TypeInv, ribVars, updaterVars, counters
<1>9. ASSUME NEW f \in Destroyable, OnFaceDestroyedEvent(f)
      PROVE  TypeInv'
  <2>1. PICK names \in SetToSeqs({n \in Names : f \in DOMAIN rib[n].routes}) :
          queue' = queue \o [i \in DOMAIN names |->
                               [action |-> "removeFace", name |-> names[i], face |-> f]]
    BY <1>9, Zenon DEF OnFaceDestroyedEvent
  <2>2. [i \in DOMAIN names |-> [action |-> "removeFace", name |-> names[i], face |-> f]]
          \in Seq(Update)
    BY RibAssumption, FaceBatchesType
  <2>3. queue' \in Seq(Update)
    BY <2>1, <2>2 DEF TypeInv
  <2> QED
    BY <1>9, <2>3 DEF OnFaceDestroyedEvent, TypeInv, updaterVars, counters
<1>10. CASE RemoveInvalidFaces
  BY <1>10 DEF RemoveInvalidFaces, TypeInv, ribVars, updaterVars, counters
<1> QED
  BY <1>1, <1>2, <1>3, <1>4, <1>5, <1>6, <1>7, <1>8, <1>9, <1>10, Zenon DEF Next

\* The types hold throughout.
LEMMA TypeInvHolds == Spec => []TypeInv
<1>1. TypeInv /\ UNCHANGED vars => TypeInv'
  BY DEF vars, TypeInv, ribVars, updaterVars, managerVars, counters
<1>2. UpdaterInv => Shape
  BY DEF UpdaterInv
<1> QED
  BY InitTypeInv, NextTypeInv, UpdaterInvHolds, <1>1, <1>2, PTL DEF Spec

\* The RIB, the FIB and the queues keep their types; in particular no number of inherited
\* records becomes negative.
THEOREM TypeCorrect == Spec => []TypeOK
<1>1. TypeInv => TypeOK
  <2> SUFFICES ASSUME TypeInv PROVE TypeOK
    OBVIOUS
  <2>1. \A n \in Names :
          /\ DOMAIN rib[n].routes \subseteq Faces
          /\ \A f \in DOMAIN rib[n].routes : rib[n].routes[f] \in Route
          /\ rib[n].inherited \in [Faces -> Nat] /\ rib[n].nCapture \in Int
    BY EntryFields DEF TypeInv
  <2> QED
    BY <2>1 DEF TypeInv, TypeOK
<1> QED
  BY <1>1, TypeInvHolds, PTL
----------------------------------------------------------------------------
(* Destroyed faces                                                         *)

\* A face that is reported destroyed is gone, and so is the face of every batch that
\* removes the routes of one.
DeadFaces ==
  /\ destroyed \intersect alive = {}
  /\ \A i \in 1..Len(queue) : queue[i].action = "removeFace" => queue[i].face \notin alive
  /\ inProgress /\ current.action = "removeFace" => current.face \notin alive

\* A step that queues at most a registration or an unregistration.
LEMMA QueueOneDead ==
  ASSUME TypeInv, DeadFaces, NEW b, b.action # "removeFace",
         queue' = queue \/ queue' = Append(queue, b), alive' = alive, destroyed' = destroyed,
         inProgress' => inProgress, current' = current
  PROVE  DeadFaces'
<1>1. Len(queue) \in Nat /\ queue \in Seq(Update)
  BY DEF TypeInv
<1>2. ASSUME NEW i \in 1..Len(queue'), queue'[i].action = "removeFace"
      PROVE  queue'[i].face \notin alive
  <2>1. CASE queue' = queue
    BY <1>2, <2>1 DEF DeadFaces
  <2>2. CASE queue' = Append(queue, b)
    <3>1. i \in 1..Len(queue) \/ i = Len(queue) + 1
      BY <1>1, <2>2
    <3>2. CASE i \in 1..Len(queue)
      <4>1. queue'[i] = queue[i]
        BY <1>1, <2>2, <3>2
      <4> QED
        BY <1>2, <3>2, <4>1 DEF DeadFaces
    <3>3. CASE i = Len(queue) + 1
      <4>1. queue'[i] = b
        BY <1>1, <2>2, <3>3
      <4> QED
        BY <1>2, <4>1
    <3> QED
      BY <3>1, <3>2, <3>3
  <2> QED
    BY <2>1, <2>2
<1> QED
  BY <1>2 DEF DeadFaces

\* Every step keeps this.
LEMMA NextDeadFaces ==
  ASSUME TypeInv, DeadFaces, Next
  PROVE  DeadFaces'
<1>0. Len(queue) \in Nat /\ queue \in Seq(Update) /\ inProgress \in BOOLEAN
  BY DEF TypeInv
<1>1. CASE SendNothing
  BY <1>1 DEF SendNothing, ribVars, updaterVars, managerVars, DeadFaces
<1>2. CASE SendBatchFromQueue
  <2>1. /\ queue # <<>> /\ queue' = Tail(queue) /\ current' = Head(queue)
        /\ UNCHANGED <<managerVars, alive>>
    BY <1>2, Zenon DEF SendBatchFromQueue, mayAdvance
  <2>2. /\ Head(queue) = queue[1] /\ 1 \in 1..Len(queue)
        /\ \A i \in 1..Len(Tail(queue)) : Tail(queue)[i] = queue[i + 1] /\ i + 1 \in 1..Len(queue)
    BY <1>0, <2>1
  <2> QED
    BY <2>1, <2>2 DEF DeadFaces, managerVars
<1>3. ASSUME NEW c \in BagToSet(sent), Answer(c)
      PROVE  DeadFaces'
  <2>1. UNCHANGED <<queue, current, managerVars, alive>>
    BY <1>3, Zenon DEF Answer, OnUpdateSuccess, OnFaceNotFound
  <2>2. inProgress' = inProgress \/ inProgress' = FALSE
    BY <1>3, Zenon DEF Answer, OnUpdateSuccess, OnFaceNotFound, OwnUpdateDone, OtherUpdateDone,
                       onFibUpdateSuccess, onFibUpdateFailure
  <2> QED
    BY <2>1, <2>2 DEF DeadFaces, managerVars
<1>4. ASSUME NEW c \in BagToSet(sent), OnTimeout(c)
      PROVE  DeadFaces'
  BY <1>4 DEF OnTimeout, ribVars, updaterVars, managerVars, DeadFaces
<1>5. ASSUME NEW x \in Registrations, RegisterEntry(x)
      PROVE  DeadFaces'
  <2> DEFINE b == [action |-> "register", name |-> x.name, face |-> x.face,
                   route |-> routeOf(x, IF x.expires THEN nUpdates + 1 ELSE 0)]
  <2>1. queue' = Append(queue, b) /\ UNCHANGED <<destroyed, alive, inProgress, current>>
    BY <1>5 DEF RegisterEntry, updaterVars
  <2>2. b.action # "removeFace"
    OBVIOUS
  <2> HIDE DEF b
  <2> QED
    BY <2>1, <2>2, QueueOneDead
<1>6. ASSUME NEW n \in Names, NEW f \in Faces, UnregisterEntry(n, f)
      PROVE  DeadFaces'
  <2> DEFINE b == [action |-> "unregister", name |-> n, face |-> f, event |-> 0]
  <2>1. queue' = Append(queue, b) /\ UNCHANGED <<destroyed, alive, inProgress, current>>
    BY <1>6 DEF UnregisterEntry, updaterVars, managerVars
  <2>2. b.action # "removeFace"
    OBVIOUS
  <2> HIDE DEF b
  <2> QED
    BY <2>1, <2>2, QueueOneDead
<1>7. ASSUME NEW t \in timers, OnRouteExpiration(t)
      PROVE  DeadFaces'
  <2> DEFINE b == [action |-> "unregister", name |-> t.name, face |-> t.face, event |-> t.event]
  <2>1. queue' = Append(queue, b) /\ UNCHANGED <<destroyed, alive, inProgress, current>>
    BY <1>7 DEF OnRouteExpiration, updaterVars, managerVars
  <2>2. b.action # "removeFace"
    OBVIOUS
  <2> HIDE DEF b
  <2> QED
    BY <2>1, <2>2, QueueOneDead
<1>8. ASSUME NEW f \in Destroyable, FaceDestroyed(f)
      PROVE  DeadFaces'
  <2>1. /\ alive' = alive \ {f} /\ destroyed' \subseteq destroyed \union {f}
        /\ UNCHANGED <<queue, inProgress, current>>
    BY <1>8 DEF FaceDestroyed, ribVars, updaterVars
  <2> QED
    BY <2>1 DEF DeadFaces
<1>9. ASSUME NEW f \in Destroyable, OnFaceDestroyedEvent(f)
      PROVE  DeadFaces'
  <2>1. PICK names \in SetToSeqs({n \in Names : f \in DOMAIN rib[n].routes}) :
          queue' = queue \o [i \in DOMAIN names |->
                               [action |-> "removeFace", name |-> names[i], face |-> f]]
    BY <1>9, Zenon DEF OnFaceDestroyedEvent
  <2> DEFINE B == [i \in DOMAIN names |->
                     [action |-> "removeFace", name |-> names[i], face |-> f]]
  <2>2. B \in Seq(Update) /\ names \in Seq(Names)
    BY RibAssumption, FaceBatchesType
  <2>3. \A i \in 1..Len(B) : B[i].face = f
    <3>1. 1..Len(B) = DOMAIN names
      BY <2>2
    <3> QED
      BY <3>1
  <2> HIDE DEF B
  <2>4. /\ queue' = queue \o B /\ f \in destroyed /\ destroyed' \subseteq destroyed
        /\ UNCHANGED <<alive, inProgress, current>>
    BY <1>9, <2>1 DEF OnFaceDestroyedEvent, updaterVars, B
  <2>5. ASSUME NEW i \in 1..Len(queue')
        PROVE  \/ i \in 1..Len(queue) /\ queue'[i] = queue[i]
               \/ queue'[i].face = f
    <3>1. Len(B) \in Nat /\ (i \in 1..Len(queue) \/ i - Len(queue) \in 1..Len(B))
      BY <1>0, <2>2, <2>4
    <3>2. CASE i \in 1..Len(queue)
      BY <1>0, <2>2, <2>4, <3>2
    <3>3. CASE i - Len(queue) \in 1..Len(B)
      <4>1. queue'[i] = B[i - Len(queue)]
        BY <1>0, <2>2, <2>4, <3>1, <3>3
      <4> QED
        BY <2>3, <3>3, <4>1
    <3> QED
      BY <3>1, <3>2, <3>3
  <2> QED
    BY <2>4, <2>5 DEF DeadFaces
<1>10. CASE RemoveInvalidFaces
  BY <1>10 DEF RemoveInvalidFaces, ribVars, updaterVars, DeadFaces
<1> QED
  BY <1>1, <1>2, <1>3, <1>4, <1>5, <1>6, <1>7, <1>8, <1>9, <1>10, Zenon DEF Next

\* It holds throughout.
LEMMA DeadFacesHolds == Spec => []DeadFaces
<1>1. Init => DeadFaces
  BY DEF Init, DeadFaces
<1>2. DeadFaces /\ UNCHANGED vars => DeadFaces'
  BY DEF vars, ribVars, updaterVars, managerVars, DeadFaces
<1> QED
  BY <1>1, <1>2, NextDeadFaces, TypeInvHolds, PTL DEF Spec

----------------------------------------------------------------------------
(* Expiration events                                                       *)
(*                                                                         *)
(* The batches in progress and queued, in the order in which they will be  *)
(* applied, and what relates them to the routes and to the events that are *)
(* scheduled.  R is the RIB, T the scheduled events, P the batches, A the   *)
(* live faces and m the number of commands so far.                         *)

PendingBatches == (IF inProgress THEN <<current>> ELSE <<>>) \o queue

Has(R, n, f) == f \in DOMAIN R[n].routes
Event(R, n, f) == R[n].routes[f].event
Registers(b, n, f, e) == RegistrationOf(b, n, f) /\ b.route.event = e
Unregisters(b, n, f) == b.action = "unregister" /\ b.name = n /\ b.face = f
Timer(n, f, e) == [name |-> n, face |-> f, event |-> e]

\* Events are numbered in the order of the registrations, and this is the order in which
\* the batches are queued: a batch has a later event than every route and every batch
\* before it.
EventsOrdered(R, T, P, m) ==
  /\ \A n \in Names, f \in Faces : Has(R, n, f) => Event(R, n, f) \in 0..m
  /\ \A t \in T : t.event \in 1..m
  /\ \A i \in 1..Len(P) : P[i].action = "register" => P[i].route.event \in 0..m
  /\ \A i, j \in 1..Len(P) :
       /\ i < j /\ P[i].action = "register" /\ P[j].action = "register"
       /\ P[j].route.event # 0
       => P[i].route.event < P[j].route.event
  /\ \A i \in 1..Len(P) : \A n \in Names, f \in Faces :
       P[i].action = "register" /\ P[i].route.event # 0 /\ Has(R, n, f) =>
         Event(R, n, f) < P[i].route.event
  /\ \A n, k \in Names : \A f, g \in Faces :
       /\ Has(R, n, f) /\ Has(R, k, g)
       /\ Event(R, n, f) # 0 /\ Event(R, n, f) = Event(R, k, g)
       => n = k /\ f = g

\* A route on a live face that expires, and a registration of one, has its event scheduled
\* or its unregistration queued, behind the registration.
ExpiryKept(R, T, P, A) ==
  /\ \A n \in Names, f \in Faces :
       Has(R, n, f) /\ f \in A /\ Event(R, n, f) # 0 =>
         \/ Timer(n, f, Event(R, n, f)) \in T
         \/ \E j \in 1..Len(P) : Unregisters(P[j], n, f)
  /\ \A i \in 1..Len(P) :
       P[i].action = "register" /\ P[i].route.event # 0 =>
         \/ Timer(P[i].name, P[i].face, P[i].route.event) \in T
         \/ \E j \in 1..Len(P) : i < j /\ Unregisters(P[j], P[i].name, P[i].face)

\* A scheduled event is of the route that is there or of one whose registration is queued;
\* so is an expiration that is queued, and no other registration is queued before it.
ExpiryOwn(R, T, P, A) ==
  /\ \A i, j \in 1..Len(P) :
       /\ i < j /\ P[i].action = "register"
       /\ Unregisters(P[j], P[i].name, P[i].face) /\ P[j].event # 0
       => P[i].route.event = P[j].event
  /\ \A j \in 1..Len(P) :
       /\ P[j].action = "unregister" /\ P[j].event # 0 /\ P[j].face \in A
       /\ Has(R, P[j].name, P[j].face)
       => \/ Event(R, P[j].name, P[j].face) = P[j].event
          \/ \E i \in 1..Len(P) : i < j /\ Registers(P[i], P[j].name, P[j].face, P[j].event)
  /\ \A t \in T : t.face \in A =>
       \/ Has(R, t.name, t.face) /\ Event(R, t.name, t.face) = t.event
       \/ \E i \in 1..Len(P) : Registers(P[i], t.name, t.face, t.event)

\* No route expired with a new registration of it under way, either.
Unrefreshed == mishaps \intersect {"retry", "overlap", "refresh"} = {}

EventInv ==
  Undisturbed => /\ EventsOrdered(rib, timers, PendingBatches, nUpdates)
                 /\ ExpiryKept(rib, timers, PendingBatches, alive)
                 /\ Unrefreshed => ExpiryOwn(rib, timers, PendingBatches, alive)

\* The fields of a batch.
LEMMA BatchFields ==
  ASSUME NEW P \in Seq(Update), NEW i \in 1..Len(P)
  PROVE  /\ P[i].name \in Names /\ P[i].face \in Faces
         /\ P[i].action = "register" => P[i].route.event \in Nat
         /\ P[i].action = "unregister" => P[i].event \in Nat
<1>1. P[i] \in Update
  OBVIOUS
<1> QED
  BY <1>1 DEF Update, Route

\* The batches that are left when the first one is done.
LEMMA TailBatches ==
  ASSUME NEW P \in Seq(Update), P # <<>>
  PROVE  /\ Tail(P) \in Seq(Update) /\ Len(Tail(P)) = Len(P) - 1 /\ Len(P) \in Nat
         /\ Len(P) > 0 /\ \A i \in 1..Len(Tail(P)) : Tail(P)[i] = P[i + 1] /\ i + 1 \in 1..Len(P)
         /\ \A i \in 1..Len(P) : i # 1 => i - 1 \in 1..Len(Tail(P)) /\ Tail(P)[i - 1] = P[i]
  OBVIOUS

\* RIB R2 is R with batch b applied: no route but that of the batch changes.
Applied(R, R2, b) ==
  /\ \A n \in Names, f \in Faces : ~(n = b.name /\ f = b.face) =>
       /\ Has(R2, n, f) <=> Has(R, n, f)
       /\ Has(R, n, f) => Event(R2, n, f) = Event(R, n, f)
  /\ b.action = "register" =>
       Has(R2, b.name, b.face) /\ Event(R2, b.name, b.face) = b.route.event
  /\ b.action # "register" => ~Has(R2, b.name, b.face)

\* The events scheduled when b is applied: that of the route which was there is canceled.
LeftTimers(R, T, b) ==
  {t \in T : ~(Has(R, b.name, b.face) /\ t.event = Event(R, b.name, b.face))}

\* Events stay ordered when the first batch is applied.
LEMMA ApplyOrdered ==
  ASSUME NEW R, NEW R2, NEW T, NEW P \in Seq(Update), P # <<>>, NEW m \in Nat,
         EventsOrdered(R, T, P, m), Applied(R, R2, P[1])
  PROVE  EventsOrdered(R2, LeftTimers(R, T, P[1]), Tail(P), m)
<1> DEFINE Q == Tail(P)
           T2 == LeftTimers(R, T, P[1])
<1>1. /\ Q \in Seq(Update) /\ Len(Q) = Len(P) - 1 /\ Len(P) \in Nat /\ Len(P) > 0
      /\ \A i \in 1..Len(Q) : Q[i] = P[i + 1] /\ i + 1 \in 1..Len(P)
  BY TailBatches
<1> HIDE DEF Q
<1>2. 1 \in 1..Len(P) /\ P[1].name \in Names /\ P[1].face \in Faces
  BY <1>1, BatchFields
<1>3. P[1].action = "register" => P[1].route.event \in Nat /\ P[1].route.event \in 0..m
  BY <1>1, <1>2, BatchFields DEF EventsOrdered
<1>4. \A n \in Names, f \in Faces : Has(R2, n, f) => Event(R2, n, f) \in 0..m
  BY <1>2, <1>3 DEF EventsOrdered, Applied
<1>5. \A t \in T2 : t.event \in 1..m
  BY DEF EventsOrdered, LeftTimers
<1>6. \A i \in 1..Len(Q) : Q[i].action = "register" => Q[i].route.event \in 0..m
  BY <1>1 DEF EventsOrdered
<1>7. \A i, j \in 1..Len(Q) :
        /\ i < j /\ Q[i].action = "register" /\ Q[j].action = "register"
        /\ Q[j].route.event # 0
        => Q[i].route.event < Q[j].route.event
  BY <1>1, SMTT(30) DEF EventsOrdered
<1>8. ASSUME NEW i \in 1..Len(Q), NEW n \in Names, NEW f \in Faces,
             Q[i].action = "register", Q[i].route.event # 0, Has(R2, n, f)
      PROVE  Event(R2, n, f) < Q[i].route.event
  <2>1. i + 1 \in 1..Len(P) /\ Q[i] = P[i + 1] /\ 1 < i + 1
    BY <1>1
  <2>2. CASE n = P[1].name /\ f = P[1].face
    <3>1. P[1].action = "register" /\ Event(R2, n, f) = P[1].route.event
      BY <1>8, <2>2 DEF Applied
    <3> QED
      BY <1>2, <1>8, <2>1, <3>1 DEF EventsOrdered
  <2>3. CASE ~(n = P[1].name /\ f = P[1].face)
    <3>1. Has(R, n, f) /\ Event(R2, n, f) = Event(R, n, f)
      BY <1>8, <2>3 DEF Applied
    <3> QED
      BY <1>8, <2>1, <3>1 DEF EventsOrdered
  <2> QED
    BY <2>2, <2>3
<1>9. ASSUME NEW n \in Names, NEW k \in Names, NEW f \in Faces, NEW g \in Faces,
             Has(R2, n, f), Has(R2, k, g),
             Event(R2, n, f) # 0, Event(R2, n, f) = Event(R2, k, g)
      PROVE  n = k /\ f = g
  <2> DEFINE own(a, h) == a = P[1].name /\ h = P[1].face
  <2>1. ASSUME NEW a \in Names, NEW h \in Faces, ~own(a, h), Has(R2, a, h),
               P[1].action = "register", P[1].route.event # 0
        PROVE  Event(R2, a, h) < P[1].route.event
    <3>1. Has(R, a, h) /\ Event(R2, a, h) = Event(R, a, h)
      BY <2>1 DEF Applied
    <3> QED
      BY <1>2, <2>1, <3>1 DEF EventsOrdered
  <2>2. CASE ~own(n, f) /\ ~own(k, g)
    BY <1>9, <2>2 DEF Applied, EventsOrdered
  <2>3. CASE own(n, f) /\ ~own(k, g)
    <3>1. P[1].action = "register" /\ Event(R2, n, f) = P[1].route.event
      BY <1>9, <2>3 DEF Applied
    <3>2. Event(R2, k, g) < P[1].route.event
      BY <1>9, <2>1, <2>3, <3>1
    <3> QED
      BY <1>3, <1>4, <1>9, <3>1, <3>2
  <2>4. CASE ~own(n, f) /\ own(k, g)
    <3>1. P[1].action = "register" /\ Event(R2, k, g) = P[1].route.event
      BY <1>9, <2>4 DEF Applied
    <3>2. Event(R2, n, f) < P[1].route.event
      BY <1>9, <2>1, <2>4, <3>1
    <3> QED
      BY <1>3, <1>4, <1>9, <3>1, <3>2
  <2> QED
    BY <2>2, <2>3, <2>4
<1> QED
  BY <1>4, <1>5, <1>6, <1>7, <1>8, <1>9, Zenon DEF EventsOrdered, Q, T2


\* The expirations that are due stay due when the first batch is applied.
LEMMA ApplyKept ==
  ASSUME NEW R, NEW R2, NEW T, NEW P \in Seq(Update), P # <<>>, NEW m \in Nat, NEW A,
         EventsOrdered(R, T, P, m), ExpiryKept(R, T, P, A), Applied(R, R2, P[1])
  PROVE  ExpiryKept(R2, LeftTimers(R, T, P[1]), Tail(P), A)
<1> DEFINE Q == Tail(P)
           T2 == LeftTimers(R, T, P[1])
           own(n, f) == n = P[1].name /\ f = P[1].face
<1>1. /\ Q \in Seq(Update) /\ Len(Q) = Len(P) - 1 /\ Len(P) \in Nat /\ Len(P) > 0
      /\ \A i \in 1..Len(Q) : Q[i] = P[i + 1] /\ i + 1 \in 1..Len(P)
      /\ \A i \in 1..Len(P) : i # 1 => i - 1 \in 1..Len(Q) /\ Q[i - 1] = P[i]
  BY TailBatches
<1> HIDE DEF Q
<1>2. 1 \in 1..Len(P) /\ P[1].name \in Names /\ P[1].face \in Faces
  BY <1>1, BatchFields
<1>3. ASSUME NEW i \in 1..Len(P), P[i].action = "register", P[i].route.event # 0,
             Timer(P[i].name, P[i].face, P[i].route.event) \in T
      PROVE  Timer(P[i].name, P[i].face, P[i].route.event) \in T2
  <2>1. Has(R, P[1].name, P[1].face) => Event(R, P[1].name, P[1].face) < P[i].route.event
    BY <1>2, <1>3 DEF EventsOrdered
  <2>2. Has(R, P[1].name, P[1].face) => Event(R, P[1].name, P[1].face) \in 0..m
    BY <1>2 DEF EventsOrdered
  <2>3. Timer(P[i].name, P[i].face, P[i].route.event).event = P[i].route.event
    BY DEF Timer
  <2>4. P[i].route.event \in Nat
    BY <1>3, BatchFields
  <2> QED
    BY <1>3, <2>1, <2>2, <2>3, <2>4 DEF LeftTimers
<1>4. ASSUME NEW n \in Names, NEW f \in Faces, Has(R2, n, f), f \in A, Event(R2, n, f) # 0
      PROVE  \/ Timer(n, f, Event(R2, n, f)) \in T2
             \/ \E j \in 1..Len(Q) : Unregisters(Q[j], n, f)
  <2>1. CASE own(n, f)
    <3>1. P[1].action = "register" /\ Event(R2, n, f) = P[1].route.event
      BY <1>4, <2>1 DEF Applied
    <3>2. \/ Timer(n, f, P[1].route.event) \in T
          \/ \E j \in 1..Len(P) : 1 < j /\ Unregisters(P[j], n, f)
      BY <1>2, <1>4, <2>1, <3>1 DEF ExpiryKept
    <3>3. CASE Timer(n, f, P[1].route.event) \in T
      BY <1>2, <1>3, <1>4, <2>1, <3>1, <3>3
    <3>4. ASSUME NEW j \in 1..Len(P), 1 < j, Unregisters(P[j], n, f)
          PROVE  \E k \in 1..Len(Q) : Unregisters(Q[k], n, f)
      BY <1>1, <3>4
    <3> QED
      BY <3>2, <3>3, <3>4
  <2>2. CASE ~own(n, f)
    <3>1. Has(R, n, f) /\ Event(R2, n, f) = Event(R, n, f)
      BY <1>4, <2>2 DEF Applied
    <3>2. CASE Timer(n, f, Event(R, n, f)) \in T
      <4>1. Timer(n, f, Event(R, n, f)).event = Event(R, n, f)
        BY DEF Timer
      <4>2. ~(Has(R, P[1].name, P[1].face) /\ Event(R, n, f) = Event(R, P[1].name, P[1].face))
        BY <1>2, <1>4, <2>2, <3>1 DEF EventsOrdered
      <4> QED
        BY <3>1, <3>2, <4>1, <4>2 DEF LeftTimers
    <3>3. ASSUME NEW j \in 1..Len(P), Unregisters(P[j], n, f)
          PROVE  \E k \in 1..Len(Q) : Unregisters(Q[k], n, f)
      <4>1. j # 1
        BY <2>2, <3>3 DEF Unregisters
      <4> QED
        BY <1>1, <3>3, <4>1
    <3> QED
      BY <1>4, <3>1, <3>2, <3>3 DEF ExpiryKept
  <2> QED
    BY <2>1, <2>2
<1>5. ASSUME NEW i \in 1..Len(Q), Q[i].action = "register", Q[i].route.event # 0
      PROVE  \/ Timer(Q[i].name, Q[i].face, Q[i].route.event) \in T2
             \/ \E j \in 1..Len(Q) : i < j /\ Unregisters(Q[j], Q[i].name, Q[i].face)
  <2>1. i + 1 \in 1..Len(P) /\ Q[i] = P[i + 1]
    BY <1>1
  <2>2. CASE Timer(Q[i].name, Q[i].face, Q[i].route.event) \in T
    BY <1>3, <1>5, <2>1, <2>2
  <2>3. ASSUME NEW j \in 1..Len(P), i + 1 < j, Unregisters(P[j], Q[i].name, Q[i].face)
        PROVE  \E k \in 1..Len(Q) : i < k /\ Unregisters(Q[k], Q[i].name, Q[i].face)
    <3>1. j - 1 \in 1..Len(Q) /\ Q[j - 1] = P[j] /\ i < j - 1
      BY <1>1, <2>3
    <3> QED
      BY <2>3, <3>1
  <2> QED
    BY <1>5, <2>1, <2>2, <2>3 DEF ExpiryKept
<1> QED
  BY <1>4, <1>5, Zenon DEF ExpiryKept, Q, T2

\* The expirations are still of the routes they were scheduled for when the first batch is
\* applied.
LEMMA ApplyOwn ==
  ASSUME NEW R, NEW R2, NEW T, T \subseteq [name : Names, face : Faces, event : Nat],
         NEW P \in Seq(Update), P # <<>>, NEW m \in Nat, NEW A,
         EventsOrdered(R, T, P, m), ExpiryOwn(R, T, P, A), Applied(R, R2, P[1])
  PROVE  ExpiryOwn(R2, LeftTimers(R, T, P[1]), Tail(P), A)
<1> DEFINE Q == Tail(P)
           T2 == LeftTimers(R, T, P[1])
           own(n, f) == n = P[1].name /\ f = P[1].face
<1>1. /\ Q \in Seq(Update) /\ Len(Q) = Len(P) - 1 /\ Len(P) \in Nat /\ Len(P) > 0
      /\ \A i \in 1..Len(Q) : Q[i] = P[i + 1] /\ i + 1 \in 1..Len(P)
      /\ \A i \in 1..Len(P) : i # 1 => i - 1 \in 1..Len(Q) /\ Q[i - 1] = P[i]
  BY TailBatches
<1> HIDE DEF Q
<1>2. 1 \in 1..Len(P) /\ P[1].name \in Names /\ P[1].face \in Faces
  BY <1>1, BatchFields
<1>3. \A i, j \in 1..Len(Q) :
        /\ i < j /\ Q[i].action = "register"
        /\ Unregisters(Q[j], Q[i].name, Q[i].face) /\ Q[j].event # 0
        => Q[i].route.event = Q[j].event
  BY <1>1, SMTT(30) DEF ExpiryOwn
<1>4. ASSUME NEW j \in 1..Len(Q), Q[j].action = "unregister", Q[j].event # 0, Q[j].face \in A,
             Has(R2, Q[j].name, Q[j].face), Event(R2, Q[j].name, Q[j].face) # Q[j].event
      PROVE  \E i \in 1..Len(Q) : i < j /\ Registers(Q[i], Q[j].name, Q[j].face, Q[j].event)
  <2>1. j + 1 \in 1..Len(P) /\ Q[j] = P[j + 1] /\ Q[j].name \in Names /\ Q[j].face \in Faces
    BY <1>1, BatchFields
  <2>2. ~own(Q[j].name, Q[j].face)
    <3> SUFFICES ASSUME own(Q[j].name, Q[j].face) PROVE FALSE
      OBVIOUS
    <3>1. P[1].action = "register" /\ Event(R2, Q[j].name, Q[j].face) = P[1].route.event
      BY <1>4 DEF Applied
    <3>2. 1 < j + 1 /\ Unregisters(P[j + 1], P[1].name, P[1].face)
      BY <1>4, <2>1 DEF Unregisters
    <3>3. P[1].route.event = P[j + 1].event
      BY <1>2, <1>4, <2>1, <3>1, <3>2 DEF ExpiryOwn
    <3> QED
      BY <1>4, <2>1, <3>1, <3>3
  <2>3. Has(R, Q[j].name, Q[j].face) /\ Event(R, Q[j].name, Q[j].face) # Q[j].event
    BY <1>4, <2>1, <2>2 DEF Applied
  <2>4. PICK i \in 1..Len(P) : i < j + 1 /\ Registers(P[i], Q[j].name, Q[j].face, Q[j].event)
    BY <1>4, <2>1, <2>3 DEF ExpiryOwn
  <2>5. i # 1
    BY <2>2, <2>4 DEF Registers, RegistrationOf
  <2>6. i - 1 \in 1..Len(Q) /\ Q[i - 1] = P[i] /\ i - 1 < j
    BY <1>1, <2>4, <2>5
  <2> QED
    BY <2>4, <2>6
<1>5. ASSUME NEW t \in T2, t.face \in A
      PROVE  \/ Has(R2, t.name, t.face) /\ Event(R2, t.name, t.face) = t.event
             \/ \E i \in 1..Len(Q) : Registers(Q[i], t.name, t.face, t.event)
  <2>1. /\ t \in T /\ t.name \in Names /\ t.face \in Faces
        /\ ~(Has(R, P[1].name, P[1].face) /\ t.event = Event(R, P[1].name, P[1].face))
    BY DEF LeftTimers
  <2>2. CASE Has(R, t.name, t.face) /\ Event(R, t.name, t.face) = t.event
    BY <2>1, <2>2 DEF Applied
  <2>3. ASSUME NEW i \in 1..Len(P), Registers(P[i], t.name, t.face, t.event)
        PROVE  \/ Has(R2, t.name, t.face) /\ Event(R2, t.name, t.face) = t.event
               \/ \E k \in 1..Len(Q) : Registers(Q[k], t.name, t.face, t.event)
    <3>1. CASE i = 1
      BY <2>3, <3>1 DEF Registers, RegistrationOf, Applied
    <3>2. CASE i # 1
      BY <1>1, <2>3, <3>2
    <3> QED
      BY <3>1, <3>2
  <2> QED
    BY <1>5, <2>1, <2>2, <2>3 DEF ExpiryOwn
<1> QED
  BY <1>3, <1>4, <1>5, Zenon DEF ExpiryOwn, Q, T2

\* A batch whose face is gone is dropped without being applied.
LEMMA DropBatch ==
  ASSUME NEW R, NEW T, NEW P \in Seq(Update), P # <<>>, NEW m \in Nat, NEW A, P[1].face \notin A
  PROVE  /\ EventsOrdered(R, T, P, m) => EventsOrdered(R, T, Tail(P), m)
         /\ ExpiryKept(R, T, P, A) => ExpiryKept(R, T, Tail(P), A)
         /\ ExpiryOwn(R, T, P, A) => ExpiryOwn(R, T, Tail(P), A)
<1> DEFINE Q == Tail(P)
<1>1. /\ Q \in Seq(Update) /\ Len(Q) = Len(P) - 1 /\ Len(P) \in Nat /\ Len(P) > 0
      /\ \A i \in 1..Len(Q) : Q[i] = P[i + 1] /\ i + 1 \in 1..Len(P)
      /\ \A i \in 1..Len(P) : i # 1 => i - 1 \in 1..Len(Q) /\ Q[i - 1] = P[i]
  BY TailBatches
<1> HIDE DEF Q
<1>2. ASSUME EventsOrdered(R, T, P, m) PROVE EventsOrdered(R, T, Q, m)
  <2>1. /\ \A i \in 1..Len(Q) : Q[i].action = "register" => Q[i].route.event \in 0..m
        /\ \A i \in 1..Len(Q) : \A n \in Names, f \in Faces :
             Q[i].action = "register" /\ Q[i].route.event # 0 /\ Has(R, n, f) =>
               Event(R, n, f) < Q[i].route.event
    BY <1>1, <1>2 DEF EventsOrdered
  <2>2. \A i, j \in 1..Len(Q) :
          /\ i < j /\ Q[i].action = "register" /\ Q[j].action = "register"
          /\ Q[j].route.event # 0
          => Q[i].route.event < Q[j].route.event
    BY <1>1, <1>2 DEF EventsOrdered
  <2> QED
    BY <1>2, <2>1, <2>2 DEF EventsOrdered
<1>3. ASSUME ExpiryKept(R, T, P, A) PROVE ExpiryKept(R, T, Q, A)
  <2>1. ASSUME NEW n \in Names, NEW f \in Faces, Has(R, n, f), f \in A, Event(R, n, f) # 0,
               Timer(n, f, Event(R, n, f)) \notin T
        PROVE  \E j \in 1..Len(Q) : Unregisters(Q[j], n, f)
    <3>1. PICK j \in 1..Len(P) : Unregisters(P[j], n, f)
      BY <1>3, <2>1 DEF ExpiryKept
    <3>2. j # 1
      BY <2>1, <3>1 DEF Unregisters
    <3> QED
      BY <1>1, <3>1, <3>2
  <2>2. ASSUME NEW i \in 1..Len(Q), Q[i].action = "register", Q[i].route.event # 0,
               Timer(Q[i].name, Q[i].face, Q[i].route.event) \notin T
        PROVE  \E j \in 1..Len(Q) : i < j /\ Unregisters(Q[j], Q[i].name, Q[i].face)
    <3>1. i + 1 \in 1..Len(P) /\ Q[i] = P[i + 1]
      BY <1>1
    <3>2. PICK j \in 1..Len(P) : i + 1 < j /\ Unregisters(P[j], Q[i].name, Q[i].face)
      BY <1>3, <2>2, <3>1 DEF ExpiryKept
    <3>3. j - 1 \in 1..Len(Q) /\ Q[j - 1] = P[j] /\ i < j - 1
      BY <1>1, <3>2
    <3> QED
      BY <3>2, <3>3
  <2> QED
    BY <2>1, <2>2, Zenon DEF ExpiryKept
<1>4. ASSUME ExpiryOwn(R, T, P, A) PROVE ExpiryOwn(R, T, Q, A)
  <2>1. ASSUME NEW i \in 1..Len(Q), NEW j \in 1..Len(Q), i < j, Q[i].action = "register",
               Unregisters(Q[j], Q[i].name, Q[i].face), Q[j].event # 0
        PROVE  Q[i].route.event = Q[j].event
    <3>1. /\ i + 1 \in 1..Len(P) /\ j + 1 \in 1..Len(P) /\ i + 1 < j + 1
          /\ Q[i] = P[i + 1] /\ Q[j] = P[j + 1]
      BY <1>1, <2>1, SMTT(30)
    <3> QED
      BY <1>4, <2>1, <3>1 DEF ExpiryOwn
  <2>2. ASSUME NEW j \in 1..Len(Q), Q[j].action = "unregister", Q[j].event # 0, Q[j].face \in A,
               Has(R, Q[j].name, Q[j].face), Event(R, Q[j].name, Q[j].face) # Q[j].event
        PROVE  \E i \in 1..Len(Q) : i < j /\ Registers(Q[i], Q[j].name, Q[j].face, Q[j].event)
    <3>1. j + 1 \in 1..Len(P) /\ Q[j] = P[j + 1]
      BY <1>1
    <3>2. PICK i \in 1..Len(P) : i < j + 1 /\ Registers(P[i], Q[j].name, Q[j].face, Q[j].event)
      BY <1>4, <2>2, <3>1 DEF ExpiryOwn
    <3>3. i # 1
      BY <2>2, <3>2 DEF Registers, RegistrationOf
    <3>4. i - 1 \in 1..Len(Q) /\ Q[i - 1] = P[i] /\ i - 1 < j
      BY <1>1, <3>2, <3>3
    <3> QED
      BY <3>2, <3>4
  <2>3. ASSUME NEW t \in T, t.face \in A,
               ~(Has(R, t.name, t.face) /\ Event(R, t.name, t.face) = t.event)
        PROVE  \E i \in 1..Len(Q) : Registers(Q[i], t.name, t.face, t.event)
    <3>1. PICK i \in 1..Len(P) : Registers(P[i], t.name, t.face, t.event)
      BY <1>4, <2>3 DEF ExpiryOwn
    <3>2. i # 1
      BY <2>3, <3>1 DEF Registers, RegistrationOf
    <3> QED
      BY <1>1, <3>1, <3>2
  <2> QED
    BY <2>1, <2>2, <2>3, Zenon DEF ExpiryOwn
<1> QED
  BY <1>2, <1>3, <1>4 DEF Q

\* Removals that are not expirations may be queued.
LEMMA QueueRemovals ==
  ASSUME NEW R, NEW T, NEW P \in Seq(Update), NEW B \in Seq(Update),
         NEW m \in Nat, NEW k \in Nat, m <= k, NEW A, NEW A2, A2 \subseteq A,
         \A i \in 1..Len(B) : B[i].action # "register"
                              /\ (B[i].action = "unregister" => B[i].event = 0)
  PROVE  /\ EventsOrdered(R, T, P, m) => EventsOrdered(R, T, P \o B, k)
         /\ ExpiryKept(R, T, P, A) => ExpiryKept(R, T, P \o B, A2)
         /\ ExpiryOwn(R, T, P, A) => ExpiryOwn(R, T, P \o B, A2)
<1> DEFINE Q == P \o B
<1>1. /\ Q \in Seq(Update) /\ Len(Q) = Len(P) + Len(B) /\ Len(P) \in Nat /\ Len(B) \in Nat
      /\ \A i \in 1..Len(P) : i \in 1..Len(Q) /\ Q[i] = P[i]
      /\ \A i \in 1..Len(Q) : i \notin 1..Len(P) => i - Len(P) \in 1..Len(B) /\ Q[i] = B[i - Len(P)]
  OBVIOUS
<1> HIDE DEF Q
<1>2. \A i \in 1..Len(Q) :
        \/ i \in 1..Len(P) /\ Q[i] = P[i]
        \/ Q[i].action # "register" /\ (Q[i].action = "unregister" => Q[i].event = 0)
  BY <1>1
<1>3. ASSUME EventsOrdered(R, T, P, m) PROVE EventsOrdered(R, T, Q, k)
  <2>1. \A i \in 1..Len(Q) : Q[i].action = "register" => i \in 1..Len(P) /\ Q[i] = P[i]
    BY <1>2
  <2>2. \A e \in 0..m : e \in 0..k
    OBVIOUS
  <2>3. \A e \in 1..m : e \in 1..k
    OBVIOUS
  <2>4. /\ \A n \in Names, f \in Faces : Has(R, n, f) => Event(R, n, f) \in 0..k
        /\ \A t \in T : t.event \in 1..k
        /\ \A i \in 1..Len(Q) : Q[i].action = "register" => Q[i].route.event \in 0..k
    BY <1>3, <2>1, <2>2, <2>3 DEF EventsOrdered
  <2>5. /\ \A i, j \in 1..Len(Q) :
             /\ i < j /\ Q[i].action = "register" /\ Q[j].action = "register"
             /\ Q[j].route.event # 0
             => Q[i].route.event < Q[j].route.event
        /\ \A i \in 1..Len(Q) : \A n \in Names, f \in Faces :
             Q[i].action = "register" /\ Q[i].route.event # 0 /\ Has(R, n, f) =>
               Event(R, n, f) < Q[i].route.event
    BY <1>3, <2>1 DEF EventsOrdered
  <2> QED
    BY <1>3, <2>4, <2>5 DEF EventsOrdered
<1>4. ASSUME ExpiryKept(R, T, P, A) PROVE ExpiryKept(R, T, Q, A2)
  BY <1>1, <1>2, <1>4 DEF ExpiryKept
<1>5. ASSUME ExpiryOwn(R, T, P, A) PROVE ExpiryOwn(R, T, Q, A2)
  <2>1. ASSUME NEW i \in 1..Len(Q), NEW j \in 1..Len(Q), i < j, Q[i].action = "register",
               Unregisters(Q[j], Q[i].name, Q[i].face), Q[j].event # 0
        PROVE  Q[i].route.event = Q[j].event
    <3>1. i \in 1..Len(P) /\ j \in 1..Len(P) /\ Q[i] = P[i] /\ Q[j] = P[j]
      BY <1>2, <2>1 DEF Unregisters
    <3> QED
      BY <1>5, <2>1, <3>1, SMTT(30) DEF ExpiryOwn
  <2>2. ASSUME NEW j \in 1..Len(Q), Q[j].action = "unregister", Q[j].event # 0, Q[j].face \in A2,
               Has(R, Q[j].name, Q[j].face), Event(R, Q[j].name, Q[j].face) # Q[j].event
        PROVE  \E i \in 1..Len(Q) : i < j /\ Registers(Q[i], Q[j].name, Q[j].face, Q[j].event)
    BY <1>1, <1>2, <1>5, <2>2 DEF ExpiryOwn
  <2>3. ASSUME NEW t \in T, t.face \in A2,
               ~(Has(R, t.name, t.face) /\ Event(R, t.name, t.face) = t.event)
        PROVE  \E i \in 1..Len(Q) : Registers(Q[i], t.name, t.face, t.event)
    BY <1>1, <1>5, <2>3 DEF ExpiryOwn
  <2> QED
    BY <2>1, <2>2, <2>3, Zenon DEF ExpiryOwn
<1> QED
  BY <1>3, <1>4, <1>5 DEF Q

\* The events scheduled when the registration b is queued.
MoreTimers(T, b) ==
  T \union (IF b.route.event # 0 THEN {Timer(b.name, b.face, b.route.event)} ELSE {})

\* A registration is queued with a new event, or with none.
LEMMA QueueRegistration ==
  ASSUME NEW R, NEW T, NEW P \in Seq(Update), NEW b \in Update, b.action = "register",
         NEW m \in Nat, NEW A, b.route.event \in {0, m + 1}
  PROVE  /\ EventsOrdered(R, T, P, m) => EventsOrdered(R, MoreTimers(T, b), Append(P, b), m + 1)
         /\ ExpiryKept(R, T, P, A) => ExpiryKept(R, MoreTimers(T, b), Append(P, b), A)
         /\ ExpiryOwn(R, T, P, A) => ExpiryOwn(R, MoreTimers(T, b), Append(P, b), A)
<1> DEFINE Q == Append(P, b)
           T2 == MoreTimers(T, b)
<1>1. /\ Q \in Seq(Update) /\ Len(Q) = Len(P) + 1 /\ Len(P) \in Nat
      /\ \A i \in 1..Len(P) : i \in 1..Len(Q) /\ Q[i] = P[i]
      /\ \A i \in 1..Len(Q) : i \in 1..Len(P) \/ i = Len(P) + 1
      /\ Q[Len(P) + 1] = b
  OBVIOUS
<1> HIDE DEF Q
<1>2. /\ T \subseteq T2 /\ (b.route.event # 0 => Timer(b.name, b.face, b.route.event) \in T2)
      /\ \A t \in T2 : \/ t \in T
                       \/ b.route.event # 0 /\ t = Timer(b.name, b.face, b.route.event)
  BY DEF MoreTimers
<1> HIDE DEF T2
<1>3. ASSUME EventsOrdered(R, T, P, m) PROVE EventsOrdered(R, T2, Q, m + 1)
  <2>1. (\A e \in 0..m : e \in 0..(m + 1) /\ e < m + 1) /\ \A e \in 1..m : e \in 1..(m + 1)
    OBVIOUS
  <2>2. \A n \in Names, f \in Faces : Has(R, n, f) => Event(R, n, f) \in 0..(m + 1)
    BY <1>3, <2>1 DEF EventsOrdered
  <2>3. \A t \in T2 : t.event \in 1..(m + 1)
    BY <1>2, <1>3, <2>1 DEF EventsOrdered, Timer
  <2>4. \A i \in 1..Len(Q) : Q[i].action = "register" => Q[i].route.event \in 0..(m + 1)
    BY <1>1, <1>3, <2>1 DEF EventsOrdered
  <2>5. ASSUME NEW i \in 1..Len(Q), NEW j \in 1..Len(Q), i < j,
               Q[i].action = "register", Q[j].action = "register", Q[j].route.event # 0
        PROVE  Q[i].route.event < Q[j].route.event
    <3>1. i \in 1..Len(P)
      BY <1>1, <2>5
    <3>2. Q[i].route.event \in 0..m
      BY <1>1, <1>3, <2>5, <3>1 DEF EventsOrdered
    <3>3. CASE j \in 1..Len(P)
      BY <1>1, <1>3, <2>5, <3>1, <3>3 DEF EventsOrdered
    <3>4. CASE j = Len(P) + 1
      BY <1>1, <2>1, <2>5, <3>2, <3>4
    <3> QED
      BY <1>1, <3>3, <3>4
  <2>6. ASSUME NEW i \in 1..Len(Q), NEW n \in Names, NEW f \in Faces,
               Q[i].action = "register", Q[i].route.event # 0, Has(R, n, f)
        PROVE  Event(R, n, f) < Q[i].route.event
    <3>1. Event(R, n, f) \in 0..m
      BY <1>3, <2>6 DEF EventsOrdered
    <3>2. CASE i \in 1..Len(P)
      BY <1>1, <1>3, <2>6, <3>2 DEF EventsOrdered
    <3>3. CASE i = Len(P) + 1
      BY <1>1, <2>1, <2>6, <3>1, <3>3
    <3> QED
      BY <1>1, <3>2, <3>3
  <2>7. \A n, k \in Names : \A f, g \in Faces :
          /\ Has(R, n, f) /\ Has(R, k, g)
          /\ Event(R, n, f) # 0 /\ Event(R, n, f) = Event(R, k, g)
          => n = k /\ f = g
    BY <1>3 DEF EventsOrdered
  <2> QED
    BY <2>2, <2>3, <2>4, <2>5, <2>6, <2>7, Zenon DEF EventsOrdered
<1>4. ASSUME ExpiryKept(R, T, P, A) PROVE ExpiryKept(R, T2, Q, A)
  <2>1. ASSUME NEW n \in Names, NEW f \in Faces, Has(R, n, f), f \in A, Event(R, n, f) # 0
        PROVE  \/ Timer(n, f, Event(R, n, f)) \in T2
               \/ \E j \in 1..Len(Q) : Unregisters(Q[j], n, f)
    BY <1>1, <1>2, <1>4, <2>1 DEF ExpiryKept
  <2>2. ASSUME NEW i \in 1..Len(Q), Q[i].action = "register", Q[i].route.event # 0
        PROVE  \/ Timer(Q[i].name, Q[i].face, Q[i].route.event) \in T2
               \/ \E j \in 1..Len(Q) : i < j /\ Unregisters(Q[j], Q[i].name, Q[i].face)
    <3>1. CASE i \in 1..Len(P)
      BY <1>1, <1>2, <1>4, <2>2, <3>1 DEF ExpiryKept
    <3>2. CASE i = Len(P) + 1
      BY <1>1, <1>2, <2>2, <3>2
    <3> QED
      BY <1>1, <3>1, <3>2
  <2> QED
    BY <2>1, <2>2, Zenon DEF ExpiryKept
<1>5. ASSUME ExpiryOwn(R, T, P, A) PROVE ExpiryOwn(R, T2, Q, A)
  <2>1. \A j \in 1..Len(Q) : Q[j].action = "unregister" => j \in 1..Len(P) /\ Q[j] = P[j]
    BY <1>1
  <2>2. \A i, j \in 1..Len(Q) :
          /\ i < j /\ Q[i].action = "register"
          /\ Unregisters(Q[j], Q[i].name, Q[i].face) /\ Q[j].event # 0
          => Q[i].route.event = Q[j].event
    BY <1>1, <1>5, <2>1 DEF ExpiryOwn, Unregisters
  <2>3. ASSUME NEW j \in 1..Len(Q), Q[j].action = "unregister", Q[j].event # 0, Q[j].face \in A,
               Has(R, Q[j].name, Q[j].face), Event(R, Q[j].name, Q[j].face) # Q[j].event
        PROVE  \E i \in 1..Len(Q) : i < j /\ Registers(Q[i], Q[j].name, Q[j].face, Q[j].event)
    BY <1>1, <1>5, <2>1, <2>3 DEF ExpiryOwn
  <2>4. ASSUME NEW t \in T2, t.face \in A,
               ~(Has(R, t.name, t.face) /\ Event(R, t.name, t.face) = t.event)
        PROVE  \E i \in 1..Len(Q) : Registers(Q[i], t.name, t.face, t.event)
    <3>1. CASE t \in T
      BY <1>1, <1>5, <2>4, <3>1 DEF ExpiryOwn
    <3>2. CASE t = Timer(b.name, b.face, b.route.event)
      <4>1. Registers(b, t.name, t.face, t.event)
        BY <3>2 DEF Timer, Registers, RegistrationOf
      <4> QED
        BY <1>1, <4>1
    <3> QED
      BY <1>2, <3>1, <3>2
  <2> QED
    BY <2>2, <2>3, <2>4, Zenon DEF ExpiryOwn
<1> QED
  BY <1>3, <1>4, <1>5 DEF Q, T2

\* A route expires: its unregistration is queued.
LEMMA QueueExpiration ==
  ASSUME NEW R, NEW T, T \subseteq [name : Names, face : Faces, event : Nat],
         NEW P \in Seq(Update), NEW m \in Nat, NEW A, NEW t \in T,
         NEW b \in Update, b.action = "unregister", b.name = t.name, b.face = t.face,
         b.event = t.event
  PROVE  /\ EventsOrdered(R, T, P, m) => EventsOrdered(R, T \ {t}, Append(P, b), m)
         /\ ExpiryKept(R, T, P, A) => ExpiryKept(R, T \ {t}, Append(P, b), A)
         /\ /\ ExpiryOwn(R, T, P, A)
            /\ \A i \in 1..Len(P) : RegistrationOf(P[i], t.name, t.face) =>
                                      P[i].route.event = t.event
            => ExpiryOwn(R, T \ {t}, Append(P, b), A)
<1> DEFINE Q == Append(P, b)
<1>1. /\ Q \in Seq(Update) /\ Len(Q) = Len(P) + 1 /\ Len(P) \in Nat
      /\ \A i \in 1..Len(P) : i \in 1..Len(Q) /\ Q[i] = P[i] /\ i < Len(P) + 1
      /\ \A i \in 1..Len(Q) : i \in 1..Len(P) \/ i = Len(P) + 1
      /\ Q[Len(P) + 1] = b /\ Len(P) + 1 \in 1..Len(Q)
      /\ \A i, j \in 1..Len(Q) : i < j => i \in 1..Len(P)
  OBVIOUS
<1> HIDE DEF Q
<1>2. ASSUME EventsOrdered(R, T, P, m) PROVE EventsOrdered(R, T \ {t}, Q, m)
  <2>1. \A i \in 1..Len(Q) : Q[i].action = "register" => i \in 1..Len(P) /\ Q[i] = P[i]
    BY <1>1
  <2>2. /\ \A i \in 1..Len(Q) : Q[i].action = "register" => Q[i].route.event \in 0..m
        /\ \A i, j \in 1..Len(Q) :
             /\ i < j /\ Q[i].action = "register" /\ Q[j].action = "register"
             /\ Q[j].route.event # 0
             => Q[i].route.event < Q[j].route.event
        /\ \A i \in 1..Len(Q) : \A n \in Names, f \in Faces :
             Q[i].action = "register" /\ Q[i].route.event # 0 /\ Has(R, n, f) =>
               Event(R, n, f) < Q[i].route.event
    BY <1>2, <2>1 DEF EventsOrdered
  <2> QED
    BY <1>2, <2>2 DEF EventsOrdered
<1>3. ASSUME ExpiryKept(R, T, P, A) PROVE ExpiryKept(R, T \ {t}, Q, A)
  <2>1. ASSUME NEW n \in Names, NEW f \in Faces, Has(R, n, f), f \in A, Event(R, n, f) # 0
        PROVE  \/ Timer(n, f, Event(R, n, f)) \in T \ {t}
               \/ \E j \in 1..Len(Q) : Unregisters(Q[j], n, f)
    <3>1. CASE Timer(n, f, Event(R, n, f)) = t
      <4>1. Unregisters(b, n, f)
        BY <3>1 DEF Unregisters, Timer
      <4> QED
        BY <1>1, <4>1
    <3>2. CASE Timer(n, f, Event(R, n, f)) # t
      BY <1>1, <1>3, <2>1, <3>2 DEF ExpiryKept
    <3> QED
      BY <3>1, <3>2
  <2>2. ASSUME NEW i \in 1..Len(Q), Q[i].action = "register", Q[i].route.event # 0
        PROVE  \/ Timer(Q[i].name, Q[i].face, Q[i].route.event) \in T \ {t}
               \/ \E j \in 1..Len(Q) : i < j /\ Unregisters(Q[j], Q[i].name, Q[i].face)
    <3>1. i \in 1..Len(P) /\ Q[i] = P[i]
      BY <1>1, <2>2
    <3>2. CASE Timer(Q[i].name, Q[i].face, Q[i].route.event) = t
      <4>1. Unregisters(b, Q[i].name, Q[i].face)
        BY <3>2 DEF Unregisters, Timer
      <4> QED
        BY <1>1, <3>1, <4>1
    <3>3. CASE Timer(Q[i].name, Q[i].face, Q[i].route.event) # t
      BY <1>1, <1>3, <2>2, <3>1, <3>3 DEF ExpiryKept
    <3> QED
      BY <3>2, <3>3
  <2> QED
    BY <2>1, <2>2, Zenon DEF ExpiryKept
<1>4. ASSUME ExpiryOwn(R, T, P, A),
             \A i \in 1..Len(P) : RegistrationOf(P[i], t.name, t.face) => P[i].route.event = t.event
      PROVE  ExpiryOwn(R, T \ {t}, Q, A)
  <2>1. ASSUME NEW i \in 1..Len(Q), NEW j \in 1..Len(Q), i < j, Q[i].action = "register",
               Unregisters(Q[j], Q[i].name, Q[i].face), Q[j].event # 0
        PROVE  Q[i].route.event = Q[j].event
    <3>1. i \in 1..Len(P) /\ Q[i] = P[i]
      BY <1>1, <2>1
    <3>2. CASE j \in 1..Len(P)
      BY <1>1, <1>4, <2>1, <3>1, <3>2 DEF ExpiryOwn
    <3>3. CASE j = Len(P) + 1
      <4>1. RegistrationOf(P[i], t.name, t.face)
        BY <1>1, <2>1, <3>1, <3>3 DEF RegistrationOf, Unregisters
      <4> QED
        BY <1>1, <1>4, <3>1, <3>3, <4>1
    <3> QED
      BY <1>1, <3>2, <3>3
  <2>2. ASSUME NEW j \in 1..Len(Q), Q[j].action = "unregister", Q[j].event # 0, Q[j].face \in A,
               Has(R, Q[j].name, Q[j].face), Event(R, Q[j].name, Q[j].face) # Q[j].event
        PROVE  \E i \in 1..Len(Q) : i < j /\ Registers(Q[i], Q[j].name, Q[j].face, Q[j].event)
    <3>1. CASE j \in 1..Len(P)
      BY <1>1, <1>4, <2>2, <3>1 DEF ExpiryOwn
    <3>2. CASE j = Len(P) + 1
      <4>1. Q[j] = b
        BY <1>1, <3>2
      <4>2. PICK i \in 1..Len(P) : Registers(P[i], t.name, t.face, t.event)
        BY <1>4, <2>2, <4>1 DEF ExpiryOwn
      <4> QED
        BY <1>1, <3>2, <4>1, <4>2
    <3> QED
      BY <1>1, <3>1, <3>2
  <2>3. ASSUME NEW u \in T \ {t}, u.face \in A,
               ~(Has(R, u.name, u.face) /\ Event(R, u.name, u.face) = u.event)
        PROVE  \E i \in 1..Len(Q) : Registers(Q[i], u.name, u.face, u.event)
    BY <1>1, <1>4, <2>3 DEF ExpiryOwn
  <2> QED
    BY <2>1, <2>2, <2>3, Zenon DEF ExpiryOwn
<1> QED
  BY <1>2, <1>3, <1>4 DEF Q

\* The batches in progress and queued.
LEMMA PendingType ==
  ASSUME TypeInv
  PROVE  /\ PendingBatches \in Seq(Update)
         /\ inProgress => /\ PendingBatches # <<>> /\ PendingBatches[1] = current
                          /\ Tail(PendingBatches) = queue
         /\ ~inProgress => PendingBatches = queue
         /\ Range(PendingBatches) = pending
<1>1. queue \in Seq(Update) /\ inProgress \in BOOLEAN /\ (inProgress => current \in Update)
  BY DEF TypeInv
<1>2. CASE inProgress
  <2>1. PendingBatches = <<current>> \o queue
    BY <1>2 DEF PendingBatches
  <2>2. /\ PendingBatches \in Seq(Update) /\ Len(PendingBatches) = Len(queue) + 1
        /\ PendingBatches[1] = current /\ Len(queue) \in Nat
        /\ \A i \in 1..Len(queue) : PendingBatches[i + 1] = queue[i]
    BY <1>1, <1>2, <2>1
  <2>3. PendingBatches # <<>>
    BY <2>2
  <2>4. Tail(PendingBatches) = queue
    <3>1. /\ Tail(PendingBatches) \in Seq(Update) /\ Len(Tail(PendingBatches)) = Len(queue)
          /\ \A i \in 1..Len(queue) : Tail(PendingBatches)[i] = queue[i]
      BY <2>2, <2>3
    <3> QED
      BY <1>1, <3>1
  <2>5. Range(PendingBatches) = Range(queue) \union {current}
    <3>1. DOMAIN PendingBatches = 1..Len(PendingBatches) /\ DOMAIN queue = 1..Len(queue)
      BY <1>1, <2>2
    <3>2. \A i \in 1..Len(PendingBatches) : i = 1 \/ i - 1 \in 1..Len(queue)
      BY <2>2
    <3>3. \A i \in 1..Len(PendingBatches) :
            PendingBatches[i] = current \/ \E j \in 1..Len(queue) : PendingBatches[i] = queue[j]
      <4> SUFFICES ASSUME NEW i \in 1..Len(PendingBatches), i # 1
                   PROVE  \E j \in 1..Len(queue) : PendingBatches[i] = queue[j]
        BY <2>2
      <4>1. i - 1 \in 1..Len(queue) /\ (i - 1) + 1 = i
        BY <2>2, <3>2
      <4> QED
        BY <2>2, <4>1
    <3>4. \A j \in 1..Len(queue) : j + 1 \in 1..Len(PendingBatches)
      BY <2>2
    <3>5. 1 \in 1..Len(PendingBatches)
      BY <2>2
    <3>6. /\ Range(PendingBatches) = {PendingBatches[i] : i \in 1..Len(PendingBatches)}
          /\ Range(queue) = {queue[j] : j \in 1..Len(queue)}
      BY <3>1 DEF Range
    <3>7. Range(PendingBatches) \subseteq Range(queue) \union {current}
      BY <3>3, <3>6
    <3>8. \A j \in 1..Len(queue) : queue[j] \in Range(PendingBatches)
      BY <2>2, <3>4, <3>6
    <3>9. current \in Range(PendingBatches)
      BY <2>2, <3>5, <3>6
    <3> QED
      BY <3>6, <3>7, <3>8, <3>9
  <2> QED
    BY <1>2, <2>2, <2>3, <2>4, <2>5 DEF pending
<1>3. CASE ~inProgress
  <2>1. PendingBatches = <<>> \o queue
    BY <1>3 DEF PendingBatches
  <2>2. PendingBatches = queue
    BY <1>1, <2>1
  <2> QED
    BY <1>1, <1>3, <2>2 DEF pending
<1> QED
  BY <1>1, <1>2, <1>3

\* More batches are queued behind those that are pending.
LEMMA PendingGrows ==
  ASSUME TypeInv, NEW B \in Seq(Update), queue' = queue \o B, UNCHANGED <<inProgress, current>>
  PROVE  PendingBatches' = PendingBatches \o B
<1> DEFINE first == IF inProgress THEN <<current>> ELSE <<>>
<1>1. first \in Seq(Update) /\ queue \in Seq(Update)
  BY DEF TypeInv
<1>2. PendingBatches' = first \o (queue \o B) /\ PendingBatches = first \o queue
  BY DEF PendingBatches
<1> HIDE DEF first
<1> QED
  BY <1>1, <1>2, SMTT(30)

\* A batch is queued behind those that are pending.
LEMMA PendingAppend ==
  ASSUME TypeInv, NEW b \in Update, queue' = Append(queue, b), UNCHANGED <<inProgress, current>>
  PROVE  PendingBatches' = Append(PendingBatches, b)
<1>1. queue \in Seq(Update) /\ <<b>> \in Seq(Update) /\ PendingBatches \in Seq(Update)
  BY PendingType DEF TypeInv
<1>2. queue' = queue \o <<b>>
  BY <1>1
<1>3. PendingBatches' = PendingBatches \o <<b>>
  BY <1>1, <1>2, PendingGrows
<1> QED
  BY <1>1, <1>3

\* The first pending batch is applied.
LEMMA BatchApplied ==
  ASSUME TypeInv, EventInv, NEW stages \in RecordStages, PendingBatches # <<>>,
         onFibUpdateSuccess(PendingBatches[1], stages), PendingBatches' = Tail(PendingBatches),
         UNCHANGED <<alive, nUpdates>>, mishaps \subseteq mishaps'
  PROVE  EventInv'
<1> DEFINE P == PendingBatches
           b == PendingBatches[1]
<1>1. P \in Seq(Update)
  BY PendingType
<1>2. b \in Update /\ b.name \in Names /\ b.face \in Faces
      /\ (b.action = "register" => b.route \in Route)
  <2>1. b \in Update
    BY <1>1
  <2> QED
    BY <2>1, UpdateFields
<1>3. /\ rib' \in [Names -> Entry] /\ timers' = canceled(b.name, b.face)
      /\ \A n \in Names : rib'[n].routes =
           IF b.action = "register" THEN insert(b.name, b.face, b.route)[n].routes
                                    ELSE erase(b.name, b.face)[n].routes
  BY <1>2, SuccessType
<1>4. timers' = LeftTimers(rib, timers, b)
  BY <1>3 DEF canceled, LeftTimers, Has, Event
<1>5. rib \in [Names -> Entry] /\ timers \subseteq [name : Names, face : Faces, event : Nat]
      /\ nUpdates \in Nat
  BY DEF TypeInv
<1> HIDE DEF b
<1>6. Applied(rib, rib', b)
  <2>1. CASE b.action = "register"
    <3> DEFINE t == insert(b.name, b.face, b.route)
    <3>1. /\ DOMAIN t[b.name].routes = DOMAIN rib[b.name].routes \union {b.face}
          /\ t[b.name].routes[b.face] = b.route
          /\ \A g \in DOMAIN rib[b.name].routes \ {b.face} : t[b.name].routes[g] = rib[b.name].routes[g]
          /\ \A k \in Names \ {b.name} : t[k] = rib[k]
      BY <1>2, <1>5, <2>1, InsertType
    <3>2. \A n \in Names : rib'[n].routes = t[n].routes
      BY <1>3, <2>1
    <3> HIDE DEF t
    <3> QED
      BY <1>2, <2>1, <3>1, <3>2 DEF Applied, Has, Event
  <2>2. CASE b.action # "register"
    <3> DEFINE t == erase(b.name, b.face)
    <3>1. /\ DOMAIN t[b.name].routes = DOMAIN rib[b.name].routes \ {b.face}
          /\ \A g \in DOMAIN rib[b.name].routes \ {b.face} : t[b.name].routes[g] = rib[b.name].routes[g]
          /\ \A k \in Names \ {b.name} : t[k] = rib[k]
      BY <1>2, <1>5, EraseType
    <3>2. \A n \in Names : rib'[n].routes = t[n].routes
      BY <1>3, <2>2
    <3> HIDE DEF t
    <3> QED
      BY <1>2, <2>2, <3>1, <3>2, SMTT(30) DEF Applied, Has, Event
  <2> QED
    BY <2>1, <2>2
<1> SUFFICES ASSUME Undisturbed'
             PROVE  /\ EventsOrdered(rib', timers', Tail(P), nUpdates)
                    /\ ExpiryKept(rib', timers', Tail(P), alive)
                    /\ Unrefreshed => ExpiryOwn(rib', timers', Tail(P), alive)
  <2>1. Unrefreshed' => Unrefreshed
    BY DEF Unrefreshed
  <2> QED
    BY <2>1 DEF EventInv
<1>7. /\ EventsOrdered(rib, timers, P, nUpdates)
      /\ ExpiryKept(rib, timers, P, alive)
      /\ Unrefreshed => ExpiryOwn(rib, timers, P, alive)
  BY DEF EventInv, Undisturbed
<1> HIDE DEF P
<1>8. b = P[1] /\ P # <<>>
  BY DEF b, P
<1>9. EventsOrdered(rib', timers', Tail(P), nUpdates)
  BY <1>1, <1>4, <1>5, <1>6, <1>7, <1>8, ApplyOrdered
<1>10. ExpiryKept(rib', timers', Tail(P), alive)
  BY <1>1, <1>4, <1>5, <1>6, <1>7, <1>8, ApplyKept
<1>11. ASSUME Unrefreshed PROVE ExpiryOwn(rib', timers', Tail(P), alive)
  BY <1>1, <1>4, <1>5, <1>6, <1>7, <1>8, <1>11, ApplyOwn
<1> QED
  BY <1>9, <1>10, <1>11

\* A step that leaves the RIB and the batches alone.
LEMMA BatchesUnchanged ==
  ASSUME EventInv, UNCHANGED <<rib, timers, PendingBatches, alive, nUpdates>>,
         mishaps \subseteq mishaps'
  PROVE  EventInv'
  BY DEF EventInv, Undisturbed, Unrefreshed

\* The event of a route is canceled when its removal is the first of the pending batches.
LEMMA CancelFirst ==
  ASSUME NEW R, NEW T, NEW P \in Seq(Update), P # <<>>, NEW m \in Nat, NEW A,
         P[1].action # "register", P[1].action = "removeFace" => P[1].face \notin A
  PROVE  /\ EventsOrdered(R, T, P, m) => EventsOrdered(R, LeftTimers(R, T, P[1]), P, m)
         /\ EventsOrdered(R, T, P, m) /\ ExpiryKept(R, T, P, A) =>
              ExpiryKept(R, LeftTimers(R, T, P[1]), P, A)
         /\ ExpiryOwn(R, T, P, A) => ExpiryOwn(R, LeftTimers(R, T, P[1]), P, A)
<1> DEFINE T2 == LeftTimers(R, T, P[1])
<1>1. T2 \subseteq T /\ \A t \in T \ T2 : /\ Has(R, P[1].name, P[1].face)
                                        /\ t.event = Event(R, P[1].name, P[1].face)
  BY DEF LeftTimers
<1>2. P[1] \in Update /\ 1 \in 1..Len(P)
  OBVIOUS
<1>3. /\ P[1].name \in Names /\ P[1].face \in Faces
      /\ P[1].action \in {"unregister", "removeFace"}
  BY <1>2, UpdateFields
<1> HIDE DEF T2
<1>4. EventsOrdered(R, T, P, m) => EventsOrdered(R, T2, P, m)
  BY <1>1 DEF EventsOrdered
<1>5. ExpiryOwn(R, T, P, A) => ExpiryOwn(R, T2, P, A)
  BY <1>1 DEF ExpiryOwn
<1>6. ASSUME EventsOrdered(R, T, P, m), ExpiryKept(R, T, P, A)
      PROVE  ExpiryKept(R, T2, P, A)
  <2>1. ASSUME NEW n \in Names, NEW f \in Faces, Has(R, n, f), f \in A, Event(R, n, f) # 0,
               Timer(n, f, Event(R, n, f)) \in T \ T2
        PROVE  \E j \in 1..Len(P) : Unregisters(P[j], n, f)
    <3>1. Timer(n, f, Event(R, n, f)).event = Event(R, n, f)
      BY DEF Timer
    <3>2. n = P[1].name /\ f = P[1].face
      BY <1>1, <1>3, <1>6, <2>1, <3>1 DEF EventsOrdered
    <3> QED
      BY <1>2, <1>3, <2>1, <3>2 DEF Unregisters
  <2>2. ASSUME NEW i \in 1..Len(P), P[i].action = "register", P[i].route.event # 0,
               Timer(P[i].name, P[i].face, P[i].route.event) \in T \ T2
        PROVE  FALSE
    <3>1. Timer(P[i].name, P[i].face, P[i].route.event).event = P[i].route.event
      BY DEF Timer
    <3>2. /\ Has(R, P[1].name, P[1].face)
          /\ P[i].route.event = Event(R, P[1].name, P[1].face)
      BY <1>1, <2>2, <3>1
    <3>3. /\ Event(R, P[1].name, P[1].face) < P[i].route.event
          /\ Event(R, P[1].name, P[1].face) \in 0..m
      BY <1>3, <1>6, <2>2, <3>2 DEF EventsOrdered
    <3> QED
      BY <3>2, <3>3
  <2> QED
    BY <1>6, <2>1, <2>2 DEF ExpiryKept
<1> QED
  BY <1>4, <1>5, <1>6 DEF T2

\* The next batch is taken from the queue: it is applied at once if it needs no command,
\* and is the first of the pending batches before and after otherwise.
LEMMA SendBatchEvents ==
  ASSUME TypeInv, TypeInv', DeadFaces, EventInv, SendBatchFromQueue
  PROVE  EventInv'
<1>1. /\ queue # <<>> /\ ~inProgress /\ queue' = Tail(queue) /\ current' = Head(queue)
      /\ \/ /\ inProgress' = TRUE /\ UNCHANGED rib
            /\ timers' = IF Head(queue).action = "register" THEN timers
                         ELSE canceled(Head(queue).name, Head(queue).face)
         \/ onFibUpdateSuccess(Head(queue), inherited')
      /\ UNCHANGED <<managerVars, fib, alive, counters>>
  BY Zenon DEF SendBatchFromQueue, mayAdvance
<1>0. mishaps \subseteq mishaps'
  BY SendBatchMishaps
<1>2. queue \in Seq(Update) /\ PendingBatches = queue /\ Head(queue) = queue[1]
  BY <1>1, PendingType DEF TypeInv
<1>3. CASE /\ inProgress' = TRUE /\ UNCHANGED rib
           /\ timers' = IF Head(queue).action = "register" THEN timers
                        ELSE canceled(Head(queue).name, Head(queue).face)
  <2>1. PendingBatches' = <<Head(queue)>> \o Tail(queue)
    BY <1>1, <1>3 DEF PendingBatches
  <2>2. PendingBatches' = PendingBatches
    BY <1>1, <1>2, <2>1
  <2>3. CASE timers' = timers
    BY <1>0, <1>1, <1>3, <2>2, <2>3, BatchesUnchanged DEF counters
  <2>4. CASE /\ queue[1].action # "register"
             /\ timers' = canceled(queue[1].name, queue[1].face)
    <3>1. timers' = LeftTimers(rib, timers, queue[1])
      BY <2>4 DEF canceled, LeftTimers, Has, Event
    <3>2. nUpdates \in Nat /\ 1 \in 1..Len(queue)
      BY <1>1, <1>2 DEF TypeInv
    <3>3. queue[1].action = "removeFace" => queue[1].face \notin alive
      BY <3>2 DEF DeadFaces
    <3>4. /\ EventsOrdered(rib, timers, queue, nUpdates) =>
               EventsOrdered(rib, timers', queue, nUpdates)
          /\ EventsOrdered(rib, timers, queue, nUpdates) /\ ExpiryKept(rib, timers, queue, alive) =>
               ExpiryKept(rib, timers', queue, alive)
          /\ ExpiryOwn(rib, timers, queue, alive) => ExpiryOwn(rib, timers', queue, alive)
      BY <1>1, <1>2, <2>4, <3>1, <3>2, <3>3, CancelFirst
    <3>5. (Undisturbed' => Undisturbed) /\ (Unrefreshed' => Unrefreshed)
      BY <1>0 DEF Undisturbed, Unrefreshed
    <3>6. PendingBatches' = queue /\ rib' = rib /\ alive' = alive /\ nUpdates' = nUpdates
      BY <1>1, <1>2, <1>3, <2>2 DEF counters
    <3> QED
      BY <1>2, <3>4, <3>5, <3>6 DEF EventInv
  <2> QED
    BY <1>2, <1>3, <2>3, <2>4
<1>4. CASE onFibUpdateSuccess(Head(queue), inherited')
  <2>1. inProgress' = FALSE
    BY <1>4 DEF onFibUpdateSuccess
  <2>2. PendingBatches' = queue'
    <3>1. PendingBatches' = <<>> \o queue' /\ queue' \in Seq(Update)
      BY <2>1 DEF PendingBatches, TypeInv
    <3> QED
      BY <3>1
  <2>3. inherited' \in RecordStages
    BY DEF TypeInv
  <2> QED
    BY <1>0, <1>1, <1>2, <1>4, <2>2, <2>3, BatchApplied DEF counters
<1> QED
  BY <1>1, <1>3, <1>4

\* An answer ends the batch in progress, or leaves the RIB and the batches alone.
LEMMA AnswerEvents ==
  ASSUME TypeInv, TypeInv', UpdaterInv, EventInv, NEW c \in BagToSet(sent), Answer(c)
  PROVE  EventInv'
<1>1. /\ UNCHANGED <<queue, current, inherited, alive, counters>> /\ mishaps \subseteq mishaps'
      /\ \/ UNCHANGED <<rib, inProgress, timers>>
         \/ onFibUpdateSuccess(c.batch, inherited) /\ UNCHANGED mishaps
         \/ onFibUpdateFailure /\ c.update.face = current.face /\ faceNotFound(c)
  BY Zenon DEF Answer, OnUpdateSuccess, OnFaceNotFound, OwnUpdateDone, OtherUpdateDone
<1>2. CASE UNCHANGED <<rib, inProgress, timers>>
  <2>1. UNCHANGED PendingBatches
    BY <1>1, <1>2 DEF PendingBatches
  <2> QED
    BY <1>1, <1>2, <2>1, BatchesUnchanged DEF counters
<1>3. CASE ~Undisturbed
  BY <1>1, <1>3 DEF EventInv, Undisturbed
<1>4. ASSUME Undisturbed, inProgress' = FALSE
      PROVE  /\ PendingBatches # <<>> /\ PendingBatches[1] = current /\ c.batch = current
             /\ PendingBatches' = Tail(PendingBatches)
  <2>1. inProgress /\ c.batch = current
    BY <1>4 DEF UpdaterInv, BatchInv
  <2>2. /\ PendingBatches # <<>> /\ PendingBatches[1] = current
        /\ Tail(PendingBatches) = queue
    BY <2>1, PendingType
  <2>3. PendingBatches' = queue'
    <3>1. PendingBatches' = <<>> \o queue' /\ queue' \in Seq(Update)
      BY <1>4 DEF PendingBatches, TypeInv
    <3> QED
      BY <3>1
  <2> QED
    BY <1>1, <2>1, <2>2, <2>3
<1>5. CASE Undisturbed /\ onFibUpdateSuccess(c.batch, inherited) /\ UNCHANGED mishaps
  <2>1. inProgress' = FALSE
    BY <1>5 DEF onFibUpdateSuccess
  <2>2. inherited \in RecordStages
    BY DEF TypeInv
  <2> QED
    BY <1>1, <1>4, <1>5, <2>1, <2>2, BatchApplied DEF counters
<1>6. CASE Undisturbed /\ onFibUpdateFailure /\ c.update.face = current.face /\ faceNotFound(c)
  <2>1. inProgress' = FALSE /\ UNCHANGED <<rib, timers>>
    BY <1>6 DEF onFibUpdateFailure
  <2>2. PendingBatches[1].face \notin alive
    BY <1>4, <1>6, <2>1 DEF faceNotFound
  <2>3. PendingBatches \in Seq(Update) /\ nUpdates \in Nat
    BY PendingType DEF TypeInv
  <2>4. /\ EventsOrdered(rib, timers, PendingBatches, nUpdates)
        /\ ExpiryKept(rib, timers, PendingBatches, alive)
        /\ Unrefreshed => ExpiryOwn(rib, timers, PendingBatches, alive)
    BY <1>6 DEF EventInv
  <2>5. /\ EventsOrdered(rib, timers, Tail(PendingBatches), nUpdates)
        /\ ExpiryKept(rib, timers, Tail(PendingBatches), alive)
        /\ Unrefreshed => ExpiryOwn(rib, timers, Tail(PendingBatches), alive)
    BY <1>4, <1>6, <2>1, <2>2, <2>3, <2>4, DropBatch
  <2>6. Unrefreshed' => Unrefreshed
    BY <1>1 DEF Unrefreshed
  <2> QED
    BY <1>1, <1>4, <1>6, <2>1, <2>5, <2>6 DEF EventInv, counters
<1> QED
  BY <1>1, <1>2, <1>3, <1>5, <1>6

\* A registration is queued.
LEMMA RegisterEvents ==
  ASSUME TypeInv, EventInv, NEW x \in Registrations, RegisterEntry(x)
  PROVE  EventInv'
<1> DEFINE event == IF x.expires THEN nUpdates + 1 ELSE 0
           batch == [action |-> "register", name |-> x.name, face |-> x.face,
                     route |-> routeOf(x, event)]
<1>1. x.name \in Names /\ x.face \in Faces /\ x.route \in Params /\ x.expires \in BOOLEAN
  BY RibAssumption
<1>2. nUpdates \in Nat /\ event \in Nat /\ event \in {0, nUpdates + 1} /\ (event # 0 <=> x.expires)
  BY DEF TypeInv
<1>3. /\ queue' = Append(queue, batch)
      /\ timers' = timers \union
              (IF x.expires THEN {[name |-> x.name, face |-> x.face, event |-> event]} ELSE {})
      /\ nUpdates' = nUpdates + 1
      /\ UNCHANGED <<rib, inProgress, current, alive, mishaps>>
  BY DEF RegisterEntry, updaterVars
<1> HIDE DEF event
<1>4. routeOf(x, event) \in Route /\ routeOf(x, event).event = event
  BY <1>1, <1>2 DEF routeOf, Params, Route
<1>5. /\ batch \in Update /\ batch.action = "register" /\ batch.route.event = event
      /\ batch.name = x.name /\ batch.face = x.face
  BY <1>1, <1>4 DEF Update
<1> HIDE DEF batch
<1>6. timers' = MoreTimers(timers, batch)
  BY <1>2, <1>3, <1>5 DEF Timer, MoreTimers
<1>7. PendingBatches' = Append(PendingBatches, batch) /\ PendingBatches \in Seq(Update)
  BY <1>3, <1>5, PendingAppend, PendingType
<1>8. /\ EventsOrdered(rib, timers, PendingBatches, nUpdates) =>
           EventsOrdered(rib, timers', PendingBatches', nUpdates + 1)
      /\ ExpiryKept(rib, timers, PendingBatches, alive) =>
           ExpiryKept(rib, timers', PendingBatches', alive)
      /\ ExpiryOwn(rib, timers, PendingBatches, alive) =>
           ExpiryOwn(rib, timers', PendingBatches', alive)
  <2>1. batch.route.event \in {0, nUpdates + 1}
    BY <1>2, <1>5
  <2> DEFINE b == batch
             P == PendingBatches
             m == nUpdates
  <2>2. P \in Seq(Update) /\ b \in Update /\ b.action = "register" /\ m \in Nat
        /\ b.route.event \in {0, m + 1}
    BY <1>2, <1>5, <1>7, <2>1
  <2> HIDE DEF b, P, m
  <2>3. \A R, T, A :
           /\ EventsOrdered(R, T, P, m) => EventsOrdered(R, MoreTimers(T, b), Append(P, b), m + 1)
           /\ ExpiryKept(R, T, P, A) => ExpiryKept(R, MoreTimers(T, b), Append(P, b), A)
           /\ ExpiryOwn(R, T, P, A) => ExpiryOwn(R, MoreTimers(T, b), Append(P, b), A)
    BY <2>2, QueueRegistration, SMTT(30)
  <2> QED
    BY <1>6, <1>7, <2>3 DEF b, P, m
<1> QED
  BY <1>3, <1>8 DEF EventInv, Undisturbed, Unrefreshed

\* Unregistrations and the removals of a destroyed face are queued.
LEMMA RemovalEvents ==
  ASSUME TypeInv, EventInv, NEW B \in Seq(Update), queue' = queue \o B,
         \A i \in 1..Len(B) : B[i].action # "register"
                              /\ (B[i].action = "unregister" => B[i].event = 0),
         nUpdates' \in {nUpdates, nUpdates + 1},
         UNCHANGED <<rib, inProgress, timers, current, alive, mishaps>>
  PROVE  EventInv'
<1>1. PendingBatches' = PendingBatches \o B /\ PendingBatches \in Seq(Update)
  BY PendingGrows, PendingType
<1>2. nUpdates \in Nat /\ nUpdates' \in Nat /\ nUpdates <= nUpdates'
  BY DEF TypeInv
<1>3. /\ EventsOrdered(rib, timers, PendingBatches, nUpdates) =>
           EventsOrdered(rib, timers, PendingBatches', nUpdates')
      /\ ExpiryKept(rib, timers, PendingBatches, alive) =>
           ExpiryKept(rib, timers, PendingBatches', alive)
      /\ ExpiryOwn(rib, timers, PendingBatches, alive) =>
           ExpiryOwn(rib, timers, PendingBatches', alive)
  BY <1>1, <1>2, QueueRemovals
<1> QED
  BY <1>3 DEF EventInv, Undisturbed, Unrefreshed

\* A route expires.
LEMMA ExpirationEvents ==
  ASSUME TypeInv, EventInv, NEW t \in timers, OnRouteExpiration(t)
  PROVE  EventInv'
<1> DEFINE b == [action |-> "unregister", name |-> t.name, face |-> t.face, event |-> t.event]
<1>1. /\ timers' = timers \ {t} /\ queue' = Append(queue, b)
      /\ mishaps' = mishaps \union
           (IF \E d \in pending : RegistrationOf(d, t.name, t.face) /\ d.route.event # t.event
            THEN {"refresh"} ELSE {})
      /\ UNCHANGED <<rib, inProgress, current, alive, nUpdates>>
  BY DEF OnRouteExpiration, updaterVars, counters
<1>2. /\ b \in Update /\ b.action = "unregister" /\ b.name = t.name /\ b.face = t.face
      /\ b.event = t.event /\ timers \subseteq [name : Names, face : Faces, event : Nat]
      /\ nUpdates \in Nat
  BY DEF Update, TypeInv
<1> HIDE DEF b
<1>3. /\ PendingBatches' = Append(PendingBatches, b) /\ PendingBatches \in Seq(Update)
      /\ Range(PendingBatches) = pending
  BY <1>1, <1>2, PendingAppend, PendingType
<1>4. ASSUME Unrefreshed'
      PROVE  \A i \in 1..Len(PendingBatches) :
               RegistrationOf(PendingBatches[i], t.name, t.face) =>
                 PendingBatches[i].route.event = t.event
  <2>1. \A d \in pending : RegistrationOf(d, t.name, t.face) => d.route.event = t.event
    BY <1>1, <1>4 DEF Unrefreshed
  <2>2. DOMAIN PendingBatches = 1..Len(PendingBatches)
    BY <1>3
  <2>3. \A i \in 1..Len(PendingBatches) : PendingBatches[i] \in pending
    BY <1>3, <2>2 DEF Range
  <2> QED
    BY <2>1, <2>3
<1>5. /\ EventsOrdered(rib, timers, PendingBatches, nUpdates) =>
           EventsOrdered(rib, timers', PendingBatches', nUpdates)
      /\ ExpiryKept(rib, timers, PendingBatches, alive) =>
           ExpiryKept(rib, timers', PendingBatches', alive)
      /\ ExpiryOwn(rib, timers, PendingBatches, alive) /\ Unrefreshed' =>
           ExpiryOwn(rib, timers', PendingBatches', alive)
  BY <1>1, <1>2, <1>3, <1>4, QueueExpiration
<1>6. mishaps \subseteq mishaps'
  BY <1>1
<1> QED
  BY <1>1, <1>5, <1>6 DEF EventInv, Undisturbed, Unrefreshed

\* A face is destroyed.
LEMMA FaceEvents ==
  ASSUME TypeInv, EventInv, NEW f, FaceDestroyed(f)
  PROVE  EventInv'
<1>1. /\ alive' \subseteq alive
      /\ UNCHANGED <<rib, queue, inProgress, timers, current, nUpdates, mishaps>>
  BY DEF FaceDestroyed, ribVars, updaterVars, counters
<1>2. PendingBatches' = PendingBatches
  BY <1>1 DEF PendingBatches
<1>3. ExpiryKept(rib, timers, PendingBatches, alive) => ExpiryKept(rib, timers, PendingBatches, alive')
  BY <1>1 DEF ExpiryKept
<1>4. ExpiryOwn(rib, timers, PendingBatches, alive) => ExpiryOwn(rib, timers, PendingBatches, alive')
  BY <1>1 DEF ExpiryOwn
<1> QED
  BY <1>1, <1>2, <1>3, <1>4 DEF EventInv, Undisturbed, Unrefreshed

\* Every step keeps the order of the events and what they are for.
LEMMA NextEventInv ==
  ASSUME TypeInv, TypeInv', UpdaterInv, DeadFaces, EventInv, Next
  PROVE  EventInv'
<1>1. CASE SendNothing
  <2>1. UNCHANGED <<rib, timers, PendingBatches, alive, nUpdates, mishaps>>
    BY <1>1 DEF SendNothing, ribVars, updaterVars, counters, PendingBatches
  <2> QED
    BY <2>1, BatchesUnchanged
<1>2. CASE SendBatchFromQueue
  BY <1>2, SendBatchEvents
<1>3. ASSUME NEW c \in BagToSet(sent), Answer(c)
      PROVE  EventInv'
  BY <1>3, AnswerEvents
<1>4. ASSUME NEW c \in BagToSet(sent), OnTimeout(c)
      PROVE  EventInv'
  <2>1. UNCHANGED <<rib, timers, PendingBatches, alive, nUpdates>> /\ mishaps \subseteq mishaps'
    BY <1>4 DEF OnTimeout, ribVars, updaterVars, PendingBatches
  <2> QED
    BY <2>1, BatchesUnchanged
<1>5. ASSUME NEW x \in Registrations, RegisterEntry(x)
      PROVE  EventInv'
  BY <1>5, RegisterEvents
<1>6. ASSUME NEW n \in Names, NEW f \in Faces, UnregisterEntry(n, f)
      PROVE  EventInv'
  <2> DEFINE b == [action |-> "unregister", name |-> n, face |-> f, event |-> 0]
  <2>1. b \in Update /\ b.action = "unregister" /\ b.event = 0
    BY DEF Update
  <2>2. /\ queue' = Append(queue, b) /\ nUpdates' = nUpdates + 1
        /\ UNCHANGED <<rib, inProgress, timers, current, alive, mishaps>>
    BY <1>6 DEF UnregisterEntry, updaterVars
  <2> HIDE DEF b
  <2>3. /\ <<b>> \in Seq(Update) /\ queue' = queue \o <<b>>
        /\ \A i \in 1..Len(<<b>>) : <<b>>[i].action # "register"
                                    /\ (<<b>>[i].action = "unregister" => <<b>>[i].event = 0)
    BY <2>1, <2>2 DEF TypeInv
  <2> QED
    BY <2>2, <2>3, RemovalEvents
<1>7. ASSUME NEW t \in timers, OnRouteExpiration(t)
      PROVE  EventInv'
  BY <1>7, ExpirationEvents
<1>8. ASSUME NEW f \in Destroyable, FaceDestroyed(f)
      PROVE  EventInv'
  BY <1>8, FaceEvents
<1>9. ASSUME NEW f \in Destroyable, OnFaceDestroyedEvent(f)
      PROVE  EventInv'
  <2>1. PICK names \in SetToSeqs({n \in Names : f \in DOMAIN rib[n].routes}) :
          queue' = queue \o [i \in DOMAIN names |->
                               [action |-> "removeFace", name |-> names[i], face |-> f]]
    BY <1>9, Zenon DEF OnFaceDestroyedEvent
  <2> DEFINE B == [i \in DOMAIN names |->
                     [action |-> "removeFace", name |-> names[i], face |-> f]]
  <2>2. names \in Seq(Names) /\ B \in Seq(Update)
    BY RibAssumption, FaceBatchesType
  <2>3. Len(B) \in Nat /\ 1..Len(B) = DOMAIN names
    BY <2>2
  <2>4. \A i \in 1..Len(B) : B[i].action # "register"
                             /\ (B[i].action = "unregister" => B[i].event = 0)
    BY <2>3
  <2> HIDE DEF B
  <2>5. queue' = queue \o B /\ nUpdates' = nUpdates
        /\ UNCHANGED <<rib, inProgress, timers, current, alive, mishaps>>
    BY <1>9, <2>1 DEF OnFaceDestroyedEvent, updaterVars, counters, B
  <2> QED
    BY <2>2, <2>4, <2>5, RemovalEvents
<1>10. CASE RemoveInvalidFaces
  <2>1. UNCHANGED <<rib, timers, PendingBatches, alive, nUpdates, mishaps>>
    BY <1>10 DEF RemoveInvalidFaces, ribVars, updaterVars, counters, PendingBatches
  <2> QED
    BY <2>1, BatchesUnchanged
<1> QED
  BY <1>1, <1>2, <1>3, <1>4, <1>5, <1>6, <1>7, <1>8, <1>9, <1>10, Zenon DEF Next

\* There are no routes, batches and events initially.
LEMMA InitEventInv == Init => EventInv
<1> SUFFICES ASSUME Init PROVE EventInv
  OBVIOUS
<1>1. PendingBatches = <<>> /\ timers = {} /\ nUpdates = 0
  BY DEF Init, PendingBatches
<1>2. \A n \in Names : DOMAIN rib[n].routes = {}
  BY DEF Init, NoEntry
<1>3. Len(PendingBatches) = 0 /\ \A i \in 1..Len(PendingBatches) : FALSE
  BY <1>1
<1> QED
  BY <1>1, <1>2, <1>3 DEF EventInv, EventsOrdered, ExpiryKept, ExpiryOwn, Has

\* The order of the events holds throughout.
LEMMA EventInvHolds == Spec => []EventInv
<1>1. EventInv /\ UNCHANGED vars => EventInv'
  <2> SUFFICES ASSUME EventInv, UNCHANGED vars PROVE EventInv'
    OBVIOUS
  <2>1. UNCHANGED <<rib, timers, PendingBatches, alive, nUpdates, mishaps>>
    BY DEF vars, ribVars, updaterVars, counters, PendingBatches
  <2> QED
    BY <2>1, BatchesUnchanged
<1> QED
  BY InitEventInv, NextEventInv, TypeInvHolds, UpdaterInvHolds, DeadFacesHolds, <1>1, PTL DEF Spec

\* Every route that expires on a live face is going to be removed, whatever batches are
\* queued, refused or dropped in between.
THEOREM RoutesExpire == Spec => []ExpiryPending
<1>1. TypeInv /\ EventInv => ExpiryPending
  <2> SUFFICES ASSUME TypeInv, EventInv, Undisturbed,
                      NEW n \in Names, NEW f \in DOMAIN rib[n].routes \intersect alive,
                      rib[n].routes[f].event # 0,
                      ~ \E b \in pending : b.action = "unregister" /\ b.name = n /\ b.face = f
               PROVE  \E t \in timers : t.event = rib[n].routes[f].event
    BY DEF ExpiryPending
  <2>1. f \in Faces
    BY DEF TypeInv
  <2>2. PendingBatches \in Seq(Update) /\ Range(PendingBatches) = pending
    BY PendingType
  <2>3. ~ \E j \in 1..Len(PendingBatches) : Unregisters(PendingBatches[j], n, f)
    <3>1. \A j \in 1..Len(PendingBatches) : PendingBatches[j] \in pending
      <4>1. DOMAIN PendingBatches = 1..Len(PendingBatches)
        BY <2>2
      <4> QED
        BY <2>2, <4>1 DEF Range
    <3> QED
      BY <3>1 DEF Unregisters
  <2>4. Timer(n, f, rib[n].routes[f].event) \in timers
    BY <2>1, <2>3 DEF EventInv, ExpiryKept, Has, Event
  <2> QED
    BY <2>4 DEF Timer
<1> QED
  BY <1>1, TypeInvHolds, EventInvHolds, PTL

\* The step in which the first pending batch is applied: an expiration finds the route that
\* it was scheduled for.
LEMMA FirstIsOwn ==
  ASSUME TypeInv, EventInv, Unrefreshed, PendingBatches # <<>>,
         PendingBatches[1].face \in alive, PendingBatches[1].action = "unregister",
         PendingBatches[1].event # 0,
         PendingBatches[1].face \in DOMAIN rib[PendingBatches[1].name].routes
  PROVE  rib[PendingBatches[1].name].routes[PendingBatches[1].face].event = PendingBatches[1].event
<1>1. PendingBatches \in Seq(Update)
  BY PendingType
<1>2. 1 \in 1..Len(PendingBatches) /\ \A i \in 1..Len(PendingBatches) : ~(i < 1)
  BY <1>1
<1>3. ExpiryOwn(rib, timers, PendingBatches, alive)
  BY DEF EventInv, Undisturbed, Unrefreshed
<1> QED
  BY <1>2, <1>3 DEF ExpiryOwn, Has, Event

\* An expiration never removes a route that was registered since, unless the route expired
\* while its new registration was under way.
THEOREM ExpirationsAreOwn == Spec => ExpiresOwnRoute
<1> DEFINE b == current'
           Own == /\ mishaps' \intersect {"retry", "overlap", "refresh"} = {}
                  /\ b.face \in alive /\ rib' # rib
                  /\ b.action = "unregister" /\ b.event # 0 /\ b.face \in DOMAIN rib[b.name].routes
                  => rib[b.name].routes[b.face].event = b.event
<1>1. ASSUME TypeInv, UpdaterInv, EventInv, [Next]_vars
      PROVE  Own
  <2> SUFFICES ASSUME Unrefreshed', b.face \in alive, rib' # rib,
                      b.action = "unregister", b.event # 0, b.face \in DOMAIN rib[b.name].routes
               PROVE  rib[b.name].routes[b.face].event = b.event
    BY DEF Unrefreshed
  <2>1. CASE SendBatchFromQueue
    <3>1. queue # <<>> /\ ~inProgress /\ b = Head(queue)
      BY <2>1, Zenon DEF SendBatchFromQueue, mayAdvance
    <3>3. Unrefreshed
      BY <2>1, SendBatchMishaps DEF Unrefreshed
    <3>2. PendingBatches # <<>> /\ PendingBatches[1] = b
      BY <1>1, <3>1, PendingType DEF TypeInv
    <3> QED
      BY <1>1, <3>1, <3>2, <3>3, FirstIsOwn
  <2>2. ASSUME NEW c \in BagToSet(sent), Answer(c)
        PROVE  rib[b.name].routes[b.face].event = b.event
    <3>1. current' = current /\ mishaps \subseteq mishaps'
      BY <2>2, Zenon DEF Answer, OnUpdateSuccess, OnFaceNotFound
    <3>2. inProgress
      BY <1>1, <2>2, <3>1 DEF UpdaterInv, BatchInv, Undisturbed, Unrefreshed
    <3>3. PendingBatches # <<>> /\ PendingBatches[1] = b /\ Unrefreshed
      BY <1>1, <3>1, <3>2, PendingType DEF Unrefreshed
    <3> QED
      BY <1>1, <3>3, FirstIsOwn
  <2>3. CASE SendNothing
    BY <2>3 DEF SendNothing, ribVars
  <2>4. ASSUME NEW c \in BagToSet(sent), OnTimeout(c) PROVE FALSE
    BY <2>4 DEF OnTimeout, ribVars
  <2>5. ASSUME NEW x \in Registrations, RegisterEntry(x) PROVE FALSE
    BY <2>5 DEF RegisterEntry
  <2>6. ASSUME NEW n \in Names, NEW f \in Faces, UnregisterEntry(n, f) PROVE FALSE
    BY <2>6 DEF UnregisterEntry
  <2>7. ASSUME NEW t \in timers, OnRouteExpiration(t) PROVE FALSE
    BY <2>7 DEF OnRouteExpiration
  <2>8. ASSUME NEW f \in Destroyable, FaceDestroyed(f) \/ OnFaceDestroyedEvent(f) PROVE FALSE
    BY <2>8 DEF FaceDestroyed, OnFaceDestroyedEvent, ribVars
  <2>9. CASE RemoveInvalidFaces
    BY <2>9 DEF RemoveInvalidFaces, ribVars
  <2>10. CASE UNCHANGED vars
    BY <2>10 DEF vars, ribVars
  <2> QED
    BY <1>1, <2>1, <2>2, <2>3, <2>4, <2>5, <2>6, <2>7, <2>8, <2>9, <2>10, Zenon DEF Next
<1>2. Spec => [][Own]_vars
  <2>1. TypeInv /\ UpdaterInv /\ EventInv /\ [Next]_vars => [Own]_vars
    BY <1>1
  <2> HIDE DEF Own
  <2> QED
    BY <2>1, TypeInvHolds, UpdaterInvHolds, EventInvHolds, PTL DEF Spec
<1> QED
  BY <1>2 DEF ExpiresOwnRoute


----------------------------------------------------------------------------
(* The tree of names                                                       *)

\* A prefix, elementwise.
LEMMA PrefixElements ==
  ASSUME NEW a \in Seq(Nat), NEW b \in Seq(Nat)
  PROVE  IsStrictPrefix(a, b) <=>
           Len(a) < Len(b) /\ \A i \in 1..Len(a) : a[i] = b[i]
<1>1. /\ Len(a) \in Nat /\ Len(b) \in Nat
  OBVIOUS
<1>2. ASSUME Len(a) <= Len(b)
      PROVE  SubSeq(a, 1, Len(a)) = SubSeq(b, 1, Len(a)) <=> \A i \in 1..Len(a) : a[i] = b[i]
  <2>1. /\ SubSeq(a, 1, Len(a)) = [i \in 1..Len(a) |-> a[i]]
        /\ SubSeq(b, 1, Len(a)) = [i \in 1..Len(a) |-> b[i]]
    BY <1>1, <1>2
  <2> QED
    BY <2>1
<1>3. ASSUME Len(a) = Len(b), \A i \in 1..Len(a) : a[i] = b[i] PROVE a = b
  BY <1>3, SMTT(30)
<1> QED
  BY <1>1, <1>2, <1>3 DEF IsStrictPrefix, IsPrefix

\* The names above a name are its proper prefixes: a chain, from the shortest on.
LEMMA NameOrder ==
  ASSUME NEW n \in Names
  PROVE  /\ Above[n] \subseteq Names /\ Below[n] \subseteq Names
         /\ n \notin Above[n] /\ n \notin Below[n]
         /\ \A a \in Names : a \in Above[n] <=> n \in Below[a]
         /\ \A a \in Above[n] : Len(a) \in 0..Len(n) /\ Len(a) < Len(n) /\ Len(n) \in Nat
         /\ \A b \in Above[n] : \A a \in Above[b] : a \in Above[n]
         /\ \A a, b \in Above[n] : a = b \/ a \in Above[b] \/ b \in Above[a]
<1>1. \A x \in Names : x \in Seq(Nat) /\ Len(x) \in Nat
  BY FibUpdaterAssumption
<1>2. /\ \A x, y \in Names : x \in Above[y] <=> IsStrictPrefix(x, y)
      /\ \A x, y \in Names : y \in Below[x] <=> IsStrictPrefix(x, y)
      /\ \A x \in Names : Above[x] \subseteq Names /\ Below[x] \subseteq Names
  BY DEF Above, Below
<1>3. \A x, y \in Names : x \in Above[y] <=>
                            Len(x) < Len(y) /\ \A i \in 1..Len(x) : x[i] = y[i]
  BY <1>1, <1>2, PrefixElements
<1>4. ASSUME NEW b \in Above[n], NEW a \in Above[b] PROVE a \in Above[n]
  <2>1. a \in Names /\ b \in Names
    BY <1>2
  <2>2. /\ Len(a) < Len(b) /\ \A i \in 1..Len(a) : a[i] = b[i]
        /\ Len(b) < Len(n) /\ \A i \in 1..Len(b) : b[i] = n[i]
        /\ Len(a) \in Nat /\ Len(b) \in Nat /\ Len(n) \in Nat
    BY <1>1, <1>3, <2>1
  <2>3. Len(a) < Len(n) /\ \A i \in 1..Len(a) : a[i] = n[i]
    BY <2>2
  <2> QED
    BY <1>3, <2>1, <2>3
<1>5. ASSUME NEW a \in Above[n], NEW b \in Above[n], a # b
      PROVE  a \in Above[b] \/ b \in Above[a]
  <2>1. a \in Names /\ b \in Names
    BY <1>2
  <2>2. /\ \A i \in 1..Len(a) : a[i] = n[i]
        /\ \A i \in 1..Len(b) : b[i] = n[i]
        /\ Len(a) \in Nat /\ Len(b) \in Nat
    BY <1>1, <1>3, <2>1
  <2>3. CASE Len(a) < Len(b)
    BY <1>3, <2>1, <2>2, <2>3
  <2>4. CASE Len(b) < Len(a)
    BY <1>3, <2>1, <2>2, <2>4
  <2>5. CASE Len(a) = Len(b)
    <3>1. \A i \in 1..Len(a) : a[i] = b[i]
      BY <2>2, <2>5
    <3>2. a \in Seq(Nat) /\ b \in Seq(Nat)
      BY <1>1, <2>1
    <3>3. a = b
      BY ONLY <2>5, <3>1, <3>2
    <3> QED
      BY <1>5, <3>3
  <2> QED
    BY <2>2, <2>3, <2>4, <2>5
<1>6. \A a \in Above[n] : Len(a) \in 0..Len(n) /\ Len(a) < Len(n) /\ Len(n) \in Nat
  BY <1>1, <1>2, <1>3
<1>7. n \notin Above[n] /\ n \notin Below[n] /\ \A a \in Names : a \in Above[n] <=> n \in Below[a]
  BY <1>1, <1>2, <1>3
<1> QED
  BY <1>2, <1>4, <1>5, <1>6, <1>7, Zenon

----------------------------------------------------------------------------
(* What the stages of a computation set and record                         *)

\* The entries below m that the traversal from m visits for face f.
EntriesBelow(R, m) == {d \in Below[m] : isIn(R, d)}
Reached(R, m, d, f) ==
  \A e \in {d} \union (EntriesBelow(R, m) \intersect Above[d]) :
    ~hasCapture(R[e]) /\ ~hasChildInheritOnFaceId(R[e], f)

\* What the stage for the children sets and records at <<d, f>>.
ChildKey(R, m, add, remove, M, d, f) ==
  LET k == <<d, f>>
      reached == d \in EntriesBelow(R, m) /\ Reached(R, m, d, f)
  IN  /\ k \in M.add <=> reached /\ f \in DOMAIN add /\ f \notin DOMAIN R[d].routes
      /\ k \in M.rem <=> reached /\ f \in DOMAIN remove /\ R[d].inherited[f] > 0
      /\ k \in DOMAIN M.fib <=> k \in M.add \/ k \in M.rem
      /\ k \in M.add => M.fib[k] = AddNextHop(add[f])
      /\ k \in M.rem /\ k \notin M.add => M.fib[k] = RemoveNextHop

ChildSets(m, add, remove, M) ==
  /\ DOMAIN M.fib = M.add \union M.rem
  /\ M.add \subseteq Below[m] \X DOMAIN add /\ M.rem \subseteq Below[m] \X DOMAIN remove

\* The stage for the children.
LEMMA ChildStage ==
  ASSUME NEW R, NEW m \in Names, NEW add, NEW remove,
         NEW M, M = modifyChildrensInheritedRoutes(R, m, add, remove)
  PROVE  ChildSets(m, add, remove, M) /\ \A d, f : ChildKey(R, m, add, remove, M, d, f)
<1> DEFINE below == {d \in Below[m] : isIn(R, d)}
           path(d) == {d} \union (below \intersect Above[d])
           reached(d, f) ==
             \A e \in path(d) : ~hasCapture(R[e]) /\ ~hasChildInheritOnFaceId(R[e], f)
           toRemove == {k \in below \X DOMAIN remove :
                          reached(k[1], k[2]) /\ R[k[1]].inherited[k[2]] > 0}
           toAdd == {k \in below \X DOMAIN add :
                       reached(k[1], k[2]) /\ k[2] \notin DOMAIN R[k[1]].routes}
           g == [k \in toAdd \union toRemove |->
                   IF k \in toAdd THEN AddNextHop(add[k[2]]) ELSE RemoveNextHop]
<1>1. M = Stage(g, toRemove, toAdd)
  BY Zenon DEF modifyChildrensInheritedRoutes
<1>2. below = EntriesBelow(R, m) /\ below \subseteq Below[m]
  BY DEF EntriesBelow
<1>3. \A d, f : reached(d, f) <=> Reached(R, m, d, f)
  BY Zenon DEF Reached, EntriesBelow
<1> HIDE DEF below, reached
<1>4. ASSUME NEW d, NEW f
      PROVE  /\ <<d, f>> \in toAdd <=> /\ d \in below /\ f \in DOMAIN add
                                       /\ reached(d, f) /\ f \notin DOMAIN R[d].routes
             /\ <<d, f>> \in toRemove <=> /\ d \in below /\ f \in DOMAIN remove
                                          /\ reached(d, f) /\ R[d].inherited[f] > 0
  OBVIOUS
<1>5. toAdd \subseteq Below[m] \X DOMAIN add /\ toRemove \subseteq Below[m] \X DOMAIN remove
  BY <1>2
<1> HIDE DEF toAdd, toRemove
<1>6. /\ M.fib = g /\ M.rem = toRemove /\ M.add = toAdd
  BY <1>1 DEF Stage
<1>7. ASSUME NEW d, NEW f
      PROVE  ChildKey(R, m, add, remove, M, d, f)
  BY <1>2, <1>3, <1>4, <1>6 DEF ChildKey
<1> QED
  BY <1>5, <1>6, <1>7 DEF ChildSets

\* The other stages.
LEMMA OwnStages ==
  ASSUME NEW R, NEW n, NEW f, NEW u, NEW C
  PROVE  /\ setNextHop(n, f, u).rem = {} /\ setNextHop(n, f, u).add = {}
         /\ DOMAIN setNextHop(n, f, u).fib = {<<n, f>>} /\ setNextHop(n, f, u).fib[<<n, f>>] = u
         /\ addInheritedRoutes(n, C).rem = {} /\ addInheritedRoutes(n, C).add = {n} \X DOMAIN C
         /\ DOMAIN addInheritedRoutes(n, C).fib = {n} \X DOMAIN C
         /\ \A g \in DOMAIN C : addInheritedRoutes(n, C).fib[<<n, g>>] = AddNextHop(C[g])
         /\ removeInheritedRoutes(R, n, C).add = {}
         /\ removeInheritedRoutes(R, n, C).rem = {n} \X {g \in DOMAIN C : R[n].inherited[g] > 0}
         /\ DOMAIN removeInheritedRoutes(R, n, C).fib =
              {n} \X {g \in DOMAIN C : R[n].inherited[g] > 0}
         /\ \A g \in DOMAIN C : R[n].inherited[g] > 0 =>
              removeInheritedRoutes(R, n, C).fib[<<n, g>>] = RemoveNextHop
<1>1. /\ setNextHop(n, f, u).rem = {} /\ setNextHop(n, f, u).add = {}
      /\ DOMAIN setNextHop(n, f, u).fib = {<<n, f>>} /\ setNextHop(n, f, u).fib[<<n, f>>] = u
  BY DEF setNextHop, Stage
<1>2. /\ addInheritedRoutes(n, C).rem = {} /\ addInheritedRoutes(n, C).add = {n} \X DOMAIN C
      /\ DOMAIN addInheritedRoutes(n, C).fib = {n} \X DOMAIN C
      /\ \A g \in DOMAIN C : addInheritedRoutes(n, C).fib[<<n, g>>] = AddNextHop(C[g])
  BY DEF addInheritedRoutes, Stage
<1>3. /\ removeInheritedRoutes(R, n, C).add = {}
      /\ removeInheritedRoutes(R, n, C).rem = {n} \X {g \in DOMAIN C : R[n].inherited[g] > 0}
      /\ DOMAIN removeInheritedRoutes(R, n, C).fib =
           {n} \X {g \in DOMAIN C : R[n].inherited[g] > 0}
      /\ \A g \in DOMAIN C : R[n].inherited[g] > 0 =>
           removeInheritedRoutes(R, n, C).fib[<<n, g>>] = RemoveNextHop
  BY DEF removeInheritedRoutes, Stage
<1> QED
  BY <1>1, <1>2, <1>3

\* Sets of routes.
LEMMA RouteSets ==
  /\ DOMAIN <<>> = {}
  /\ \A f, r : DOMAIN Just(f, r) = {f} /\ Just(f, r)[f] = r.cost
  /\ \A C, S : DOMAIN Only(C, S) = DOMAIN C \intersect S
               /\ \A f \in DOMAIN C \intersect S : Only(C, S)[f] = C[f]
  /\ \A c, C : (c => If(c, C) = C) /\ (~c => If(c, C) = <<>>)
  /\ \A C, D : DOMAIN Over(C, D) = DOMAIN C \union DOMAIN D
               /\ \A f \in DOMAIN C \union DOMAIN D :
                    Over(C, D)[f] = IF f \in DOMAIN C THEN C[f] ELSE D[f]
  BY DEF Just, Only, If, Over

----------------------------------------------------------------------------
(* The records that an update removes                                      *)

Records(S) == [i \in DOMAIN S |-> [rem |-> S[i].rem, add |-> S[i].add]]

\* No two stages remove the same record.
RemovesOnce(S) == \A i, j \in DOMAIN S : i # j => S[i].rem \intersect S[j].rem = {}

\* A stage removes records that are there, and all of its names have entries afterwards.
Recorded(R, t, s) ==
  /\ \A k \in s.rem : R[k[1]].inherited[k[2]] > 0
  /\ \A k \in s.rem \union s.add : isIn(t, k[1])

AllRecorded(R, t, S) == \A i \in DOMAIN S : Recorded(R, t, S[i])

\* Then modifyInheritedRoutes finds what it changes.
LEMMA ModifiableIf ==
  ASSUME NEW S \in RecordStages, NEW t \in [Names -> Entry], RemovesOnce(S), AllRecorded(t, t, S)
  PROVE  modifiable(t, S)
<1>1. /\ Len(S) \in Nat /\ DOMAIN S = 1..Len(S)
      /\ \A i \in DOMAIN S : S[i].rem \subseteq Keys /\ S[i].add \subseteq Keys
  <2> DEFINE T == [rem : SUBSET Keys, add : SUBSET Keys]
  <2>1. S \in Seq(T)
    BY DEF RecordStages
  <2>2. \A x \in T : x.rem \subseteq Keys /\ x.add \subseteq Keys
    OBVIOUS
  <2> HIDE DEF T
  <2>3. Len(S) \in Nat /\ DOMAIN S = 1..Len(S) /\ \A i \in DOMAIN S : S[i] \in T
    BY <2>1
  <2> QED
    BY <2>2, <2>3
<1>2. ASSUME NEW i \in DOMAIN S, NEW k \in S[i].rem
      PROVE  modifyInheritedRoutes(t, SubSeq(S, 1, i - 1))[k[1]].inherited[k[2]] > 0
  <2> DEFINE before == SubSeq(S, 1, i - 1)
             n == k[1]
             f == k[2]
             removed == {j \in DOMAIN before : <<n, f>> \in before[j].rem}
             added == {j \in DOMAIN before : <<n, f>> \in before[j].add}
  <2>1. n \in Names /\ f \in Faces /\ <<n, f>> = k
    BY <1>1, <1>2 DEF Keys
  <2>2. DOMAIN before = 1..(i - 1) /\ \A j \in 1..(i - 1) : before[j] = S[j]
    BY <1>1 DEF RecordStages
  <2>3. removed = {}
    <3>1. \A j \in 1..(i - 1) : j \in DOMAIN S /\ j # i
      BY <1>1
    <3>2. \A j \in 1..(i - 1) : k \notin S[j].rem
      BY <1>2, <3>1 DEF RemovesOnce
    <3> HIDE DEF before
    <3> QED
      BY <2>1, <2>2, <3>2
  <2>4. Cardinality(added) \in Nat
    <3>1. i - 1 \in Nat /\ added \in SUBSET (1..(i - 1))
      BY <1>1, <2>2
    <3> HIDE DEF added
    <3> QED
      BY <3>1, FiniteIndices
  <2>5. t[n].inherited[f] \in Nat /\ t[n].inherited[f] > 0
    <3>1. t[n].inherited \in [Faces -> Nat]
      BY <2>1, EntryFields
    <3> QED
      BY <1>2, <2>1, <3>1 DEF AllRecorded, Recorded
  <2>6. modifyInheritedRoutes(t, before)[n].inherited[f] =
          t[n].inherited[f] - Cardinality(removed) + Cardinality(added)
    <3>1. modifyInheritedRoutes(t, before)[n] =
            [t[n] EXCEPT !.inherited =
               [g \in Faces |-> t[n].inherited[g]
                  - Cardinality({j \in DOMAIN before : <<n, g>> \in before[j].rem})
                  + Cardinality({j \in DOMAIN before : <<n, g>> \in before[j].add})]]
      BY <2>1, Zenon DEF modifyInheritedRoutes
    <3>2. t[n] = [routes |-> t[n].routes, inherited |-> t[n].inherited, nCapture |-> t[n].nCapture]
      BY <2>1, EntryFields
    <3>3. modifyInheritedRoutes(t, before)[n].inherited =
            [g \in Faces |-> t[n].inherited[g]
                  - Cardinality({j \in DOMAIN before : <<n, g>> \in before[j].rem})
                  + Cardinality({j \in DOMAIN before : <<n, g>> \in before[j].add})]
      BY <3>1, <3>2
    <3> QED
      BY <2>1, <3>3
  <2>7. Cardinality(removed) = 0
    BY <2>3, FS_EmptySet
  <2> HIDE DEF before, removed, added
  <2> QED
    BY <2>4, <2>5, <2>6, <2>7 DEF before
<1> QED
  BY <1>2 DEF modifiable, AllRecorded, Recorded

\* The stages of two sequences together.
LEMMA StagesTogether ==
  ASSUME NEW R, NEW t, NEW X \in Seq(StageType), NEW Y \in Seq(StageType)
  PROVE  /\ AllRecorded(R, t, X) /\ AllRecorded(R, t, Y) => AllRecorded(R, t, X \o Y)
         /\ /\ RemovesOnce(X) /\ RemovesOnce(Y)
            /\ \A i \in DOMAIN X, j \in DOMAIN Y : X[i].rem \intersect Y[j].rem = {}
            => RemovesOnce(X \o Y)
<1> DEFINE Z == X \o Y
<1>1. /\ Len(X) \in Nat /\ DOMAIN X = 1..Len(X) /\ Len(Y) \in Nat /\ DOMAIN Y = 1..Len(Y)
      /\ DOMAIN Z = 1..(Len(X) + Len(Y))
      /\ \A i \in 1..Len(X) : Z[i] = X[i]
      /\ \A i \in 1..(Len(X) + Len(Y)) : i \notin 1..Len(X) =>
           i - Len(X) \in 1..Len(Y) /\ Z[i] = Y[i - Len(X)]
  OBVIOUS
<1> HIDE DEF Z
<1>2. ASSUME AllRecorded(R, t, X), AllRecorded(R, t, Y) PROVE AllRecorded(R, t, Z)
  BY <1>1, <1>2 DEF AllRecorded
<1>3. ASSUME RemovesOnce(X), RemovesOnce(Y),
             \A i \in DOMAIN X, j \in DOMAIN Y : X[i].rem \intersect Y[j].rem = {},
             NEW i \in DOMAIN Z, NEW j \in DOMAIN Z, i # j
      PROVE  Z[i].rem \intersect Z[j].rem = {}
  <2>1. CASE i \in 1..Len(X) /\ j \in 1..Len(X)
    BY <1>1, <1>3, <2>1 DEF RemovesOnce
  <2>2. CASE i \in 1..Len(X) /\ j \notin 1..Len(X)
    BY <1>1, <1>3, <2>2
  <2>3. CASE i \notin 1..Len(X) /\ j \in 1..Len(X)
    <3>1. X[j].rem \intersect Y[i - Len(X)].rem = {}
      BY <1>1, <1>3, <2>3
    <3> QED
      BY <1>1, <1>3, <2>3, <3>1
  <2>4. CASE i \notin 1..Len(X) /\ j \notin 1..Len(X)
    <3>1. i - Len(X) # j - Len(X) /\ i - Len(X) \in DOMAIN Y /\ j - Len(X) \in DOMAIN Y
      BY <1>1, <1>3, <2>4
    <3>2. Y[i - Len(X)].rem \intersect Y[j - Len(X)].rem = {}
      BY <1>3, <3>1 DEF RemovesOnce
    <3> QED
      BY <1>1, <2>4, <3>2
  <2> QED
    BY <2>1, <2>2, <2>3, <2>4
<1> QED
  BY <1>2, <1>3 DEF RemovesOnce, Z

\* The stage for the children changes records of entries that stay.
LEMMA ChildRecorded ==
  ASSUME NEW R, NEW t, NEW m \in Names, \A d \in Below[m] : isIn(R, d) => isIn(t, d),
         NEW add, NEW remove, NEW M, M = modifyChildrensInheritedRoutes(R, m, add, remove)
  PROVE  Recorded(R, t, M) /\ \A k \in M.rem : k[1] \in Below[m] /\ k[2] \in DOMAIN remove
<1>0. ChildSets(m, add, remove, M) /\ \A d, f : ChildKey(R, m, add, remove, M, d, f)
  BY ChildStage
<1>1. /\ M.add \subseteq Below[m] \X DOMAIN add /\ M.rem \subseteq Below[m] \X DOMAIN remove
      /\ \A d, f : ChildKey(R, m, add, remove, M, d, f)
  BY <1>0 DEF ChildSets
<1>2. ASSUME NEW k \in M.rem \union M.add
      PROVE  k = <<k[1], k[2]>> /\ k[1] \in Below[m] /\ (k \in M.rem => k[2] \in DOMAIN remove)
  BY <1>1
<1>3. ASSUME NEW k \in M.rem \union M.add
      PROVE  isIn(t, k[1]) /\ (k \in M.rem => R[k[1]].inherited[k[2]] > 0)
  <2>1. ChildKey(R, m, add, remove, M, k[1], k[2])
    BY <1>1
  <2> QED
    BY <1>2, <1>3, <2>1 DEF ChildKey, EntriesBelow
<1> QED
  BY <1>2, <1>3 DEF Recorded
\* The stages of short sequences.
LEMMA ShortStages ==
  ASSUME NEW R, NEW t
  PROVE  /\ AllRecorded(R, t, <<>>) /\ RemovesOnce(<<>>)
         /\ \A a : Recorded(R, t, a) => AllRecorded(R, t, <<a>>)
         /\ \A a : RemovesOnce(<<a>>)
         /\ \A a, b : Recorded(R, t, a) /\ Recorded(R, t, b) => AllRecorded(R, t, <<a, b>>)
         /\ \A a, b : a.rem \intersect b.rem = {} => RemovesOnce(<<a, b>>)
         /\ \A a, b, c : Recorded(R, t, a) /\ Recorded(R, t, b) /\ Recorded(R, t, c) =>
                           AllRecorded(R, t, <<a, b, c>>)
         /\ \A a, b, c : c.rem = {} /\ a.rem \intersect b.rem = {} => RemovesOnce(<<a, b, c>>)
         /\ \A a, b, c : a.rem = {} /\ b.rem = {} => RemovesOnce(<<a, b, c>>)
         /\ \A a, b, c, d : /\ Recorded(R, t, a) /\ Recorded(R, t, b)
                            /\ Recorded(R, t, c) /\ Recorded(R, t, d)
                            => AllRecorded(R, t, <<a, b, c, d>>)
         /\ \A a, b, c, d : a.rem = {} /\ b.rem = {} /\ d.rem = {} => RemovesOnce(<<a, b, c, d>>)
<1>1. /\ AllRecorded(R, t, <<>>)
      /\ \A a : Recorded(R, t, a) => AllRecorded(R, t, <<a>>)
      /\ \A a, b : Recorded(R, t, a) /\ Recorded(R, t, b) => AllRecorded(R, t, <<a, b>>)
      /\ \A a, b, c : Recorded(R, t, a) /\ Recorded(R, t, b) /\ Recorded(R, t, c) =>
                           AllRecorded(R, t, <<a, b, c>>)
      /\ \A a, b, c, d : /\ Recorded(R, t, a) /\ Recorded(R, t, b)
                         /\ Recorded(R, t, c) /\ Recorded(R, t, d)
                         => AllRecorded(R, t, <<a, b, c, d>>)
  BY DEF AllRecorded
<1>2. /\ RemovesOnce(<<>>) /\ \A a : RemovesOnce(<<a>>)
      /\ \A a, b : a.rem \intersect b.rem = {} => RemovesOnce(<<a, b>>)
  BY DEF RemovesOnce
<1>3. \A a, b, c : c.rem = {} /\ a.rem \intersect b.rem = {} => RemovesOnce(<<a, b, c>>)
  BY DEF RemovesOnce
<1>4. \A a, b, c : a.rem = {} /\ b.rem = {} => RemovesOnce(<<a, b, c>>)
  BY DEF RemovesOnce
<1>5. \A a, b, c, d : a.rem = {} /\ b.rem = {} /\ d.rem = {} => RemovesOnce(<<a, b, c, d>>)
  BY DEF RemovesOnce
<1> QED
  BY <1>1, <1>2, <1>3, <1>4, <1>5

----------------------------------------------------------------------------
(* A batch applied, before the records of inherited routes are changed     *)

Result(b) == IF b.action = "register" THEN insert(b.name, b.face, b.route)
                                      ELSE erase(b.name, b.face)

\* Its effect on the entry of its name.
ResultEntry(b) ==
  LET n == b.name
      f == b.face
      e == rib[n]
      t == Result(b)[n]
  IN  /\ b.action = "register" =>
           /\ t.inherited = e.inherited
           /\ t.nCapture = e.nCapture
                + (IF f \notin DOMAIN e.routes /\ b.route.capture THEN 1 ELSE 0)
      /\ b.action # "register" =>
           /\ f \notin DOMAIN e.routes => t = e
           /\ DOMAIN e.routes = {f} => t = NoEntry
           /\ f \in DOMAIN e.routes /\ DOMAIN e.routes # {f} =>
                /\ t.inherited = e.inherited
                /\ t.nCapture = e.nCapture - (IF e.routes[f].capture THEN 1 ELSE 0)

\* The result is a RIB in which only the entry of the name has changed.
LEMMA ResultType ==
  ASSUME rib \in [Names -> Entry], NEW b \in Update
  PROVE  /\ Result(b) \in [Names -> Entry]
         /\ \A m \in Names \ {b.name} : Result(b)[m] = rib[m]
         /\ b.action = "register" =>
              /\ DOMAIN Result(b)[b.name].routes = DOMAIN rib[b.name].routes \union {b.face}
              /\ Result(b)[b.name].routes[b.face] = b.route
         /\ b.action # "register" =>
              DOMAIN Result(b)[b.name].routes = DOMAIN rib[b.name].routes \ {b.face}
         /\ \A g \in DOMAIN rib[b.name].routes \ {b.face} :
              Result(b)[b.name].routes[g] = rib[b.name].routes[g]
         /\ ResultEntry(b)
<1> DEFINE n == b.name
           f == b.face
           e == rib[n]
<1>1. /\ n \in Names /\ f \in Faces /\ (b.action = "register" => b.route \in Route)
  BY UpdateFields
<1>2. /\ e = [routes |-> e.routes, inherited |-> e.inherited, nCapture |-> e.nCapture]
      /\ e.nCapture \in Int
  BY <1>1, EntryFields
<1>3. ResultEntry(b)
  <2>1. CASE b.action = "register" /\ f \in DOMAIN e.routes
    <3>1. Result(b)[n] = [e EXCEPT !.routes = [@ EXCEPT ![f] = b.route]]
      BY <1>1, <2>1 DEF Result, insert
    <3>2. Result(b)[n].inherited = e.inherited /\ Result(b)[n].nCapture = e.nCapture
      BY <1>2, <3>1
    <3> QED
      BY <1>2, <2>1, <3>2 DEF ResultEntry
  <2>2. CASE b.action = "register" /\ f \notin DOMAIN e.routes
    <3> DEFINE c == e.nCapture + (IF b.route.capture THEN 1 ELSE 0)
               d == [e EXCEPT !.routes = Put(e.routes, f, b.route)]
    <3>1. Result(b)[n] = insertRoute(e, f, b.route)
      BY <1>1, <2>2 DEF Result, insert
    <3>2. insertRoute(e, f, b.route) = [d EXCEPT !.nCapture = c]
      BY <1>2 DEF insertRoute
    <3>3. d = [routes |-> Put(e.routes, f, b.route), inherited |-> e.inherited,
               nCapture |-> e.nCapture]
      BY <1>2
    <3> HIDE DEF c, d
    <3>4. Result(b)[n].inherited = e.inherited /\ Result(b)[n].nCapture = c
      BY <3>1, <3>2, <3>3
    <3> QED
      BY <2>2, <3>4 DEF ResultEntry, c
  <2>3. CASE b.action # "register" /\ f \notin DOMAIN e.routes
    <3>1. Result(b)[n] = e
      BY <2>3 DEF Result, erase
    <3> QED
      BY <2>3, <3>1 DEF ResultEntry
  <2>4. CASE b.action # "register" /\ DOMAIN e.routes = {f}
    <3>1. Result(b)[n] = NoEntry
      BY <1>1, <2>4 DEF Result, erase
    <3> QED
      BY <2>4, <3>1 DEF ResultEntry
  <2>5. CASE b.action # "register" /\ f \in DOMAIN e.routes /\ DOMAIN e.routes # {f}
    <3> DEFINE c == e.nCapture - (IF e.routes[f].capture THEN 1 ELSE 0)
               rest == [g \in DOMAIN e.routes \ {f} |-> e.routes[g]]
               d == [e EXCEPT !.routes = rest]
    <3>1. Result(b)[n] = eraseRoute(e, f)
      BY <1>1, <2>5 DEF Result, erase
    <3>2. eraseRoute(e, f) = [d EXCEPT !.nCapture = c]
      BY <1>2 DEF eraseRoute
    <3>3. d = [routes |-> rest, inherited |-> e.inherited, nCapture |-> e.nCapture]
      BY <1>2
    <3> HIDE DEF c, d, rest
    <3>4. Result(b)[n].inherited = e.inherited /\ Result(b)[n].nCapture = c
      BY <3>1, <3>2, <3>3
    <3> QED
      BY <2>5, <3>4 DEF ResultEntry, c
  <2> QED
    BY <2>1, <2>2, <2>3, <2>4, <2>5
<1>4. CASE b.action = "register"
  <2>1. Result(b) = insert(n, f, b.route)
    BY <1>4 DEF Result
  <2> QED
    BY <1>1, <1>3, <1>4, <2>1, InsertType
<1>5. CASE b.action # "register"
  <2>1. Result(b) = erase(n, f)
    BY <1>5 DEF Result
  <2> QED
    BY <1>1, <1>3, <1>5, <2>1, EraseType
<1> QED
  BY <1>4, <1>5

\* Stages that remove no record, or records of the name's own entry.
LEMMA OwnRecorded ==
  ASSUME NEW R, NEW t, NEW n, NEW f, NEW u, NEW C
  PROVE  /\ Recorded(R, t, setNextHop(n, f, u))
         /\ DOMAIN C = {} \/ isIn(t, n) => Recorded(R, t, addInheritedRoutes(n, C))
         /\ isIn(t, n) => Recorded(R, t, removeInheritedRoutes(R, n, C))
         /\ setNextHop(n, f, u).rem = {} /\ addInheritedRoutes(n, C).rem = {}
         /\ \A k \in removeInheritedRoutes(R, n, C).rem : k[1] = n
<1>1. /\ setNextHop(n, f, u).rem = {} /\ setNextHop(n, f, u).add = {}
      /\ addInheritedRoutes(n, C).rem = {} /\ addInheritedRoutes(n, C).add = {n} \X DOMAIN C
      /\ removeInheritedRoutes(R, n, C).add = {}
      /\ removeInheritedRoutes(R, n, C).rem = {n} \X {g \in DOMAIN C : R[n].inherited[g] > 0}
  BY DEF setNextHop, addInheritedRoutes, removeInheritedRoutes, Stage
<1> QED
  BY <1>1 DEF Recorded

\* The cases in which the records that an update changes may not be there.
Exceptional(b) ==
  LET routes == rib[b.name].routes
      f == b.face
  IN  /\ f \in DOMAIN routes
      /\ IF b.action = "register"
           THEN /\ routes[f].childInherit /\ ~b.route.childInherit
                /\ ~routes[f].capture /\ b.route.capture
           ELSE DOMAIN routes = {f} /\ routes[f].capture

\* Every record that the update adds is one of a name with an entry.
AddsToEntries(b) ==
  \A i \in DOMAIN computeUpdates(rib, b) : \A k \in computeUpdates(rib, b)[i].add :
    isIn(Result(b), k[1])

\* In all others, every stage changes records that are there, and none is removed twice.
LEMMA RegistrationRecorded ==
  ASSUME rib \in [Names -> Entry], NEW b \in Update, b.action = "register", ~Exceptional(b)
  PROVE  /\ AllRecorded(rib, Result(b), computeUpdates(rib, b))
         /\ RemovesOnce(computeUpdates(rib, b))
<1> DEFINE n == b.name
           f == b.face
           new == b.route
           t == Result(b)
           ancestors == getAncestorRoutes(rib, n)
           set == setNextHop(n, f, AddNextHop(new.cost))
           S == computeUpdates(rib, b)
<1>1. /\ n \in Names /\ f \in Faces /\ new \in Route /\ n \notin Below[n] /\ Below[n] \subseteq Names
  BY UpdateFields, NameOrder
<1>2. isIn(t, n) /\ \A d \in Below[n] : isIn(rib, d) => isIn(t, d)
  <2>1. DOMAIN t[n].routes = DOMAIN rib[n].routes \union {f} /\ \A d \in Names \ {n} : t[d] = rib[d]
    BY <1>1, ResultType
  <2> QED
    BY <1>1, <2>1 DEF isIn
<1> HIDE DEF t
<1>3. ASSUME NEW add, NEW remove,
             NEW M, M = modifyChildrensInheritedRoutes(rib, n, add, remove)
      PROVE  Recorded(rib, t, M) /\ \A k \in M.rem : k[1] # n /\ k[2] \in DOMAIN remove
  BY <1>1, <1>2, <1>3, ChildRecorded
<1>4. /\ \A g, u : Recorded(rib, t, setNextHop(n, g, u)) /\ setNextHop(n, g, u).rem = {}
      /\ \A C : Recorded(rib, t, addInheritedRoutes(n, C)) /\ addInheritedRoutes(n, C).rem = {}
      /\ \A C : /\ Recorded(rib, t, removeInheritedRoutes(rib, n, C))
                /\ \A k \in removeInheritedRoutes(rib, n, C).rem : k[1] = n
  BY <1>2, OwnRecorded, ZenonT(30)
<1>5. CASE ~isIn(rib, n)
  <2> DEFINE own == addInheritedRoutes(n, If(~new.capture, Only(ancestors, Faces \ {f})))
             M == modifyChildrensInheritedRoutes(rib, n,
                    If(new.childInherit, Over(Just(f, new), If(~new.capture, ancestors))),
                    If(new.capture, ancestors))
  <2>1. S = <<set, own, M>>
    BY <1>5, Zenon DEF computeUpdates, computeUpdatesForRegistration, createFibUpdatesForNewRibEntry
  <2>2. Recorded(rib, t, set) /\ Recorded(rib, t, own) /\ set.rem = {} /\ own.rem = {}
    BY <1>4
  <2>3. Recorded(rib, t, M)
    BY <1>3
  <2> HIDE DEF set, own, M, S
  <2>4. AllRecorded(rib, t, <<set, own, M>>) /\ RemovesOnce(<<set, own, M>>)
    BY ONLY <2>2, <2>3, ShortStages, Zenon
  <2> QED
    BY <2>1, <2>4 DEF S, t
<1>6. CASE isIn(rib, n) /\ f \notin DOMAIN rib[n].routes
  <2> DEFINE blocked == If(~hasCapture(rib[n]) /\ new.capture, ancestors)
             own == removeInheritedRoutes(rib, n, blocked)
             M == modifyChildrensInheritedRoutes(rib, n, If(new.childInherit, Just(f, new)), blocked)
  <2>1. S = <<own, M, set>>
    BY <1>6, Zenon DEF computeUpdates, computeUpdatesForRegistration, createFibUpdatesForNewRoute
  <2>2. Recorded(rib, t, set) /\ Recorded(rib, t, own) /\ set.rem = {}
        /\ \A k \in own.rem : k[1] = n
    BY <1>4
  <2>3. Recorded(rib, t, M) /\ \A k \in M.rem : k[1] # n
    BY <1>3
  <2> HIDE DEF set, own, M, S
  <2>4. own.rem \intersect M.rem = {}
    BY <2>2, <2>3
  <2>5. AllRecorded(rib, t, <<own, M, set>>) /\ RemovesOnce(<<own, M, set>>)
    BY ONLY <2>2, <2>3, <2>4, ShortStages, Zenon
  <2> QED
    BY <2>1, <2>5 DEF S, t
<1>7. CASE f \in DOMAIN rib[n].routes
  <2> DEFINE old == rib[n].routes[f]
             turnedOn == ~old.childInherit /\ new.childInherit
             turnedOff == old.childInherit /\ ~new.childInherit
             recosted == /\ new.cost # old.cost /\ new.childInherit /\ old.childInherit
                         /\ new.capture = old.capture
             costStage == IF new.cost = old.cost THEN <<>> ELSE <<set>>
             onStage == modifyChildrensInheritedRoutes(rib, n, Just(f, new), <<>>)
             offStage == modifyChildrensInheritedRoutes(rib, n, Only(ancestors, {f}), Just(f, new))
             inheritStage == IF turnedOn \/ recosted THEN <<onStage>>
                             ELSE IF turnedOff THEN <<offStage>>
                             ELSE <<>>
             remStage == removeInheritedRoutes(rib, n, ancestors)
             hideStage == modifyChildrensInheritedRoutes(rib, n, <<>>, ancestors)
             addStage == addInheritedRoutes(n, Only(ancestors, Faces \ DOMAIN rib[n].routes))
             showStage == modifyChildrensInheritedRoutes(rib, n, ancestors, <<>>)
             captureStage == IF ~old.capture /\ new.capture THEN <<remStage, hideStage>>
                             ELSE IF old.capture /\ ~new.capture THEN <<addStage, showStage>>
                             ELSE <<>>
  <2>1. S = costStage \o inheritStage \o captureStage
    <3>1. S = createFibUpdatesForUpdatedRoute(rib, n, f, new)
      BY <1>7 DEF computeUpdates, computeUpdatesForRegistration, isIn
    <3> QED
      BY <3>1, Zenon DEF createFibUpdatesForUpdatedRoute
  <2>2. IsCostMap(ancestors) /\ IsCostMap(Just(f, new)) /\ IsCostMap(<<>>)
        /\ new.cost \in Nat
    BY <1>1, AncestorRoutesType, CostMaps DEF Route
  <2>3. /\ onStage \in StageType /\ offStage \in StageType /\ remStage \in StageType
        /\ hideStage \in StageType /\ addStage \in StageType /\ showStage \in StageType
        /\ set \in StageType
    BY <1>1, <2>2, CostMaps, NextHopType, StagesType
  <2>4. /\ Recorded(rib, t, set) /\ Recorded(rib, t, remStage) /\ Recorded(rib, t, addStage)
        /\ set.rem = {} /\ addStage.rem = {} /\ \A k \in remStage.rem : k[1] = n
    BY <1>4
  <2>5. /\ Recorded(rib, t, onStage) /\ onStage.rem = {}
        /\ Recorded(rib, t, offStage) /\ \A k \in offStage.rem : k[1] # n
        /\ Recorded(rib, t, hideStage) /\ \A k \in hideStage.rem : k[1] # n
        /\ Recorded(rib, t, showStage) /\ showStage.rem = {}
    BY <1>3, RouteSets
  <2> HIDE DEF onStage, offStage, remStage, hideStage, addStage, showStage, set
  <2>6. /\ costStage \in Seq(StageType) /\ AllRecorded(rib, t, costStage) /\ RemovesOnce(costStage)
        /\ \A i \in DOMAIN costStage : costStage[i].rem = {}
    <3>1. AllRecorded(rib, t, <<>>) /\ RemovesOnce(<<>>)
      BY ShortStages, Zenon
    <3>2. AllRecorded(rib, t, <<set>>) /\ RemovesOnce(<<set>>)
      BY <2>4, ShortStages, Zenon
    <3>3. costStage = <<>> \/ costStage = <<set>>
      OBVIOUS
    <3> HIDE DEF costStage
    <3>4. /\ <<>> \in Seq(StageType) /\ \A i \in DOMAIN <<>> : <<>>[i].rem = {}
          /\ <<set>> \in Seq(StageType) /\ \A i \in DOMAIN <<set>> : <<set>>[i].rem = {}
      BY <2>3, <2>4
    <3> QED
      BY ONLY <3>1, <3>2, <3>3, <3>4, Zenon
  <2>7. /\ inheritStage \in Seq(StageType) /\ AllRecorded(rib, t, inheritStage)
        /\ RemovesOnce(inheritStage)
        /\ ~turnedOff => \A i \in DOMAIN inheritStage : inheritStage[i].rem = {}
    <3>1. AllRecorded(rib, t, <<>>) /\ RemovesOnce(<<>>)
      BY ShortStages, Zenon
    <3>2. /\ AllRecorded(rib, t, <<onStage>>) /\ RemovesOnce(<<onStage>>)
          /\ AllRecorded(rib, t, <<offStage>>) /\ RemovesOnce(<<offStage>>)
      BY <2>5, ShortStages, Zenon
    <3>3. \/ inheritStage = <<>> \/ inheritStage = <<onStage>>
          \/ turnedOff /\ inheritStage = <<offStage>>
      OBVIOUS
    <3> HIDE DEF inheritStage
    <3>4. /\ <<>> \in Seq(StageType) /\ \A i \in DOMAIN <<>> : <<>>[i].rem = {}
          /\ <<onStage>> \in Seq(StageType) /\ \A i \in DOMAIN <<onStage>> : <<onStage>>[i].rem = {}
          /\ <<offStage>> \in Seq(StageType)
      BY <2>3, <2>5
    <3> QED
      BY ONLY <3>1, <3>2, <3>3, <3>4, Zenon
  <2>8. /\ captureStage \in Seq(StageType) /\ AllRecorded(rib, t, captureStage)
        /\ RemovesOnce(captureStage)
        /\ ~(~old.capture /\ new.capture) => \A i \in DOMAIN captureStage : captureStage[i].rem = {}
    <3>1. remStage.rem \intersect hideStage.rem = {} /\ addStage.rem \intersect showStage.rem = {}
      BY <2>4, <2>5
    <3>2. AllRecorded(rib, t, <<>>) /\ RemovesOnce(<<>>)
      BY ShortStages, Zenon
    <3>3. /\ AllRecorded(rib, t, <<remStage, hideStage>>) /\ RemovesOnce(<<remStage, hideStage>>)
          /\ AllRecorded(rib, t, <<addStage, showStage>>) /\ RemovesOnce(<<addStage, showStage>>)
      BY <2>4, <2>5, <3>1, ShortStages, Zenon
    <3>4. \/ captureStage = <<>> \/ captureStage = <<addStage, showStage>>
          \/ ~old.capture /\ new.capture /\ captureStage = <<remStage, hideStage>>
      OBVIOUS
    <3> HIDE DEF captureStage
    <3>5. /\ <<>> \in Seq(StageType) /\ \A i \in DOMAIN <<>> : <<>>[i].rem = {}
          /\ <<remStage, hideStage>> \in Seq(StageType)
          /\ <<addStage, showStage>> \in Seq(StageType)
          /\ \A i \in DOMAIN <<addStage, showStage>> : <<addStage, showStage>>[i].rem = {}
      BY <2>3, <2>4, <2>5
    <3> QED
      BY ONLY <3>2, <3>3, <3>4, <3>5, Zenon
  <2>9. ~(turnedOff /\ ~old.capture /\ new.capture)
    BY <1>7 DEF Exceptional
  <2> HIDE DEF costStage, inheritStage, captureStage, turnedOff, old
  <2> DEFINE first == costStage \o inheritStage
  <2>10. /\ first \in Seq(StageType) /\ AllRecorded(rib, t, first) /\ RemovesOnce(first)
         /\ ~turnedOff => \A i \in DOMAIN first : first[i].rem = {}
    <3>1. first \in Seq(StageType)
      BY <2>6, <2>7
    <3>2. AllRecorded(rib, t, first) /\ RemovesOnce(first)
      <4>1. \A i \in DOMAIN costStage, j \in DOMAIN inheritStage :
              costStage[i].rem \intersect inheritStage[j].rem = {}
        BY <2>6
      <4> QED
        BY <2>6, <2>7, <4>1, StagesTogether
    <3>3. ASSUME ~turnedOff, NEW i \in DOMAIN first PROVE first[i].rem = {}
      <4>1. \/ i \in DOMAIN costStage /\ first[i] = costStage[i]
            \/ i - Len(costStage) \in DOMAIN inheritStage
               /\ first[i] = inheritStage[i - Len(costStage)]
        BY <2>6, <2>7, <3>3
      <4> QED
        BY <2>6, <2>7, <3>3, <4>1
    <3> QED
      BY <3>1, <3>2, <3>3
  <2> HIDE DEF first
  <2>11. AllRecorded(rib, t, first \o captureStage) /\ RemovesOnce(first \o captureStage)
    <3>1. \A i \in DOMAIN first, j \in DOMAIN captureStage :
            first[i].rem \intersect captureStage[j].rem = {}
      BY <2>8, <2>9, <2>10
    <3> QED
      BY <2>8, <2>10, <3>1, StagesTogether
  <2> QED
    BY <2>1, <2>11 DEF first, t
<1> QED
  BY <1>5, <1>6, <1>7

\* An unregistration removes only records that are there, once each, and adds records only to
\* entries.
LEMMA UnregistrationRecorded ==
  ASSUME rib \in [Names -> Entry], NEW b \in Update, b.action # "register",
         ~Exceptional(b) \/ AddsToEntries(b)
  PROVE  /\ AllRecorded(rib, Result(b), computeUpdates(rib, b))
         /\ RemovesOnce(computeUpdates(rib, b))
<1> DEFINE n == b.name
           f == b.face
           t == Result(b)
           S == computeUpdates(rib, b)
<1>1. /\ n \in Names /\ f \in Faces /\ n \notin Below[n] /\ Below[n] \subseteq Names
  BY UpdateFields, NameOrder
<1>2. DOMAIN t[n].routes = DOMAIN rib[n].routes \ {f} /\ \A d \in Names \ {n} : t[d] = rib[d]
  BY <1>1, ResultType
<1>3. CASE f \notin DOMAIN rib[n].routes
  <2>1. S = <<>>
    BY <1>3 DEF computeUpdates, computeUpdatesForUnregistration
  <2> QED
    BY <2>1, ShortStages
<1>4. CASE f \in DOMAIN rib[n].routes
  <2> DEFINE old == rib[n].routes[f]
             temp == eraseRoute(rib[n], f)
             ancestors == getAncestorRoutes(rib, n)
             captureWasTurnedOff == hasCapture(rib[n]) /\ ~hasCapture(temp)
             unblocked == If(old.capture /\ captureWasTurnedOff, ancestors)
             inherit == IF old.capture THEN unblocked
                        ELSE If(old.childInherit /\ ~hasCapture(temp), ancestors)
             gone == If(old.childInherit, Just(f, old))
             own == Only(unblocked, Faces \ DOMAIN temp.routes)
             last == If(~hasCapture(temp) /\ temp.routes # <<>>, Only(ancestors, {f}))
             s1 == setNextHop(n, f, RemoveNextHop)
             s2 == addInheritedRoutes(n, own)
             s3 == modifyChildrensInheritedRoutes(rib, n, inherit, gone)
             s4 == addInheritedRoutes(n, last)
             keys == {n} \X {g \in Faces : rib[n].inherited[g] > 0}
             s5 == Stage([k \in keys |-> RemoveNextHop], {}, {})
             rest == IF DOMAIN rib[n].routes = {f} THEN <<s5>> ELSE <<>>
  <2>1. S = <<s1, s2, s3, s4>> \o rest
    BY <1>4, Zenon
    DEF computeUpdates, computeUpdatesForUnregistration, createFibUpdatesForErasedRoute,
        unblockedRoute, createFibUpdatesForErasedRibEntry
  <2>2. temp \in Entry /\ temp.routes = [g \in DOMAIN rib[n].routes \ {f} |-> rib[n].routes[g]]
    BY <1>1, EraseRouteType
  <2>3a. DOMAIN rib[n].routes = {f} => DOMAIN last = {}
    <3> SUFFICES ASSUME DOMAIN rib[n].routes = {f} PROVE DOMAIN last = {}
      OBVIOUS
    <3>1. temp.routes = <<>>
      BY <2>2
    <3>2. last = <<>>
      BY <3>1 DEF If
    <3> QED
      BY <3>2
  <2>3. (DOMAIN own = {} /\ DOMAIN last = {}) \/ isIn(t, n)
    <3> SUFFICES ASSUME DOMAIN rib[n].routes = {f} PROVE DOMAIN own = {} /\ DOMAIN last = {}
      BY <1>2, <1>4 DEF isIn
    <3>1. CASE ~Exceptional(b)
      <4>1. unblocked = <<>>
        BY <1>4, <3>1 DEF If, Exceptional
      <4> HIDE DEF unblocked
      <4> QED
        BY <2>3a, <4>1 DEF Only
    <3>2. CASE AddsToEntries(b)
      <4>1. rest = <<s5>>
        OBVIOUS
      <4>2. S = <<s1, s2, s3, s4>> \o <<s5>>
        BY <2>1, <4>1, Zenon
      <4> HIDE DEF S, own, s1, s3, s4, s5, rest, temp, last
      <4>3. 2 \in DOMAIN S /\ S[2] = s2
        <5> DEFINE X == <<s1, s2, s3, s4>>
                   Y == <<s5>>
                   T == {s1, s2, s3, s4, s5}
        <5> HIDE DEF s2
        <5>1. X \in Seq(T) /\ Y \in Seq(T)
          OBVIOUS
        <5>2. Len(X) = 4 /\ Len(Y) = 1 /\ X[2] = s2
          OBVIOUS
        <5> HIDE DEF X, Y, T
        <5>3. DOMAIN (X \o Y) = 1..(Len(X) + Len(Y)) /\ \A i \in 1..Len(X) : (X \o Y)[i] = X[i]
          BY ONLY <5>1
        <5>4. 2 \in 1..(Len(X) + Len(Y)) /\ 2 \in 1..Len(X)
          BY <5>2
        <5> QED
          BY <4>2, <5>2, <5>3, <5>4 DEF X, Y
      <4>4. s2.add = {n} \X DOMAIN own
        BY DEF addInheritedRoutes, Stage
      <4>5. \A k \in s2.add : isIn(t, k[1])
        BY <3>2, <4>3 DEF AddsToEntries, S
      <4>6. ~isIn(t, n)
        BY <1>2 DEF isIn
      <4>7. DOMAIN own = {}
        <5> SUFFICES ASSUME NEW g \in DOMAIN own PROVE FALSE
          OBVIOUS
        <5>1. <<n, g>> \in s2.add
          BY <4>4
        <5> HIDE DEF s2
        <5>2. isIn(t, <<n, g>>[1])
          BY ONLY <4>5, <5>1
        <5> QED
          BY <4>6, <5>2
      <4> QED
        BY <2>3a, <4>7
    <3> QED
      BY <3>1, <3>2
  <2>4. IsCostMap(ancestors) /\ old \in Route
    BY <1>1, <1>4, AncestorRoutesType, EntryFields
  <2>5. /\ s1 \in StageType /\ s2 \in StageType /\ s3 \in StageType /\ s4 \in StageType
        /\ s5 \in StageType
    <3>1. /\ (old.capture /\ captureWasTurnedOff) \in BOOLEAN
          /\ (old.childInherit /\ ~hasCapture(temp)) \in BOOLEAN
          /\ (~hasCapture(temp) /\ temp.routes # <<>>) \in BOOLEAN
          /\ old.childInherit \in BOOLEAN /\ old.capture \in BOOLEAN
      BY <2>4 DEF Route
    <3> HIDE DEF old, temp, ancestors, captureWasTurnedOff
    <3>2. IsCostMap(unblocked)
      BY <2>4, <3>1, CostMaps
    <3> HIDE DEF unblocked
    <3>3. IsCostMap(inherit)
      BY <2>4, <3>1, <3>2, CostMaps
    <3>4. IsCostMap(gone) /\ IsCostMap(own) /\ IsCostMap(last)
      BY <1>1, <2>4, <3>1, <3>2, CostMaps
    <3> HIDE DEF inherit, gone, own, last
    <3>5. s1 \in StageType /\ s2 \in StageType /\ s3 \in StageType /\ s4 \in StageType
      BY <1>1, <3>3, <3>4, NextHopType, StagesType
    <3>6. keys \in SUBSET Keys /\ [k \in keys |-> RemoveNextHop] \in [keys -> NextHop]
      BY <1>1, NextHopType DEF Keys
    <3> HIDE DEF keys
    <3>7. s5 \in StageType
      BY <3>6, StageIntro
    <3> QED
      BY <3>5, <3>7
  <2>6. /\ Recorded(rib, t, s1) /\ s1.rem = {}
        /\ Recorded(rib, t, s2) /\ s2.rem = {}
        /\ Recorded(rib, t, s4) /\ s4.rem = {}
        /\ Recorded(rib, t, s5) /\ s5.rem = {}
    <3>1. Recorded(rib, t, s5) /\ s5.rem = {}
      BY DEF Stage, Recorded
    <3> HIDE DEF own, last, t
    <3> QED
      BY <2>3, <3>1, OwnRecorded
  <2>7. Recorded(rib, t, s3)
    <3>1. \A d \in Below[n] : isIn(rib, d) => isIn(t, d)
      BY <1>1, <1>2 DEF isIn
    <3> HIDE DEF inherit, gone, t
    <3> QED
      BY <1>1, <3>1, ChildRecorded
  <2> HIDE DEF s1, s2, s3, s4, s5, t
  <2> DEFINE first == <<s1, s2, s3, s4>>
  <2>8. AllRecorded(rib, t, first) /\ RemovesOnce(first) /\ first \in Seq(StageType)
    <3>1. AllRecorded(rib, t, first) /\ RemovesOnce(first)
      BY <2>6, <2>7, ShortStages, Zenon
    <3>2. first \in Seq(StageType)
      BY <2>5
    <3> QED
      BY <3>1, <3>2
  <2>9. /\ AllRecorded(rib, t, rest) /\ RemovesOnce(rest) /\ rest \in Seq(StageType)
        /\ \A i \in DOMAIN rest : rest[i].rem = {}
    <3>1. /\ AllRecorded(rib, t, <<>>) /\ RemovesOnce(<<>>)
          /\ AllRecorded(rib, t, <<s5>>) /\ RemovesOnce(<<s5>>)
      BY <2>6, ShortStages, Zenon
    <3>2. /\ <<>> \in Seq(StageType) /\ \A i \in DOMAIN <<>> : <<>>[i].rem = {}
          /\ <<s5>> \in Seq(StageType) /\ \A i \in DOMAIN <<s5>> : <<s5>>[i].rem = {}
      BY <2>5, <2>6
    <3>3. rest = <<>> \/ rest = <<s5>>
      OBVIOUS
    <3> HIDE DEF rest
    <3> QED
      BY ONLY <3>1, <3>2, <3>3, Zenon
  <2> HIDE DEF first, rest
  <2>10. AllRecorded(rib, t, first \o rest) /\ RemovesOnce(first \o rest)
    <3>1. \A i \in DOMAIN first, j \in DOMAIN rest : first[i].rem \intersect rest[j].rem = {}
      BY <2>9
    <3> QED
      BY <2>8, <2>9, <3>1, StagesTogether
  <2> QED
    BY <2>1, <2>10 DEF first, t
<1> QED
  BY <1>3, <1>4

\* The records of a computation.
LEMMA RecordsType ==
  ASSUME NEW S \in Seq(StageType)
  PROVE  /\ Records(S) \in RecordStages /\ DOMAIN Records(S) = DOMAIN S
         /\ \A i \in DOMAIN S : Records(S)[i].rem = S[i].rem /\ Records(S)[i].add = S[i].add
<1>1. \A i \in DOMAIN S : S[i].rem \in SUBSET Keys /\ S[i].add \in SUBSET Keys
  BY StageFields
<1>2. Len(S) \in Nat /\ DOMAIN S = 1..Len(S)
  OBVIOUS
<1>3. Records(S) \in [1..Len(S) -> [rem : SUBSET Keys, add : SUBSET Keys]]
  BY <1>1, <1>2 DEF Records
<1>4. /\ DOMAIN Records(S) = DOMAIN S
      /\ \A i \in DOMAIN S : Records(S)[i].rem = S[i].rem /\ Records(S)[i].add = S[i].add
  BY DEF Records
<1>5. Records(S) \in RecordStages
  <2> DEFINE T == [rem : SUBSET Keys, add : SUBSET Keys]
  <2> HIDE DEF T
  <2>1. Records(S) \in [1..Len(S) -> T]
    BY <1>3 DEF T
  <2>2. Records(S) \in Seq(T)
    BY <1>2, <2>1
  <2> QED
    BY <2>2 DEF RecordStages, T
<1> QED
  BY <1>4, <1>5

\* Except in those cases modifyInheritedRoutes finds the records it changes.
LEMMA RecordsFound ==
  ASSUME rib \in [Names -> Entry], NEW b \in Update, ~Exceptional(b)
  PROVE  modifiable(Result(b), Records(computeUpdates(rib, b)))
<1> DEFINE S == computeUpdates(rib, b)
           t == Result(b)
           n == b.name
<1>1. AllRecorded(rib, t, S) /\ RemovesOnce(S)
  BY RegistrationRecorded, UnregistrationRecorded
<1>2. S \in Seq(StageType)
  BY ComputeUpdatesType
<1>3. t \in [Names -> Entry] /\ \A m \in Names \ {n} : t[m] = rib[m]
  BY ResultType
<1>4. isIn(t, n) => t[n].inherited = rib[n].inherited
  <2>1. ResultEntry(b) /\ b.name \in Names
    BY ResultType, UpdateFields
  <2>2. DOMAIN NoEntry.routes = {}
    BY DEF NoEntry
  <2> QED
    BY <2>1, <2>2 DEF ResultEntry, isIn
<1> HIDE DEF S, t, n
<1>5. ASSUME NEW i \in DOMAIN S
      PROVE  Recorded(t, t, S[i])
  <2>1. Recorded(rib, t, S[i])
    BY <1>1 DEF AllRecorded
  <2>2. S[i].rem \subseteq Keys
    BY <1>2, StageFields
  <2>3. ASSUME NEW k \in S[i].rem PROVE t[k[1]].inherited[k[2]] > 0
    <3>1. k[1] \in Names /\ isIn(t, k[1]) /\ rib[k[1]].inherited[k[2]] > 0
      BY <2>1, <2>2 DEF Recorded, Keys
    <3>2. t[k[1]].inherited = rib[k[1]].inherited
      BY <1>3, <1>4, <3>1
    <3> QED
      BY <3>1, <3>2
  <2> QED
    BY <2>1, <2>3 DEF Recorded
<1>6. /\ Records(S) \in RecordStages /\ DOMAIN Records(S) = DOMAIN S
      /\ \A i \in DOMAIN S : Records(S)[i].rem = S[i].rem /\ Records(S)[i].add = S[i].add
  BY <1>2, RecordsType
<1>7. RemovesOnce(Records(S))
  BY <1>1, <1>6 DEF RemovesOnce
<1>8. AllRecorded(t, t, Records(S))
  BY <1>5, <1>6 DEF AllRecorded, Recorded
<1> HIDE DEF Records
<1>9. modifiable(t, Records(S))
  BY <1>3, <1>6, <1>7, <1>8, ModifiableIf
<1> QED
  BY <1>9 DEF S, t

----------------------------------------------------------------------------
(* The steps that change the RIB or the batch in progress                  *)

\* A batch is computed; it is sent, or it needs no command and is applied at once.
LEMMA SendBatchShape ==
  ASSUME SendBatchFromQueue
  PROVE  /\ current' = Head(queue) /\ queue # <<>> /\ ~inProgress /\ sending
         /\ inherited' = Records(computeUpdates(rib, Head(queue)))
         /\ \/ inProgress' = TRUE /\ UNCHANGED <<rib, stopped>>
            \/ onFibUpdateSuccess(Head(queue), inherited')
  BY Zenon DEF SendBatchFromQueue, mayAdvance, Records

\* An answer ends the batch, fails it, or leaves it in progress.
LEMMA AnswerShape ==
  ASSUME NEW c \in BagToSet(sent), Answer(c)
  PROVE  /\ UNCHANGED <<queue, current, inherited, alive>> /\ mishaps \subseteq mishaps'
         /\ \/ UNCHANGED <<rib, inProgress, timers, stopped>>
            \/ onFibUpdateSuccess(c.batch, inherited) /\ UNCHANGED mishaps
            \/ onFibUpdateFailure /\ c.update.face = current.face /\ faceNotFound(c)
  BY Zenon DEF Answer, OnUpdateSuccess, OnFaceNotFound, OwnUpdateDone, OtherUpdateDone

\* The other steps leave the RIB and the batch in progress alone.
LEMMA OtherShape ==
  ASSUME [Next]_vars
  PROVE  \/ SendBatchFromQueue
         \/ \E c \in BagToSet(sent) : Answer(c)
         \/ /\ UNCHANGED <<rib, updaterVars, inProgress>> /\ mishaps \subseteq mishaps'
            /\ stopped' = "assert" => stopped = "assert"
<1>1. CASE UNCHANGED vars
  BY <1>1 DEF vars, ribVars
<1>2. CASE SendNothing
  BY <1>2 DEF SendNothing, ribVars
<1>3. ASSUME NEW c \in BagToSet(sent), OnTimeout(c)
      PROVE  /\ UNCHANGED <<rib, updaterVars, inProgress>> /\ mishaps \subseteq mishaps'
             /\ stopped' = "assert" => stopped = "assert"
  BY <1>3 DEF OnTimeout, ribVars
<1>4. ASSUME NEW x \in Registrations, RegisterEntry(x)
      PROVE  UNCHANGED <<rib, updaterVars, inProgress, mishaps, stopped>>
  BY <1>4 DEF RegisterEntry
<1>5. ASSUME NEW n \in Names, NEW f \in Faces, UnregisterEntry(n, f)
      PROVE  UNCHANGED <<rib, updaterVars, inProgress, mishaps, stopped>>
  BY <1>5 DEF UnregisterEntry
<1>6. ASSUME NEW t \in timers, OnRouteExpiration(t)
      PROVE  UNCHANGED <<rib, updaterVars, inProgress, stopped>> /\ mishaps \subseteq mishaps'
  BY <1>6 DEF OnRouteExpiration
<1>7. ASSUME NEW f \in Destroyable, FaceDestroyed(f) \/ OnFaceDestroyedEvent(f)
      PROVE  UNCHANGED <<rib, updaterVars, inProgress, mishaps, stopped>>
  BY <1>7 DEF FaceDestroyed, OnFaceDestroyedEvent, ribVars
<1>8. CASE RemoveInvalidFaces
  BY <1>8 DEF RemoveInvalidFaces, ribVars
<1> QED
  BY <1>1, <1>2, <1>3, <1>4, <1>5, <1>6, <1>7, <1>8 DEF Next

----------------------------------------------------------------------------
(* The records of the batch in progress                                    *)

\* The batch in progress was computed for the RIB as it is: nothing else changes the RIB
\* before the batch is applied.
RecordInv == Undisturbed /\ inProgress => inherited = Records(computeUpdates(rib, current))

\* Every step keeps the records of the batch in progress those of its computation.
LEMMA NextRecordInv ==
  ASSUME UpdaterInv, RecordInv, [Next]_vars
  PROVE  RecordInv'
<1> SUFFICES ASSUME Undisturbed', inProgress'
             PROVE  inherited' = Records(computeUpdates(rib', current'))
  BY DEF RecordInv
<1>1. CASE SendBatchFromQueue
  BY <1>1, SendBatchShape DEF onFibUpdateSuccess
<1>2. ASSUME NEW c \in BagToSet(sent), Answer(c)
      PROVE  inherited' = Records(computeUpdates(rib', current'))
  <2>1. UNCHANGED <<rib, inProgress, current, inherited>> /\ mishaps \subseteq mishaps'
    BY <1>2, AnswerShape DEF onFibUpdateSuccess, onFibUpdateFailure
  <2> QED
    BY <2>1 DEF RecordInv, Undisturbed
<1>3. CASE UNCHANGED <<rib, updaterVars, inProgress>> /\ mishaps \subseteq mishaps'
  BY <1>3 DEF RecordInv, Undisturbed, updaterVars
<1> QED
  BY <1>1, <1>2, <1>3, OtherShape

\* The records that a batch will apply are always those computed for the RIB it is applied to.
LEMMA RecordInvHolds == Spec => []RecordInv
<1>1. Init => RecordInv
  BY DEF Init, RecordInv
<1> QED
  BY <1>1, NextRecordInv, UpdaterInvHolds, PTL DEF Spec

\* The program ends on an assertion of modifyInheritedRoutes only in the two cases that the
\* property names: in all others it finds an entry, and every record that it removes.
THEOREM AssertsOnlyForCapture == Spec => AssertedOnlyForCapture
<1> DEFINE Found ==
             stopped # "assert" /\ stopped' = "assert" /\ Undisturbed =>
               LET routes == rib[current'.name].routes
                   f == current'.face
               IN  /\ f \in DOMAIN routes
                   /\ IF current'.action = "register"
                        THEN /\ routes[f].childInherit /\ ~current'.route.childInherit
                             /\ ~routes[f].capture /\ current'.route.capture
                        ELSE DOMAIN routes = {f} /\ routes[f].capture
<1>1. ASSUME TypeInv, UpdaterInv, RecordInv, [Next]_vars
      PROVE  Found
  <2> SUFFICES ASSUME stopped # "assert", stopped' = "assert", Undisturbed
               PROVE  Exceptional(current')
    BY DEF Exceptional
  <2>1. ASSUME NEW b \in Update, onFibUpdateSuccess(b, Records(computeUpdates(rib, b)))
        PROVE  Exceptional(b)
    <3>1. ~modifiable(Result(b), Records(computeUpdates(rib, b)))
      BY <2>1 DEF onFibUpdateSuccess, Result
    <3> QED
      BY <1>1, <3>1, RecordsFound DEF TypeInv
  <2>2. CASE SendBatchFromQueue
    <3>1. /\ current' = Head(queue) /\ queue # <<>>
          /\ onFibUpdateSuccess(Head(queue), Records(computeUpdates(rib, Head(queue))))
      BY <2>2, SendBatchShape
    <3>2. Head(queue) \in Update
      BY <1>1, <3>1 DEF TypeInv
    <3> QED
      BY <2>1, <3>1, <3>2
  <2>3. ASSUME NEW c \in BagToSet(sent), Answer(c)
        PROVE  Exceptional(current')
    <3>1. /\ current' = current
          /\ UNCHANGED stopped \/ onFibUpdateSuccess(c.batch, inherited)
      BY <2>3, AnswerShape DEF onFibUpdateFailure
    <3>2. inProgress /\ c.batch = current /\ current \in Update
      BY <1>1 DEF UpdaterInv, BatchInv, TypeInv
    <3>3. inherited = Records(computeUpdates(rib, current))
      BY <1>1, <3>2 DEF RecordInv
    <3> QED
      BY <2>1, <3>1, <3>2, <3>3
  <2>4. CASE stopped' = "assert" => stopped = "assert"
    BY <2>4
  <2> QED
    BY <1>1, <2>2, <2>3, <2>4, OtherShape
<1>2. Spec => [][Found]_vars
  <2>1. TypeInv /\ UpdaterInv /\ RecordInv /\ [Next]_vars => [Found]_vars
    BY <1>1
  <2> HIDE DEF Found
  <2> QED
    BY <2>1, TypeInvHolds, UpdaterInvHolds, RecordInvHolds, PTL DEF Spec
<1> QED
  BY <1>2 DEF AssertedOnlyForCapture

----------------------------------------------------------------------------
(* The capture counter                                                     *)

Capturing(e) == {f \in DOMAIN e.routes : e.routes[f].capture}

\* The counter of an entry counts its routes with the flag.
Counted(e) == IsFiniteSet(Capturing(e)) /\ e.nCapture = Cardinality(Capturing(e))

\* Then it says whether there is one.
LEMMA CountedFacts ==
  ASSUME NEW e, Counted(e)
  PROVE  /\ hasCapture(e) <=> \E f \in DOMAIN e.routes : e.routes[f].capture
         /\ DOMAIN e.routes = {} => ~hasCapture(e)
<1>1. Cardinality(Capturing(e)) = 0 <=> Capturing(e) = {}
  BY FS_EmptySet DEF Counted
<1> QED
  BY <1>1 DEF Counted, hasCapture, Capturing

\* A name without an entry.
LEMMA NoEntryCounted == Counted(NoEntry)
<1>1. Capturing(NoEntry) = {} /\ NoEntry.nCapture = 0
  BY DEF Capturing, NoEntry
<1> QED
  BY <1>1, FS_EmptySet DEF Counted

\* The entry without one of its routes.
LEMMA EraseCounted ==
  ASSUME NEW e \in Entry, Counted(e), NEW f \in DOMAIN e.routes
  PROVE  Counted(eraseRoute(e, f)) /\ Capturing(eraseRoute(e, f)) = Capturing(e) \ {f}
<1> DEFINE c == e.nCapture - (IF e.routes[f].capture THEN 1 ELSE 0)
           rest == [g \in DOMAIN e.routes \ {f} |-> e.routes[g]]
           d == [e EXCEPT !.routes = rest]
<1>1. e = [routes |-> e.routes, inherited |-> e.inherited, nCapture |-> e.nCapture]
      /\ e.nCapture \in Int
  BY EntryFields
<1>2. eraseRoute(e, f) = [d EXCEPT !.nCapture = c]
  BY <1>1 DEF eraseRoute
<1>3. d = [routes |-> rest, inherited |-> e.inherited, nCapture |-> e.nCapture]
  BY <1>1
<1> HIDE DEF c, d
<1>4. eraseRoute(e, f).nCapture = c /\ eraseRoute(e, f).routes = rest
  BY <1>2, <1>3
<1>5. Capturing(eraseRoute(e, f)) = Capturing(e) \ {f}
  BY <1>4 DEF Capturing
<1>6. /\ IsFiniteSet(Capturing(e) \ {f})
      /\ Cardinality(Capturing(e) \ {f}) =
           IF f \in Capturing(e) THEN Cardinality(Capturing(e)) - 1 ELSE Cardinality(Capturing(e))
  BY FS_RemoveElement DEF Counted
<1>7. f \in Capturing(e) <=> e.routes[f].capture
  BY DEF Capturing
<1> QED
  BY <1>1, <1>4, <1>5, <1>6, <1>7 DEF Counted, c

\* A batch that changes no flag keeps the count.
LEMMA ResultCounted ==
  ASSUME rib \in [Names -> Entry], NEW b \in Update, ~flagged(b),
         \A n \in Names : Counted(rib[n])
  PROVE  \A n \in Names : Counted(Result(b)[n])
<1> DEFINE m == b.name
           g == b.face
           e == rib[m]
           t == Result(b)[m]
<1>1. m \in Names /\ g \in Faces /\ Counted(e) /\ e \in Entry
  BY UpdateFields
<1>2. \A n \in Names \ {m} : Result(b)[n] = rib[n]
  BY ResultType
<1>3. Counted(t)
  <2>1. CASE b.action = "register"
    <3>1. /\ DOMAIN t.routes = DOMAIN e.routes \union {g} /\ t.routes[g] = b.route
          /\ \A f \in DOMAIN e.routes \ {g} : t.routes[f] = e.routes[f]
          /\ ResultEntry(b)
      BY <2>1, ResultType
    <3>2. t.nCapture = e.nCapture + (IF g \notin DOMAIN e.routes /\ b.route.capture THEN 1 ELSE 0)
      BY <2>1, <3>1 DEF ResultEntry
    <3>3. CASE g \in DOMAIN e.routes
      <4>1. e.routes[g].capture = b.route.capture
        BY <2>1, <3>3 DEF flagged
      <4>2. Capturing(t) = Capturing(e)
        BY <3>1, <3>3, <4>1 DEF Capturing
      <4>3. e.nCapture \in Int
        BY <1>1, EntryFields
      <4> QED
        BY <1>1, <3>2, <3>3, <4>2, <4>3 DEF Counted
    <3>4. CASE g \notin DOMAIN e.routes
      <4>1. Capturing(t) = Capturing(e) \union (IF b.route.capture THEN {g} ELSE {})
        BY <3>1, <3>4 DEF Capturing
      <4>2. g \notin Capturing(e)
        BY <3>4 DEF Capturing
      <4>3. e.nCapture \in Int
        BY <1>1, EntryFields
      <4>4. CASE b.route.capture
        <5>1. Capturing(t) = Capturing(e) \union {g}
          BY <4>1, <4>4
        <5>2. IsFiniteSet(Capturing(e)) /\ e.nCapture = Cardinality(Capturing(e))
          BY <1>1 DEF Counted
        <5>3. IsFiniteSet(Capturing(t)) /\ Cardinality(Capturing(t)) = Cardinality(Capturing(e)) + 1
          BY <4>2, <5>1, <5>2, FS_AddElement
        <5> QED
          BY <3>2, <3>4, <4>4, <5>2, <5>3 DEF Counted
      <4>5. CASE ~b.route.capture
        BY <1>1, <3>2, <4>1, <4>3, <4>5 DEF Counted
      <4> QED
        BY <4>4, <4>5
    <3> QED
      BY <3>3, <3>4
  <2>2. CASE b.action # "register" /\ g \notin DOMAIN e.routes
    BY <1>1, <2>2, ResultType DEF ResultEntry
  <2>3. CASE b.action # "register" /\ DOMAIN e.routes = {g}
    BY <2>3, ResultType, NoEntryCounted DEF ResultEntry
  <2>4. CASE b.action # "register" /\ g \in DOMAIN e.routes /\ DOMAIN e.routes # {g}
    <3>1. t = eraseRoute(e, g)
      BY <1>1, <2>4 DEF Result, erase
    <3> QED
      BY <1>1, <2>4, <3>1, EraseCounted
  <2> QED
    BY <2>1, <2>2, <2>3, <2>4
<1> QED
  BY <1>2, <1>3

----------------------------------------------------------------------------
(* The route that a name inherits on a face                                *)

\* Entry a is the nearest above n with a child-inherit route on f, and nothing in between
\* captures.
Provides(R, a, n, f) ==
  /\ a \in Above[n] /\ hasChildInheritOnFaceId(R[a], f)
  /\ \A b \in Above[n] \intersect Below[a] :
       ~hasCapture(R[b]) /\ ~hasChildInheritOnFaceId(R[b], f)

\* The cost of that route, 0 if there is none.
Val(R, n, f) ==
  IF f \in DOMAIN getAncestorRoutes(R, n) THEN getAncestorRoutes(R, n)[f] ELSE 0

\* getAncestorRoutes finds the nearest route.
LEMMA Nearest ==
  ASSUME NEW R \in [Names -> Entry], \A x \in Names : Counted(R[x]), NEW n \in Names, NEW f
  PROVE  /\ f \in DOMAIN getAncestorRoutes(R, n) =>
              \E a \in Names : /\ Provides(R, a, n, f)
                               /\ getAncestorRoutes(R, n)[f] = R[a].routes[f].cost
         /\ \A a \in Names : Provides(R, a, n, f) =>
              /\ f \in DOMAIN getAncestorRoutes(R, n)
              /\ getAncestorRoutes(R, n)[f] = R[a].routes[f].cost
<1> DEFINE ancestors == {a \in Above[n] : isIn(R, a)}
           visited == {a \in ancestors :
                         \A b \in ancestors \intersect Below[a] : ~hasCapture(R[b])}
           giving(g) == {a \in visited : hasChildInheritOnFaceId(R[a], g)}
           nearest(g) == CHOOSE a \in giving(g) : \A b \in giving(g) : Len(b) <= Len(a)
           A == getAncestorRoutes(R, n)
<1>1. A = [g \in {h \in Faces : giving(h) # {}} |-> R[nearest(g)].routes[g].cost]
  BY Zenon DEF getAncestorRoutes
<1>2. /\ Above[n] \subseteq Names
      /\ \A a \in Above[n] : Len(a) \in 0..Len(n) /\ Len(n) \in Nat
      /\ \A a, b \in Above[n] : a = b \/ a \in Above[b] \/ b \in Above[a]
      /\ \A x, y \in Names : x \in Above[y] <=> y \in Below[x]
      /\ \A x \in Names : \A y \in Above[x] : Len(y) < Len(x) /\ Len(y) \in Nat /\ Len(x) \in Nat
  BY NameOrder
<1>3. \A x \in Names : (hasCapture(R[x]) \/ hasChildInheritOnFaceId(R[x], f)) => isIn(R, x)
  BY CountedFacts DEF isIn, hasChildInheritOnFaceId
<1>4. \A a \in Above[n] : a \in giving(f) <=>
        /\ hasChildInheritOnFaceId(R[a], f)
        /\ \A b \in Above[n] \intersect Below[a] : ~hasCapture(R[b])
  BY <1>2, <1>3
<1>5. giving(f) \subseteq Above[n] /\ \A a \in giving(f) : f \in DOMAIN R[a].routes
  BY DEF hasChildInheritOnFaceId
<1> HIDE DEF giving
<1>6. ASSUME giving(f) # {}
      PROVE  nearest(f) \in giving(f) /\ \A b \in giving(f) : Len(b) <= Len(nearest(f))
  <2>1. \E a \in giving(f) : \A b \in giving(f) : Len(b) <= Len(a)
    <3> DEFINE S == {Len(a) : a \in giving(f)}
    <3>1. Len(n) \in Nat
      BY FibUpdaterAssumption
    <3>2. S \in SUBSET (0..Len(n)) /\ S # {}
      BY <1>2, <1>5, <1>6
    <3>3. \E x \in S : \A y \in S : y <= x
      BY <3>1, <3>2, LargestExists
    <3> QED
      BY <3>3
  <2> QED
    BY <2>1
<1>7. \A g : g \in DOMAIN A <=> g \in Faces /\ giving(g) # {}
  BY <1>1
<1>8. ASSUME f \in DOMAIN A PROVE A[f] = R[nearest(f)].routes[f].cost
  BY <1>1, <1>8
<1> HIDE DEF nearest, A
<1>9. ASSUME f \in DOMAIN A
      PROVE  Provides(R, nearest(f), n, f)
  <2> DEFINE a == nearest(f)
  <2>1. giving(f) # {} /\ a \in giving(f) /\ \A b \in giving(f) : Len(b) <= Len(a)
    BY <1>6, <1>7, <1>9
  <2>2. a \in Above[n] /\ a \in Names /\ hasChildInheritOnFaceId(R[a], f)
        /\ \A b \in Above[n] \intersect Below[a] : ~hasCapture(R[b])
    BY <1>2, <1>4, <1>5, <2>1
  <2> HIDE DEF a
  <2>3. ASSUME NEW b \in Above[n] \intersect Below[a], hasChildInheritOnFaceId(R[b], f)
        PROVE  FALSE
    <3>1. b \in Names /\ a \in Above[b]
      BY <1>2, <2>2, <2>3
    <3>2. ASSUME NEW c \in Above[n] \intersect Below[b] PROVE ~hasCapture(R[c])
      <4>1. c \in Names /\ b \in Above[c]
        BY <1>2, <3>1, <3>2
      <4>2. a \in Above[c]
        BY <3>1, <4>1, NameOrder
      <4> QED
        BY <1>2, <2>2, <3>2, <4>1, <4>2
    <3>3. b \in giving(f)
      BY <1>4, <2>3, <3>2
    <3>4. Len(a) < Len(b) /\ Len(a) \in Nat /\ Len(b) \in Nat
      BY <1>2, <3>1
    <3> QED
      BY <2>1, <3>3, <3>4 DEF a
  <2> QED
    BY <2>2, <2>3 DEF Provides, a
<1>10. ASSUME NEW a \in Names, Provides(R, a, n, f)
       PROVE  f \in DOMAIN A /\ nearest(f) = a
  <2>1. a \in giving(f) /\ a \in Above[n]
    BY <1>4, <1>10 DEF Provides
  <2>2. f \in Faces
    <3>1. f \in DOMAIN R[a].routes /\ R[a] \in Entry
      BY <1>5, <2>1
    <3> QED
      BY <3>1, EntryFields
  <2>3. f \in DOMAIN A
    BY <1>7, <2>1, <2>2
  <2>4. nearest(f) \in giving(f) /\ Len(a) <= Len(nearest(f)) /\ Provides(R, nearest(f), n, f)
    BY <1>6, <1>9, <2>1, <2>3
  <2>5. nearest(f) \in Above[n] /\ nearest(f) \in Names
    BY <1>2, <1>5, <2>4
  <2>6. CASE a \in Above[nearest(f)]
    <3>1. nearest(f) \in Below[a]
      BY <1>2, <2>5, <2>6
    <3> QED
      BY <1>10, <2>4, <2>5, <3>1 DEF Provides
  <2>7. CASE nearest(f) \in Above[a]
    BY <1>2, <2>4, <2>5, <2>7
  <2> QED
    BY <1>2, <2>1, <2>3, <2>5, <2>6, <2>7
<1>11. nearest(f) \in Names \/ ~(f \in DOMAIN A)
  BY <1>2, <1>9 DEF Provides
<1> QED
  BY <1>8, <1>9, <1>10, <1>11 DEF A

\* What it finds, as a number.
Inherits(R, n, f) ==
  /\ \A a \in Names : Provides(R, a, n, f) =>
       Val(R, n, f) = R[a].routes[f].cost /\ Val(R, n, f) # 0
  /\ Val(R, n, f) # 0 =>
       \E a \in Names : Provides(R, a, n, f) /\ Val(R, n, f) = R[a].routes[f].cost
  /\ Val(R, n, f) \in Nat
  /\ f \in DOMAIN getAncestorRoutes(R, n) <=> Val(R, n, f) # 0
  /\ f \in DOMAIN getAncestorRoutes(R, n) => Val(R, n, f) = getAncestorRoutes(R, n)[f]

\* What getAncestorRoutes returns for a face is the route of the nearest ancestor, if any.
LEMMA ValIs ==
  ASSUME NEW R \in [Names -> Entry], \A x \in Names : Counted(R[x]), NEW n \in Names, NEW f
  PROVE  Inherits(R, n, f)
<1>1. ASSUME NEW a \in Names, Provides(R, a, n, f)
      PROVE  R[a].routes[f].cost \in Nat \ {0}
  <2>1. f \in DOMAIN R[a].routes /\ R[a] \in Entry
    BY <1>1 DEF Provides, hasChildInheritOnFaceId
  <2>2. R[a].routes[f] \in Route
    BY <2>1, EntryFields
  <2> QED
    BY <2>2 DEF Route
<1>2. ASSUME NEW a \in Names, Provides(R, a, n, f)
      PROVE  Val(R, n, f) = R[a].routes[f].cost /\ f \in DOMAIN getAncestorRoutes(R, n)
  BY <1>2, Nearest DEF Val
<1>3. ASSUME f \in DOMAIN getAncestorRoutes(R, n)
      PROVE  \E a \in Names : Provides(R, a, n, f) /\ Val(R, n, f) = R[a].routes[f].cost
  BY <1>3, Nearest DEF Val
<1>4. f \notin DOMAIN getAncestorRoutes(R, n) => Val(R, n, f) = 0
  BY DEF Val
<1>5. f \in DOMAIN getAncestorRoutes(R, n) => Val(R, n, f) = getAncestorRoutes(R, n)[f]
  BY DEF Val
<1> QED
  BY <1>1, <1>2, <1>3, <1>4, <1>5 DEF Inherits

\* Two RIBs agree on an entry, up to the records of inherited routes.
Same(R, T, x) == T[x].routes = R[x].routes /\ T[x].nCapture = R[x].nCapture

\* What a name inherits depends on the entries above it.
LEMMA ValSame ==
  ASSUME NEW R \in [Names -> Entry], \A x \in Names : Counted(R[x]),
         NEW T \in [Names -> Entry], \A x \in Names : Counted(T[x]),
         NEW n \in Names, NEW f, \A a \in Above[n] : Same(R, T, a)
  PROVE  Val(R, n, f) = Val(T, n, f)
<1>1. \A a \in Names : Provides(R, a, n, f) <=> Provides(T, a, n, f)
  BY DEF Provides, Same, hasCapture, hasChildInheritOnFaceId
<1>2. \A a \in Names : Provides(R, a, n, f) => R[a].routes[f].cost = T[a].routes[f].cost
  BY DEF Provides, Same
<1>3. Inherits(R, n, f)
  BY ValIs
<1>4. Inherits(T, n, f)
  BY ValIs
<1> QED
  BY <1>1, <1>2, <1>3, <1>4 DEF Inherits

----------------------------------------------------------------------------
(* The names below an entry                                                *)

\* No entry between m and d captures or has its own child-inherit route on f.
Clear(R, m, d, f) ==
  \A e \in Above[d] \intersect Below[m] :
    ~hasCapture(R[e]) /\ ~hasChildInheritOnFaceId(R[e], f)

\* What m passes on to the names below it.
Through(R, m, f) ==
  IF hasChildInheritOnFaceId(R[m], f) THEN R[m].routes[f].cost
  ELSE IF hasCapture(R[m]) THEN 0 ELSE Val(R, m, f)

\* A name between which and m something shields does not depend on m.
LEMMA ValBlocked ==
  ASSUME NEW R \in [Names -> Entry], \A x \in Names : Counted(R[x]),
         NEW T \in [Names -> Entry], \A x \in Names : Counted(T[x]),
         NEW m \in Names, NEW d \in Below[m], NEW f, \A e \in Below[m] : Same(R, T, e),
         ~Clear(R, m, d, f)
  PROVE  Val(R, d, f) = Val(T, d, f)
<1>1. d \in Names /\ m \in Above[d] /\ Above[d] \subseteq Names
  BY NameOrder
<1>2. ~Clear(T, m, d, f)
  BY DEF Clear, Same, hasCapture, hasChildInheritOnFaceId
<1>3. ASSUME NEW Q, ~Clear(Q, m, d, f), NEW a \in Names, Provides(Q, a, d, f)
      PROVE  a \in Below[m]
  <2>1. a \in Above[d]
    BY <1>3 DEF Provides
  <2>2. PICK e \in Above[d] \intersect Below[m] : hasCapture(Q[e]) \/ hasChildInheritOnFaceId(Q[e], f)
    BY <1>3 DEF Clear
  <2>3. e \notin Below[a]
    BY <1>3, <2>2 DEF Provides
  <2>4. e \in Names /\ m \in Above[e]
    BY <1>1, <2>2, NameOrder
  <2>5. a \notin Above[e]
    BY <2>3, <2>4, NameOrder
  <2>6. a = e \/ e \in Above[a]
    BY <1>1, <2>1, <2>2, <2>5, NameOrder
  <2>7. m \in Above[a]
    BY <1>3, <2>4, <2>6, NameOrder
  <2> QED
    BY <1>3, <2>7, NameOrder
<1>4. ASSUME NEW a \in Below[m]
      PROVE  \A b \in Above[d] \intersect Below[a] : b \in Below[m]
  <2> TAKE b \in Above[d] \intersect Below[a]
  <2>1. a \in Names /\ m \in Above[a] /\ b \in Names
    BY <1>1, NameOrder
  <2>2. a \in Above[b]
    BY <2>1, NameOrder
  <2>3. m \in Above[b]
    BY <2>1, <2>2, NameOrder
  <2> QED
    BY <2>1, <2>3, NameOrder
<1>5. \A a \in Below[m] : /\ Provides(R, a, d, f) <=> Provides(T, a, d, f)
                          /\ Provides(R, a, d, f) => R[a].routes[f].cost = T[a].routes[f].cost
  BY <1>4 DEF Provides, Same, hasCapture, hasChildInheritOnFaceId
<1>6. \A a \in Names : (Provides(R, a, d, f) \/ Provides(T, a, d, f)) => a \in Below[m]
  BY <1>2, <1>3
<1>7. Inherits(R, d, f)
  BY <1>1, ValIs
<1>8. Inherits(T, d, f)
  BY <1>1, ValIs
<1> QED
  BY <1>5, <1>6, <1>7, <1>8 DEF Inherits

\* The other names below m inherit what m passes on.
LEMMA ValThrough ==
  ASSUME NEW R \in [Names -> Entry], \A x \in Names : Counted(R[x]),
         NEW m \in Names, NEW d \in Below[m], NEW f, Clear(R, m, d, f)
  PROVE  Val(R, d, f) = Through(R, m, f)
<1>1. /\ d \in Names /\ m \in Above[d] /\ Above[d] \subseteq Names /\ Above[m] \subseteq Names
      /\ m \notin Above[m] /\ m \notin Below[m]
  BY NameOrder
<1>2. Inherits(R, d, f)
  BY <1>1, ValIs
<1>3. Inherits(R, m, f)
  BY <1>1, ValIs
<1>4. CASE hasChildInheritOnFaceId(R[m], f)
  <2>1. Provides(R, m, d, f)
    BY <1>1, <1>4 DEF Provides, Clear
  <2> QED
    BY <1>2, <1>4, <2>1 DEF Through, Inherits
<1>5. ASSUME ~hasChildInheritOnFaceId(R[m], f), NEW a \in Names, Provides(R, a, d, f)
      PROVE  a \in Above[m] /\ ~hasCapture(R[m])
  <2>1. a \in Above[d] /\ a # m
    BY <1>5 DEF Provides
  <2>2. a \notin Below[m]
    BY <1>5, <2>1 DEF Provides, Clear
  <2>3. m \notin Above[a]
    BY <1>5, <2>2, NameOrder
  <2>4. a \in Above[m]
    BY <1>1, <2>1, <2>3, NameOrder
  <2>5. m \in Below[a]
    BY <1>5, <2>4, NameOrder
  <2> QED
    BY <1>1, <1>5, <2>4, <2>5 DEF Provides
<1>6. CASE ~hasChildInheritOnFaceId(R[m], f) /\ hasCapture(R[m])
  BY <1>2, <1>5, <1>6 DEF Through, Inherits
<1>7. CASE ~hasChildInheritOnFaceId(R[m], f) /\ ~hasCapture(R[m])
  <2>1. ASSUME NEW a \in Above[m]
        PROVE  /\ a \in Above[d]
               /\ \A b \in Above[m] \intersect Below[a] : b \in Above[d]
               /\ \A b \in Above[d] \intersect Below[a] :
                    b = m \/ b \in Above[m] \/ b \in Below[m]
    <3>1. \A b \in Above[m] : b \in Above[d]
      BY <1>1, NameOrder
    <3>2. ASSUME NEW b \in Above[d] PROVE b = m \/ b \in Above[m] \/ b \in Below[m]
      <4>1. b \in Names /\ (b = m \/ b \in Above[m] \/ m \in Above[b])
        BY <1>1, <3>2, NameOrder
      <4> QED
        BY <4>1, NameOrder
    <3> QED
      BY <3>1, <3>2
  <2>2. \A a \in Above[m] : Provides(R, a, d, f) <=> Provides(R, a, m, f)
    BY <1>7, <2>1 DEF Provides, Clear
  <2>3. \A a \in Names : Provides(R, a, m, f) => a \in Above[m]
    BY DEF Provides
  <2>4. \A a \in Names : Provides(R, a, d, f) <=> Provides(R, a, m, f)
    BY <1>5, <1>7, <2>2, <2>3
  <2>5. Val(R, d, f) = Val(R, m, f)
    BY <1>2, <1>3, <2>4 DEF Inherits
  <2> QED
    BY <1>7, <2>5 DEF Through
<1> QED
  BY <1>4, <1>6, <1>7

----------------------------------------------------------------------------
(* What a computation does to a next hop and to a record                   *)

\* It leaves the next hop alone, or the last stage that sets it makes the update u.
Kept(S, k) == \A i \in DOMAIN S : k \notin DOMAIN S[i].fib
Finally(S, k, u) ==
  \E i \in DOMAIN S : /\ k \in DOMAIN S[i].fib /\ S[i].fib[k] = u
                      /\ \A j \in DOMAIN S : j > i => k \notin DOMAIN S[j].fib
Removed(S, k) == \E i \in DOMAIN S : k \in S[i].rem
Added(S, k) == \E i \in DOMAIN S : k \in S[i].add

\* FibUpdates has the last update of every next hop.
LEMMA FibUpdatesOf ==
  ASSUME NEW S \in Seq(StageType), NEW k
  PROVE  /\ Kept(S, k) <=> k \notin DOMAIN FibUpdates(S)
         /\ \A u : Finally(S, k, u) => k \in DOMAIN FibUpdates(S) /\ FibUpdates(S)[k] = u
<1> DEFINE setting(x) == {i \in DOMAIN S : x \in DOMAIN S[i].fib}
           last(x) == CHOOSE i \in setting(x) : \A j \in setting(x) : j <= i
           keys == UNION {DOMAIN S[i].fib : i \in DOMAIN S}
           U == FibUpdates(S)
<1>1. U = [x \in keys |-> S[last(x)].fib[x]]
  BY Zenon DEF FibUpdates
<1>2. DOMAIN U = keys /\ (k \in keys => U[k] = S[last(k)].fib[k])
  BY <1>1
<1>3. k \in keys <=> ~Kept(S, k)
  BY DEF Kept
<1>4. DOMAIN S \subseteq Nat
  OBVIOUS
<1>5. ASSUME NEW u, Finally(S, k, u)
      PROVE  k \in keys /\ S[last(k)].fib[k] = u
  <2>1. PICK i \in DOMAIN S : /\ k \in DOMAIN S[i].fib /\ S[i].fib[k] = u
                              /\ \A j \in DOMAIN S : j > i => k \notin DOMAIN S[j].fib
    BY <1>5 DEF Finally
  <2>2. i \in setting(k) /\ \A j \in setting(k) : j <= i
    BY <1>4, <2>1
  <2>3. last(k) \in setting(k) /\ \A j \in setting(k) : j <= last(k)
    BY <2>2
  <2>4. last(k) = i
    <3>1. setting(k) \subseteq Nat
      BY <1>4
    <3> HIDE DEF setting, last
    <3> QED
      BY <2>2, <2>3, <3>1
  <2> QED
    BY <2>1, <2>4
<1> HIDE DEF keys, last
<1> QED
  BY <1>2, <1>3, <1>5 DEF U

\* What a few stages do together.
ThreeStages(a, b, c, k) ==
  LET S == <<a, b, c>>
  IN  /\ Kept(S, k) <=> k \notin DOMAIN a.fib /\ k \notin DOMAIN b.fib /\ k \notin DOMAIN c.fib
      /\ k \in DOMAIN c.fib => Finally(S, k, c.fib[k])
      /\ k \notin DOMAIN c.fib /\ k \in DOMAIN b.fib => Finally(S, k, b.fib[k])
      /\ k \notin DOMAIN c.fib /\ k \notin DOMAIN b.fib /\ k \in DOMAIN a.fib =>
           Finally(S, k, a.fib[k])
      /\ Removed(S, k) <=> k \in a.rem \/ k \in b.rem \/ k \in c.rem
      /\ Added(S, k) <=> k \in a.add \/ k \in b.add \/ k \in c.add
FourStages(a, b, c, d, k) ==
  LET S == <<a, b, c, d>>
  IN  /\ Kept(S, k) <=> /\ k \notin DOMAIN a.fib /\ k \notin DOMAIN b.fib
                        /\ k \notin DOMAIN c.fib /\ k \notin DOMAIN d.fib
      /\ k \in DOMAIN d.fib => Finally(S, k, d.fib[k])
      /\ k \notin DOMAIN d.fib /\ k \in DOMAIN c.fib => Finally(S, k, c.fib[k])
      /\ k \notin DOMAIN d.fib /\ k \notin DOMAIN c.fib /\ k \in DOMAIN b.fib =>
           Finally(S, k, b.fib[k])
      /\ /\ k \notin DOMAIN d.fib /\ k \notin DOMAIN c.fib
         /\ k \notin DOMAIN b.fib /\ k \in DOMAIN a.fib
         => Finally(S, k, a.fib[k])
      /\ Removed(S, k) <=> k \in a.rem \/ k \in b.rem \/ k \in c.rem \/ k \in d.rem
      /\ Added(S, k) <=> k \in a.add \/ k \in b.add \/ k \in c.add \/ k \in d.add

\* A computation without stages.
LEMMA OutcomeNone ==
  ASSUME NEW k
  PROVE  Kept(<<>>, k) /\ ~Removed(<<>>, k) /\ ~Added(<<>>, k)
BY DEF Kept, Removed, Added

\* A computation of one stage.
LEMMA OutcomeOne ==
  ASSUME NEW a, NEW k
  PROVE  /\ Kept(<<a>>, k) <=> k \notin DOMAIN a.fib
         /\ k \in DOMAIN a.fib => Finally(<<a>>, k, a.fib[k])
         /\ Removed(<<a>>, k) <=> k \in a.rem
         /\ Added(<<a>>, k) <=> k \in a.add
BY DEF Kept, Finally, Removed, Added

\* A computation of three stages: the last one that sets a next hop decides it.
LEMMA OutcomeThree ==
  ASSUME NEW a, NEW b, NEW c, NEW k
  PROVE  ThreeStages(a, b, c, k)
<1> DEFINE S == <<a, b, c>>
<1>1. DOMAIN S = {1, 2, 3} /\ S[1] = a /\ S[2] = b /\ S[3] = c
  OBVIOUS
<1> HIDE DEF S
<1>2. Kept(S, k) <=> k \notin DOMAIN a.fib /\ k \notin DOMAIN b.fib /\ k \notin DOMAIN c.fib
  BY <1>1 DEF Kept
<1>3. k \in DOMAIN c.fib => Finally(S, k, c.fib[k])
  BY <1>1 DEF Finally
<1>4. k \notin DOMAIN c.fib /\ k \in DOMAIN b.fib => Finally(S, k, b.fib[k])
  BY <1>1 DEF Finally
<1>5. k \notin DOMAIN c.fib /\ k \notin DOMAIN b.fib /\ k \in DOMAIN a.fib => Finally(S, k, a.fib[k])
  BY <1>1 DEF Finally
<1>6. /\ Removed(S, k) <=> k \in a.rem \/ k \in b.rem \/ k \in c.rem
      /\ Added(S, k) <=> k \in a.add \/ k \in b.add \/ k \in c.add
  BY <1>1 DEF Removed, Added
<1> QED
  BY <1>2, <1>3, <1>4, <1>5, <1>6 DEF S, ThreeStages

\* A computation of four stages.
LEMMA OutcomeFour ==
  ASSUME NEW a, NEW b, NEW c, NEW d, NEW k
  PROVE  FourStages(a, b, c, d, k)
<1> DEFINE S == <<a, b, c, d>>
<1>1. DOMAIN S = {1, 2, 3, 4} /\ S[1] = a /\ S[2] = b /\ S[3] = c /\ S[4] = d
  OBVIOUS
<1> HIDE DEF S
<1>2. Kept(S, k) <=> /\ k \notin DOMAIN a.fib /\ k \notin DOMAIN b.fib
                     /\ k \notin DOMAIN c.fib /\ k \notin DOMAIN d.fib
  BY <1>1 DEF Kept
<1>3. k \in DOMAIN d.fib => Finally(S, k, d.fib[k])
  BY <1>1 DEF Finally
<1>4. k \notin DOMAIN d.fib /\ k \in DOMAIN c.fib => Finally(S, k, c.fib[k])
  BY <1>1 DEF Finally
<1>5. k \notin DOMAIN d.fib /\ k \notin DOMAIN c.fib /\ k \in DOMAIN b.fib => Finally(S, k, b.fib[k])
  BY <1>1 DEF Finally
<1>6. /\ k \notin DOMAIN d.fib /\ k \notin DOMAIN c.fib
      /\ k \notin DOMAIN b.fib /\ k \in DOMAIN a.fib
      => Finally(S, k, a.fib[k])
  BY <1>1 DEF Finally
<1>7. /\ Removed(S, k) <=> k \in a.rem \/ k \in b.rem \/ k \in c.rem \/ k \in d.rem
      /\ Added(S, k) <=> k \in a.add \/ k \in b.add \/ k \in c.add \/ k \in d.add
  BY <1>1 DEF Removed, Added
<1> QED
  BY <1>2, <1>3, <1>4, <1>5, <1>6, <1>7 DEF S, FourStages

\* Two computations in sequence.
LEMMA OutcomesTogether ==
  ASSUME NEW X \in Seq(StageType), NEW Y \in Seq(StageType), NEW k
  PROVE  /\ Kept(X \o Y, k) <=> Kept(X, k) /\ Kept(Y, k)
         /\ \A u : Finally(Y, k, u) => Finally(X \o Y, k, u)
         /\ \A u : Finally(X, k, u) /\ Kept(Y, k) => Finally(X \o Y, k, u)
         /\ Removed(X \o Y, k) <=> Removed(X, k) \/ Removed(Y, k)
         /\ Added(X \o Y, k) <=> Added(X, k) \/ Added(Y, k)
<1> DEFINE Z == X \o Y
           p == Len(X)
           q == Len(Y)
<1>1. /\ p \in Nat /\ q \in Nat /\ DOMAIN X = 1..p /\ DOMAIN Y = 1..q /\ DOMAIN Z = 1..(p + q)
      /\ \A i \in 1..p : Z[i] = X[i]
      /\ \A j \in 1..q : Z[p + j] = Y[j]
      /\ \A i \in 1..(p + q) : i \in 1..p \/ i - p \in 1..q
  OBVIOUS
<1> HIDE DEF Z, p, q
<1>2. \A i \in DOMAIN Z : \/ i \in DOMAIN X /\ Z[i] = X[i]
                          \/ \E j \in DOMAIN Y : i = p + j /\ Z[i] = Y[j]
  <2> TAKE i \in DOMAIN Z
  <2>1. CASE i \in 1..p
    BY <1>1, <2>1
  <2>2. CASE i - p \in 1..q
    <3>1. i = p + (i - p)
      BY <1>1
    <3> QED
      BY <1>1, <2>2, <3>1
  <2> QED
    BY <1>1, <2>1, <2>2
<1>3. /\ \A i \in DOMAIN X : i \in DOMAIN Z /\ Z[i] = X[i]
      /\ \A j \in DOMAIN Y : p + j \in DOMAIN Z /\ Z[p + j] = Y[j]
  BY <1>1
<1>4. Kept(Z, k) <=> Kept(X, k) /\ Kept(Y, k)
  BY <1>2, <1>3 DEF Kept
<1>5. /\ Removed(Z, k) <=> Removed(X, k) \/ Removed(Y, k)
      /\ Added(Z, k) <=> Added(X, k) \/ Added(Y, k)
  BY <1>2, <1>3 DEF Removed, Added
<1>6. ASSUME NEW u, Finally(Y, k, u) PROVE Finally(Z, k, u)
  <2>1. PICK i \in DOMAIN Y : /\ k \in DOMAIN Y[i].fib /\ Y[i].fib[k] = u
                              /\ \A j \in DOMAIN Y : j > i => k \notin DOMAIN Y[j].fib
    BY <1>6 DEF Finally
  <2>2. ASSUME NEW j \in DOMAIN Z, j > p + i PROVE k \notin DOMAIN Z[j].fib
    <3>1. j - p \in 1..q /\ j - p > i /\ j = p + (j - p)
      BY <1>1, <2>2
    <3> QED
      BY <1>1, <2>1, <3>1
  <2> QED
    BY <1>3, <2>1, <2>2 DEF Finally
<1>7. ASSUME NEW u, Finally(X, k, u), Kept(Y, k) PROVE Finally(Z, k, u)
  <2>1. PICK i \in DOMAIN X : /\ k \in DOMAIN X[i].fib /\ X[i].fib[k] = u
                              /\ \A j \in DOMAIN X : j > i => k \notin DOMAIN X[j].fib
    BY <1>7 DEF Finally
  <2>2. ASSUME NEW j \in DOMAIN Z, j > i PROVE k \notin DOMAIN Z[j].fib
    BY <1>2, <1>7, <2>1, <2>2 DEF Kept
  <2> QED
    BY <1>3, <2>1, <2>2 DEF Finally
<1> QED
  BY <1>4, <1>5, <1>6, <1>7 DEF Z

----------------------------------------------------------------------------
(* Names below the name of a batch                                         *)

\* The cost of the next hop that name n should inherit on face f, 0 for none.
Want(R, n, f) == IF isIn(R, n) /\ ~hasCapture(R[n]) THEN Val(R, n, f) ELSE 0

\* What the computation S for a batch that turns R into t does to the next hop of n on f.
\* A next hop for a route of n is set to its cost, removed, or left if it has not changed;
\* another one is set to what n should inherit, removed if n inherits none, or left if
\* that has not changed.
KeyMoves(R, t, S, n, f) ==
  LET k == <<n, f>>
      own(Q) == f \in DOMAIN Q[n].routes
  IN  IF own(t)
        THEN \/ Kept(S, k) /\ own(R) /\ R[n].routes[f].cost = t[n].routes[f].cost
             \/ Finally(S, k, AddNextHop(t[n].routes[f].cost))
             \/ Finally(S, k, RemoveNextHop)
        ELSE \/ Kept(S, k) /\ ~own(R) /\ Want(R, n, f) = Want(t, n, f) /\ ~Removed(S, k)
             \/ Want(t, n, f) # 0 /\ Finally(S, k, AddNextHop(Want(t, n, f))) /\ Added(S, k)
             \/ Want(t, n, f) = 0 /\ Finally(S, k, RemoveNextHop)

\* For names other than m, S does what the stage M does.
ChildOf(S, m, M) ==
  \A d \in Names \ {m}, f \in Faces :
    LET k == <<d, f>>
    IN  /\ Kept(S, k) <=> k \notin DOMAIN M.fib
        /\ k \in DOMAIN M.fib => Finally(S, k, M.fib[k])
        /\ Removed(S, k) <=> k \in M.rem
        /\ Added(S, k) <=> k \in M.add

\* The routes that the children are given and lose are those that m begins and ceases to
\* pass on.
MapsOK(R, t, m, add, remove, f) ==
  /\ f \in DOMAIN add => add[f] = Through(t, m, f) /\ Through(t, m, f) # 0
  /\ f \notin DOMAIN add /\ f \in DOMAIN remove => Through(t, m, f) = 0
  /\ f \notin DOMAIN add /\ f \notin DOMAIN remove => Through(t, m, f) = Through(R, m, f)

\* A route of m that it goes on passing on, or a change that the children do not get.
Untouched(R, t, m, remove, S, d, f) ==
  /\ hasChildInheritOnFaceId(R[m], f) /\ Kept(S, <<d, f>>)
  /\ Through(t, m, f) = Through(R, m, f) \/ f \in DOMAIN remove

\* A name that should inherit a route has a record of it.
RecordKept(R, n, f) ==
  f \notin DOMAIN R[n].routes /\ Want(R, n, f) # 0 => R[n].inherited[f] > 0

\* The next hops of the names below m.
LEMMA ChildMoves ==
  ASSUME NEW R \in [Names -> Entry], \A x \in Names : Counted(R[x]),
         NEW t \in [Names -> Entry], \A x \in Names : Counted(t[x]),
         NEW m \in Names, \A x \in Names \ {m} : t[x] = R[x],
         NEW add, NEW remove, NEW S, ChildOf(S, m, modifyChildrensInheritedRoutes(R, m, add, remove)),
         NEW d \in Below[m], NEW f \in Faces, RecordKept(R, d, f),
         MapsOK(R, t, m, add, remove, f) \/ Untouched(R, t, m, remove, S, d, f)
  PROVE  KeyMoves(R, t, S, d, f)
<1> DEFINE M == modifyChildrensInheritedRoutes(R, m, add, remove)
           k == <<d, f>>
<1>1. /\ d \in Names /\ m \in Above[d] /\ Above[d] \subseteq Names /\ Below[m] \subseteq Names
      /\ m \notin Below[m]
  BY NameOrder
<1>2. t[d] = R[d] /\ \A e \in Below[m] : Same(R, t, e)
  BY <1>1 DEF Same
<1>3. ChildKey(R, m, add, remove, M, d, f)
  BY ChildStage, Zenon
<1>4. /\ Kept(S, k) <=> k \notin DOMAIN M.fib
      /\ k \in DOMAIN M.fib => Finally(S, k, M.fib[k])
      /\ Removed(S, k) <=> k \in M.rem
      /\ Added(S, k) <=> k \in M.add
  BY <1>1 DEF ChildOf
<1> HIDE DEF M
<1>5. /\ k \in M.add <=> /\ d \in EntriesBelow(R, m) /\ Reached(R, m, d, f)
                         /\ f \in DOMAIN add /\ f \notin DOMAIN R[d].routes
      /\ k \in M.rem <=> /\ d \in EntriesBelow(R, m) /\ Reached(R, m, d, f)
                         /\ f \in DOMAIN remove /\ R[d].inherited[f] > 0
      /\ k \in DOMAIN M.fib <=> k \in M.add \/ k \in M.rem
      /\ k \in M.add => M.fib[k] = AddNextHop(add[f])
      /\ k \in M.rem /\ k \notin M.add => M.fib[k] = RemoveNextHop
  BY <1>3 DEF ChildKey
<1>6. isIn(R, d) <=> d \in EntriesBelow(R, m)
  BY DEF EntriesBelow
<1>7. isIn(t, d) <=> isIn(R, d)
  BY <1>2 DEF isIn
<1>8. CASE f \in DOMAIN R[d].routes
  <2>1. Kept(S, k) \/ Finally(S, k, RemoveNextHop)
    BY <1>4, <1>5, <1>8
  <2> QED
    BY <1>2, <1>8, <2>1 DEF KeyMoves
<1>9. CASE f \notin DOMAIN R[d].routes /\ (~isIn(R, d) \/ hasCapture(R[d]))
  <2>1. Want(R, d, f) = 0 /\ Want(t, d, f) = 0
    BY <1>2, <1>7, <1>9 DEF Want
  <2>2. ~(d \in EntriesBelow(R, m) /\ Reached(R, m, d, f))
    BY <1>6, <1>9 DEF Reached
  <2>3. Kept(S, k) /\ ~Removed(S, k)
    BY <1>4, <1>5, <2>2
  <2> QED
    BY <1>2, <1>9, <2>1, <2>3 DEF KeyMoves
<1>10. CASE f \notin DOMAIN R[d].routes /\ isIn(R, d) /\ ~hasCapture(R[d])
  <2>1. Reached(R, m, d, f) <=> Clear(R, m, d, f)
    <3>1. ~hasChildInheritOnFaceId(R[d], f)
      BY <1>10 DEF hasChildInheritOnFaceId
    <3>2. \A e \in Names : (hasCapture(R[e]) \/ hasChildInheritOnFaceId(R[e], f)) => isIn(R, e)
      BY CountedFacts DEF isIn, hasChildInheritOnFaceId
    <3>3. \A e \in EntriesBelow(R, m) : e \in Below[m]
      BY DEF EntriesBelow
    <3>4. \A e \in Below[m] : isIn(R, e) => e \in EntriesBelow(R, m)
      BY DEF EntriesBelow
    <3> QED
      BY <1>1, <1>10, <3>1, <3>2, <3>3, <3>4 DEF Reached, Clear
  <2>2. Want(R, d, f) = Val(R, d, f) /\ Want(t, d, f) = Val(t, d, f)
    BY <1>2, <1>7, <1>10 DEF Want
  <2>3. f \notin DOMAIN t[d].routes
    BY <1>2, <1>10
  <2>4. CASE ~Clear(R, m, d, f)
    <3>1. Val(R, d, f) = Val(t, d, f)
      BY <1>2, <2>4, ValBlocked
    <3>2. Kept(S, k) /\ ~Removed(S, k)
      BY <1>4, <1>5, <2>1, <2>4
    <3> QED
      BY <1>10, <2>2, <2>3, <3>1, <3>2 DEF KeyMoves
  <2>5. CASE Clear(R, m, d, f)
    <3>1. Clear(t, m, d, f)
      BY <1>2, <2>5 DEF Clear, Same, hasCapture, hasChildInheritOnFaceId
    <3>2. Val(R, d, f) = Through(R, m, f) /\ Val(t, d, f) = Through(t, m, f)
      BY <2>5, <3>1, ValThrough
    <3>3. Through(R, m, f) # 0 => R[d].inherited[f] > 0
      BY <1>10, <2>2, <3>2 DEF RecordKept
    <3>4. CASE Untouched(R, t, m, remove, S, d, f)
      <4>1. Through(R, m, f) # 0
        <5>1. f \in DOMAIN R[m].routes /\ Through(R, m, f) = R[m].routes[f].cost
          BY <3>4 DEF Untouched, Through, hasChildInheritOnFaceId
        <5>2. R[m].routes[f] \in Route
          BY <5>1, EntryFields
        <5> QED
          BY <5>1, <5>2 DEF Route
      <4>2. Kept(S, k)
        BY <3>4 DEF Untouched
      <4>3. ~Removed(S, k)
        BY <1>4, <1>5, <4>2
      <4>4. f \notin DOMAIN remove
        BY <1>4, <1>5, <1>6, <1>10, <2>1, <2>5, <3>3, <4>1, <4>3
      <4>5. Through(t, m, f) = Through(R, m, f)
        BY <3>4, <4>4 DEF Untouched
      <4> QED
        BY <1>10, <2>2, <2>3, <3>2, <4>2, <4>3, <4>5 DEF KeyMoves
    <3>5. CASE MapsOK(R, t, m, add, remove, f)
      <4>1. CASE f \in DOMAIN add
        <5>1. k \in M.add /\ Added(S, k) /\ Finally(S, k, AddNextHop(add[f]))
          BY <1>4, <1>5, <1>6, <1>10, <2>1, <2>5, <4>1
        <5>2. add[f] = Want(t, d, f) /\ Want(t, d, f) # 0
          BY <2>2, <3>2, <3>5, <4>1 DEF MapsOK
        <5> QED
          BY <2>3, <5>1, <5>2 DEF KeyMoves
      <4>2. CASE f \notin DOMAIN add /\ f \in DOMAIN remove
        <5>1. Want(t, d, f) = 0
          BY <2>2, <3>2, <3>5, <4>2 DEF MapsOK
        <5>2. CASE R[d].inherited[f] > 0
          <6>1. Finally(S, k, RemoveNextHop)
            BY <1>4, <1>5, <1>6, <1>10, <2>1, <2>5, <4>2, <5>2
          <6> QED
            BY <2>3, <5>1, <6>1 DEF KeyMoves
        <5>3. CASE ~(R[d].inherited[f] > 0)
          <6>1. Kept(S, k) /\ ~Removed(S, k)
            BY <1>4, <1>5, <4>2, <5>3
          <6>2. Want(R, d, f) = 0
            BY <2>2, <3>2, <3>3, <5>3
          <6> QED
            BY <1>10, <2>3, <5>1, <6>1, <6>2 DEF KeyMoves
        <5> QED
          BY <5>2, <5>3
      <4>3. CASE f \notin DOMAIN add /\ f \notin DOMAIN remove
        <5>1. Kept(S, k) /\ ~Removed(S, k)
          BY <1>4, <1>5, <4>3
        <5>2. Want(t, d, f) = Want(R, d, f)
          BY <2>2, <3>2, <3>5, <4>3 DEF MapsOK
        <5> QED
          BY <1>10, <2>3, <5>1, <5>2 DEF KeyMoves
      <4> QED
        BY <4>1, <4>2, <4>3
    <3> QED
      BY <3>4, <3>5
  <2> QED
    BY <2>4, <2>5
<1> QED
  BY <1>8, <1>9, <1>10

\* A stage that sets and records only what belongs to m.
AtName(s, m) == \A k \in DOMAIN s.fib \union s.rem \union s.add : k[1] = m

\* A computation with one stage for the children.
LEMMA OneChildStage ==
  ASSUME NEW S \in Seq(StageType), NEW m, NEW i \in DOMAIN S,
         \A j \in DOMAIN S \ {i} : AtName(S[j], m)
  PROVE  ChildOf(S, m, S[i])
<1> SUFFICES ASSUME NEW d \in Names \ {m}, NEW f \in Faces
             PROVE  LET k == <<d, f>>
                    IN  /\ Kept(S, k) <=> k \notin DOMAIN S[i].fib
                        /\ k \in DOMAIN S[i].fib => Finally(S, k, S[i].fib[k])
                        /\ Removed(S, k) <=> k \in S[i].rem
                        /\ Added(S, k) <=> k \in S[i].add
  BY DEF ChildOf
<1> DEFINE k == <<d, f>>
<1>1. \A j \in DOMAIN S \ {i} : k \notin DOMAIN S[j].fib /\ k \notin S[j].rem /\ k \notin S[j].add
  BY DEF AtName
<1>2. DOMAIN S \subseteq Nat
  OBVIOUS
<1> HIDE DEF k
<1>3. Kept(S, k) <=> k \notin DOMAIN S[i].fib
  BY <1>1 DEF Kept
<1>4. k \in DOMAIN S[i].fib => Finally(S, k, S[i].fib[k])
  BY <1>1, <1>2 DEF Finally
<1>5. (Removed(S, k) <=> k \in S[i].rem) /\ (Added(S, k) <=> k \in S[i].add)
  BY <1>1 DEF Removed, Added
<1> QED
  BY <1>3, <1>4, <1>5 DEF k

\* A computation without one.
LEMMA NoChildStage ==
  ASSUME NEW S \in Seq(StageType), NEW m \in Names, \A j \in DOMAIN S : AtName(S[j], m), NEW R
  PROVE  ChildOf(S, m, modifyChildrensInheritedRoutes(R, m, <<>>, <<>>))
<1> DEFINE M == modifyChildrensInheritedRoutes(R, m, <<>>, <<>>)
<1>1. DOMAIN M.fib = {} /\ M.rem = {} /\ M.add = {}
  <2>1. ChildSets(m, <<>>, <<>>, M)
    BY ChildStage, Zenon
  <2>2. DOMAIN <<>> = {}
    OBVIOUS
  <2> HIDE DEF M
  <2> QED
    BY <2>1, <2>2 DEF ChildSets
<1> HIDE DEF M
<1>2. ASSUME NEW d \in Names \ {m}, NEW f \in Faces
      PROVE  Kept(S, <<d, f>>) /\ ~Removed(S, <<d, f>>) /\ ~Added(S, <<d, f>>)
  BY DEF AtName, Kept, Removed, Added
<1>3. ChildOf(S, m, M)
  BY <1>1, <1>2 DEF ChildOf
<1> QED
  BY <1>3 DEF M

\* The stages for the name itself.
LEMMA OwnAtName ==
  ASSUME NEW R, NEW n, NEW f, NEW u, NEW C
  PROVE  /\ AtName(setNextHop(n, f, u), n) /\ AtName(addInheritedRoutes(n, C), n)
         /\ AtName(removeInheritedRoutes(R, n, C), n)
<1>1. AtName(setNextHop(n, f, u), n)
  BY DEF AtName, setNextHop, Stage
<1>2. AtName(addInheritedRoutes(n, C), n)
  BY DEF AtName, addInheritedRoutes, Stage
<1>3. AtName(removeInheritedRoutes(R, n, C), n)
  BY DEF AtName, removeInheritedRoutes, Stage
<1> QED
  BY <1>1, <1>2, <1>3
\* Maps from faces to costs, at one face.
IfAt(c, C, f) ==
  (f \in DOMAIN If(c, C) <=> c /\ f \in DOMAIN C) /\ (f \in DOMAIN If(c, C) => If(c, C)[f] = C[f])
OnlyAt(C, S, f) ==
  /\ f \in DOMAIN Only(C, S) <=> f \in DOMAIN C /\ f \in S
  /\ f \in DOMAIN Only(C, S) => Only(C, S)[f] = C[f]
JustAt(g, r, f) == (f \in DOMAIN Just(g, r) <=> f = g) /\ (f = g => Just(g, r)[f] = r.cost)
OverAt(C, D, f) ==
  /\ f \in DOMAIN Over(C, D) <=> f \in DOMAIN C \/ f \in DOMAIN D
  /\ f \in DOMAIN C => Over(C, D)[f] = C[f]
  /\ f \notin DOMAIN C /\ f \in DOMAIN D => Over(C, D)[f] = D[f]

\* The sets of routes, face by face.
LEMMA RouteMaps ==
  /\ \A c \in BOOLEAN : \A C, f : IfAt(c, C, f)
  /\ \A C, S, f : OnlyAt(C, S, f)
  /\ \A g, r, f : JustAt(g, r, f)
  /\ \A C, D, f : OverAt(C, D, f)
<1>1. ASSUME NEW c \in BOOLEAN, NEW C, NEW f PROVE IfAt(c, C, f)
  <2>1. DOMAIN <<>> = {}
    OBVIOUS
  <2> QED
    BY <2>1 DEF IfAt, If
<1>2. ASSUME NEW C, NEW S, NEW f PROVE OnlyAt(C, S, f)
  BY DEF OnlyAt, Only
<1>3. ASSUME NEW g, NEW r, NEW f PROVE JustAt(g, r, f)
  BY DEF JustAt, Just
<1>4. ASSUME NEW C, NEW D, NEW f PROVE OverAt(C, D, f)
  BY DEF OverAt, Over
<1> QED
  BY <1>1, <1>2, <1>3, <1>4, Zenon

----------------------------------------------------------------------------
(* The next hops and records of the name of a batch                        *)

\* What the stages for the name n do on face f.
SetKey(n, g, u, f) ==
  LET s == setNextHop(n, g, u)
      k == <<n, f>>
  IN  (k \in DOMAIN s.fib <=> f = g) /\ (f = g => s.fib[k] = u) /\ k \notin s.rem /\ k \notin s.add
AddKey(n, C, f) ==
  LET s == addInheritedRoutes(n, C)
      k == <<n, f>>
  IN  /\ k \in DOMAIN s.fib <=> f \in DOMAIN C
      /\ f \in DOMAIN C => s.fib[k] = AddNextHop(C[f])
      /\ k \notin s.rem /\ (k \in s.add <=> f \in DOMAIN C)
RemKey(R, n, C, f) ==
  LET s == removeInheritedRoutes(R, n, C)
      k == <<n, f>>
      removed == f \in DOMAIN C /\ R[n].inherited[f] > 0
  IN  /\ k \in DOMAIN s.fib <=> removed
      /\ removed => s.fib[k] = RemoveNextHop
      /\ (k \in s.rem <=> removed) /\ k \notin s.add
NoKey(M, m, f) == <<m, f>> \notin DOMAIN M.fib /\ <<m, f>> \notin M.rem /\ <<m, f>> \notin M.add

\* The stages for the name itself do what they say on every face.
LEMMA OwnKeys ==
  ASSUME NEW n
  PROVE  /\ \A g, u, f : SetKey(n, g, u, f)
         /\ \A C, f : AddKey(n, C, f)
         /\ \A R, C, f : RemKey(R, n, C, f)
<1>1. ASSUME NEW g, NEW u, NEW f PROVE SetKey(n, g, u, f)
  BY DEF SetKey, setNextHop, Stage
<1>2. ASSUME NEW C, NEW f PROVE AddKey(n, C, f)
  BY DEF AddKey, addInheritedRoutes, Stage
<1>3. ASSUME NEW R, NEW C, NEW f PROVE RemKey(R, n, C, f)
  BY DEF RemKey, removeInheritedRoutes, Stage
<1> QED
  BY <1>1, <1>2, <1>3

\* The stage for the children leaves the name itself alone.
LEMMA ChildNoKey ==
  ASSUME NEW R, NEW m \in Names, NEW add, NEW remove, NEW f
  PROVE  NoKey(modifyChildrensInheritedRoutes(R, m, add, remove), m, f)
<1> DEFINE M == modifyChildrensInheritedRoutes(R, m, add, remove)
<1>1. ChildSets(m, add, remove, M)
  BY ChildStage, Zenon
<1>2. m \notin Below[m]
  BY NameOrder
<1> HIDE DEF M
<1>3. NoKey(M, m, f)
  BY <1>1, <1>2 DEF ChildSets, NoKey
<1> QED
  BY <1>3 DEF M

\* What a computation does, for all next hops: with the routes that the stage for the
\* children adds and removes.
Moved(b, S, add, remove) ==
  LET m == b.name
      t == Result(b)
  IN  /\ ChildOf(S, m, modifyChildrensInheritedRoutes(rib, m, add, remove))
      /\ \A f \in Faces : \/ MapsOK(rib, t, m, add, remove, f)
                          \/ \A d \in Below[m] : Untouched(rib, t, m, remove, S, d, f)
      /\ \A f \in Faces : KeyMoves(rib, t, S, m, f)

\* Costs and what the name of the batch inherits.
LEMMA ResultVal ==
  ASSUME rib \in [Names -> Entry], \A x \in Names : Counted(rib[x]), NEW b \in Update, ~flagged(b)
  PROVE  /\ \A x \in Names : Counted(Result(b)[x])
         /\ \A f : Val(Result(b), b.name, f) = Val(rib, b.name, f)
         /\ \A f : LET A == getAncestorRoutes(rib, b.name)
                   IN  /\ f \in DOMAIN A <=> Val(rib, b.name, f) # 0
                       /\ f \in DOMAIN A => A[f] = Val(rib, b.name, f)
<1>1. b.name \in Names /\ Result(b) \in [Names -> Entry]
      /\ \A x \in Names \ {b.name} : Result(b)[x] = rib[x]
  BY UpdateFields, ResultType
<1>2. \A x \in Names : Counted(Result(b)[x])
  BY ResultCounted
<1>3. \A a \in Above[b.name] : Same(rib, Result(b), a)
  BY <1>1, NameOrder DEF Same
<1>4. ASSUME NEW f PROVE Val(Result(b), b.name, f) = Val(rib, b.name, f)
  BY <1>1, <1>2, <1>3, ValSame
<1>5. ASSUME NEW f
      PROVE  LET A == getAncestorRoutes(rib, b.name)
             IN  /\ f \in DOMAIN A <=> Val(rib, b.name, f) # 0
                 /\ f \in DOMAIN A => A[f] = Val(rib, b.name, f)
  <2>1. Inherits(rib, b.name, f)
    BY <1>1, ValIs
  <2> QED
    BY <2>1 DEF Inherits
<1> QED
  BY <1>2, <1>4, <1>5

\* The first route of a name.
LEMMA NewEntryMoved ==
  ASSUME rib \in [Names -> Entry], \A x \in Names : Counted(rib[x]), NEW b \in Update,
         b.action = "register", ~isIn(rib, b.name)
  PROVE  \E add, remove : Moved(b, computeUpdates(rib, b), add, remove)
<1> DEFINE m == b.name
           g == b.face
           r == b.route
           t == Result(b)
           S == computeUpdates(rib, b)
           A == getAncestorRoutes(rib, m)
           C == If(~r.capture, Only(A, Faces \ {g}))
           add == If(r.childInherit, Over(Just(g, r), If(~r.capture, A)))
           remove == If(r.capture, A)
           set == setNextHop(m, g, AddNextHop(r.cost))
           own == addInheritedRoutes(m, C)
           M == modifyChildrensInheritedRoutes(rib, m, add, remove)
<1>1. S = <<set, own, M>>
  BY Zenon DEF computeUpdates, computeUpdatesForRegistration, createFibUpdatesForNewRibEntry
<1>2. /\ m \in Names /\ g \in Faces /\ r \in Route /\ S \in Seq(StageType)
      /\ r.cost \in Nat \ {0} /\ r.capture \in BOOLEAN /\ r.childInherit \in BOOLEAN
  BY UpdateFields, ComputeUpdatesType DEF Route
<1>3. ~flagged(b) /\ DOMAIN rib[m].routes = {}
  BY DEF flagged, isIn
<1>4. /\ \A x \in Names : Counted(t[x])
      /\ \A f : Val(t, m, f) = Val(rib, m, f)
      /\ \A f : (f \in DOMAIN A <=> Val(rib, m, f) # 0) /\ (f \in DOMAIN A => A[f] = Val(rib, m, f))
  BY <1>3, ResultVal
<1>5. DOMAIN t[m].routes = {g} /\ t[m].routes[g] = r
  BY <1>3, ResultType
<1>6. /\ ~hasCapture(rib[m]) /\ (hasCapture(t[m]) <=> r.capture) /\ isIn(t, m)
      /\ \A f : ~hasChildInheritOnFaceId(rib[m], f)
      /\ \A f : hasChildInheritOnFaceId(t[m], f) <=> f = g /\ r.childInherit
  <2>1. hasCapture(t[m]) <=> \E f \in DOMAIN t[m].routes : t[m].routes[f].capture
    BY <1>2, <1>4, CountedFacts
  <2> QED
    BY <1>2, <1>3, <1>5, <2>1, CountedFacts DEF hasChildInheritOnFaceId, isIn
<1>7. ASSUME NEW f
      PROVE  /\ f \in DOMAIN C <=> ~r.capture /\ f \in DOMAIN A /\ f \in Faces /\ f # g
             /\ f \in DOMAIN C => C[f] = A[f]
             /\ f \in DOMAIN add <=> r.childInherit /\ (f = g \/ (~r.capture /\ f \in DOMAIN A))
             /\ f \in DOMAIN add => add[f] = IF f = g THEN r.cost ELSE A[f]
             /\ f \in DOMAIN remove <=> r.capture /\ f \in DOMAIN A
  <2> DEFINE C1 == Only(A, Faces \ {g})
             J == Just(g, r)
             A1 == If(~r.capture, A)
             O == Over(J, A1)
  <2>1. /\ IfAt(~r.capture, C1, f) /\ OnlyAt(A, Faces \ {g}, f) /\ JustAt(g, r, f)
        /\ IfAt(~r.capture, A, f) /\ OverAt(J, A1, f) /\ IfAt(r.childInherit, O, f)
        /\ IfAt(r.capture, A, f)
    BY <1>2, RouteMaps
  <2>2. C = If(~r.capture, C1) /\ add = If(r.childInherit, O) /\ remove = If(r.capture, A)
    OBVIOUS
  <2> HIDE DEF A, C, add, remove
  <2> QED
    BY <2>1, <2>2 DEF IfAt, OnlyAt, JustAt, OverAt
<1> HIDE DEF A, C, add, remove, S, t
<1>8. ChildOf(S, m, M)
  <2>1. AtName(set, m) /\ AtName(own, m)
    BY OwnAtName
  <2>2. DOMAIN S = {1, 2, 3} /\ S[1] = set /\ S[2] = own /\ S[3] = M
    BY <1>1
  <2> HIDE DEF set, own, M
  <2> QED
    BY <1>2, <2>1, <2>2, OneChildStage
<1>9. ASSUME NEW f \in Faces PROVE MapsOK(rib, t, m, add, remove, f)
  <2>1. /\ Through(rib, m, f) = Val(rib, m, f)
        /\ Through(t, m, f) = IF f = g /\ r.childInherit THEN r.cost
                              ELSE IF r.capture THEN 0 ELSE Val(rib, m, f)
    BY <1>4, <1>5, <1>6 DEF Through
  <2> QED
    BY <1>2, <1>4, <1>7, <2>1 DEF MapsOK
<1>10. ASSUME NEW f \in Faces PROVE KeyMoves(rib, t, S, m, f)
  <2> DEFINE k == <<m, f>>
  <2>1. SetKey(m, g, AddNextHop(r.cost), f) /\ AddKey(m, C, f) /\ NoKey(M, m, f)
    BY <1>2, OwnKeys, ChildNoKey
  <2>2. /\ Want(rib, m, f) = 0
        /\ Want(t, m, f) = IF r.capture THEN 0 ELSE Val(rib, m, f)
    BY <1>4, <1>6 DEF Want
  <2> HIDE DEF set, own, M
  <2>3. ThreeStages(set, own, M, k) /\ S = <<set, own, M>>
    BY <1>1, OutcomeThree
  <2>4. CASE f = g
    <3>1. Finally(S, k, AddNextHop(r.cost))
      BY <1>7, <2>1, <2>3, <2>4 DEF SetKey, AddKey, NoKey, set, own, ThreeStages
    <3> QED
      BY <1>5, <2>4, <3>1 DEF KeyMoves
  <2>5. CASE f # g /\ f \in DOMAIN C
    <3>1. Finally(S, k, AddNextHop(C[f])) /\ Added(S, k)
      BY <2>1, <2>3, <2>5 DEF AddKey, NoKey, own, ThreeStages
    <3>2. C[f] = Want(t, m, f) /\ Want(t, m, f) # 0
      BY <1>4, <1>7, <2>2, <2>5
    <3> QED
      BY <1>5, <2>5, <3>1, <3>2 DEF KeyMoves
  <2>6. CASE f # g /\ f \notin DOMAIN C
    <3>1. Kept(S, k) /\ ~Removed(S, k)
      BY <2>1, <2>3, <2>6 DEF SetKey, AddKey, NoKey, set, own, ThreeStages
    <3>2. Want(t, m, f) = Want(rib, m, f)
      BY <1>4, <1>7, <2>2, <2>6
    <3> QED
      BY <1>3, <1>5, <2>6, <3>1, <3>2 DEF KeyMoves
  <2> QED
    BY <2>4, <2>5, <2>6
<1>11. Moved(b, S, add, remove)
  BY <1>8, <1>9, <1>10 DEF Moved, t
<1> QED
  BY <1>11 DEF S

\* The history of exposed updates: a batch without the mishap keeps the next hops that
\* its entry shields.
LEMMA Unexposed ==
  ASSUME NEW b \in Update, NEW S \in Seq(StageType), ~exposes(b, DOMAIN FibUpdates(S)),
         NEW d \in Below[b.name], NEW f \in Faces
  PROVE  /\ f # b.face /\ hasChildInheritOnFaceId(rib[b.name], f) => Kept(S, <<d, f>>)
         /\ (f = b.face /\ b.action = "register" /\ ~b.route.childInherit /\ hasCapture(rib[b.name])) =>
              Kept(S, <<d, f>>)
<1>1. b.name \in Names
  BY UpdateFields
<1>2. d # b.name
  BY <1>1, NameOrder
<1>3. Kept(S, <<d, f>>) <=> <<d, f>> \notin DOMAIN FibUpdates(S)
  BY FibUpdatesOf
<1> QED
  BY <1>2, <1>3 DEF exposes

\* A new route of a name that has one.
LEMMA NewRouteMoved ==
  ASSUME rib \in [Names -> Entry], \A x \in Names : Counted(rib[x]), NEW b \in Update,
         b.action = "register", isIn(rib, b.name), b.face \notin DOMAIN rib[b.name].routes,
         \A f \in Faces : RecordKept(rib, b.name, f),
         ~exposes(b, DOMAIN FibUpdates(computeUpdates(rib, b)))
  PROVE  \E add, remove : Moved(b, computeUpdates(rib, b), add, remove)
<1> DEFINE m == b.name
           g == b.face
           r == b.route
           t == Result(b)
           S == computeUpdates(rib, b)
           A == getAncestorRoutes(rib, m)
           on == ~hasCapture(rib[m]) /\ r.capture
           remove == If(on, A)
           add == If(r.childInherit, Just(g, r))
           rem == removeInheritedRoutes(rib, m, remove)
           set == setNextHop(m, g, AddNextHop(r.cost))
           M == modifyChildrensInheritedRoutes(rib, m, add, remove)
<1>1. S = <<rem, M, set>>
  BY Zenon DEF computeUpdates, computeUpdatesForRegistration, createFibUpdatesForNewRoute
<1>2. /\ m \in Names /\ g \in Faces /\ r \in Route /\ S \in Seq(StageType)
      /\ r.cost \in Nat \ {0} /\ r.capture \in BOOLEAN /\ r.childInherit \in BOOLEAN
  BY UpdateFields, ComputeUpdatesType DEF Route
<1>3. ~flagged(b) /\ on \in BOOLEAN
  BY DEF flagged
<1>4. /\ \A x \in Names : Counted(t[x])
      /\ \A f : Val(t, m, f) = Val(rib, m, f)
      /\ \A f : (f \in DOMAIN A <=> Val(rib, m, f) # 0) /\ (f \in DOMAIN A => A[f] = Val(rib, m, f))
  BY <1>3, ResultVal
<1>5. /\ DOMAIN t[m].routes = DOMAIN rib[m].routes \union {g} /\ t[m].routes[g] = r
      /\ \A f \in DOMAIN rib[m].routes : t[m].routes[f] = rib[m].routes[f]
  BY <1>3, ResultType
<1>6. /\ hasCapture(t[m]) <=> (hasCapture(rib[m]) \/ r.capture)
      /\ isIn(t, m)
      /\ \A f : hasChildInheritOnFaceId(t[m], f) <=>
                  (f = g /\ r.childInherit) \/ hasChildInheritOnFaceId(rib[m], f)
  <2>1. hasCapture(t[m]) <=> \E f \in DOMAIN t[m].routes : t[m].routes[f].capture
    BY <1>2, <1>4, CountedFacts
  <2>2. hasCapture(rib[m]) <=> \E f \in DOMAIN rib[m].routes : rib[m].routes[f].capture
    BY <1>2, CountedFacts
  <2> QED
    BY <1>2, <1>5, <2>1, <2>2 DEF hasChildInheritOnFaceId, isIn
<1>7. ASSUME NEW f
      PROVE  /\ f \in DOMAIN add <=> r.childInherit /\ f = g
             /\ f \in DOMAIN add => add[f] = r.cost
             /\ f \in DOMAIN remove <=> on /\ f \in DOMAIN A
  <2>1. /\ IfAt(r.childInherit, Just(g, r), f) /\ JustAt(g, r, f) /\ IfAt(on, A, f)
    BY <1>2, <1>3, RouteMaps
  <2>2. add = If(r.childInherit, Just(g, r)) /\ remove = If(on, A)
    OBVIOUS
  <2> HIDE DEF A, add, remove, on
  <2> QED
    BY <2>1, <2>2 DEF IfAt, JustAt
<1> HIDE DEF A, add, remove, S, t
<1>8. ChildOf(S, m, M)
  <2>1. AtName(set, m) /\ AtName(rem, m)
    BY OwnAtName
  <2>2. DOMAIN S = {1, 2, 3} /\ S[1] = rem /\ S[2] = M /\ S[3] = set
    BY <1>1
  <2> HIDE DEF set, rem, M
  <2> QED
    BY <1>2, <2>1, <2>2, OneChildStage
<1>9. ASSUME NEW f \in Faces
      PROVE  \/ MapsOK(rib, t, m, add, remove, f)
             \/ \A d \in Below[m] : Untouched(rib, t, m, remove, S, d, f)
  <2>1. CASE hasChildInheritOnFaceId(rib[m], f)
    <3>1. f # g
      BY <2>1 DEF hasChildInheritOnFaceId
    <3>2. Through(t, m, f) = Through(rib, m, f)
      BY <1>5, <1>6, <2>1 DEF Through, hasChildInheritOnFaceId
    <3>3. \A d \in Below[m] : Kept(S, <<d, f>>)
      BY <1>2, <2>1, <3>1, Unexposed DEF S
    <3> QED
      BY <2>1, <3>2, <3>3 DEF Untouched
  <2>2. CASE ~hasChildInheritOnFaceId(rib[m], f)
    <3>1. /\ Through(rib, m, f) = IF hasCapture(rib[m]) THEN 0 ELSE Val(rib, m, f)
          /\ Through(t, m, f) = IF f = g /\ r.childInherit THEN r.cost
                                ELSE IF hasCapture(t[m]) THEN 0 ELSE Val(rib, m, f)
      BY <1>4, <1>5, <1>6, <2>2 DEF Through
    <3> QED
      BY <1>2, <1>4, <1>6, <1>7, <3>1 DEF MapsOK
  <2> QED
    BY <2>1, <2>2
<1>10. ASSUME NEW f \in Faces PROVE KeyMoves(rib, t, S, m, f)
  <2> DEFINE k == <<m, f>>
  <2>1. SetKey(m, g, AddNextHop(r.cost), f) /\ RemKey(rib, m, remove, f) /\ NoKey(M, m, f)
    BY <1>2, OwnKeys, ChildNoKey
  <2>2. /\ Want(rib, m, f) = IF hasCapture(rib[m]) THEN 0 ELSE Val(rib, m, f)
        /\ Want(t, m, f) = IF hasCapture(t[m]) THEN 0 ELSE Val(rib, m, f)
    BY <1>4, <1>6 DEF Want
  <2>3. ThreeStages(rem, M, set, k) /\ S = <<rem, M, set>>
    BY <1>1, OutcomeThree
  <2> HIDE DEF set, rem, M
  <2>4. CASE f = g
    <3>1. Finally(S, k, AddNextHop(r.cost))
      BY <2>1, <2>3, <2>4 DEF SetKey, set, ThreeStages
    <3> QED
      BY <1>5, <2>4, <3>1 DEF KeyMoves
  <2>5. CASE f # g /\ f \in DOMAIN remove /\ rib[m].inherited[f] > 0
    <3>1. Finally(S, k, RemoveNextHop)
      BY <2>1, <2>3, <2>5 DEF SetKey, RemKey, NoKey, set, rem, ThreeStages
    <3>2. Want(t, m, f) = 0
      BY <1>6, <1>7, <2>2, <2>5
    <3> QED
      BY <3>1, <3>2 DEF KeyMoves
  <2>6. CASE f # g /\ ~(f \in DOMAIN remove /\ rib[m].inherited[f] > 0)
    <3>1. Kept(S, k) /\ ~Removed(S, k)
      BY <2>1, <2>3, <2>6 DEF SetKey, RemKey, NoKey, set, rem, ThreeStages
    <3>2. f \in DOMAIN rib[m].routes \/ Want(t, m, f) = Want(rib, m, f)
      BY <1>2, <1>4, <1>6, <1>7, <2>2, <2>6 DEF RecordKept
    <3> QED
      BY <1>5, <2>6, <3>1, <3>2 DEF KeyMoves
  <2> QED
    BY <2>4, <2>5, <2>6
<1>11. Moved(b, S, add, remove)
  BY <1>8, <1>9, <1>10 DEF Moved, t
<1> QED
  BY <1>11 DEF S

\* Stages of the name itself, before or after the one for the children.
LEMMA ChildTogether ==
  ASSUME NEW X \in Seq(StageType), NEW Y \in Seq(StageType), NEW m, NEW M
  PROVE  /\ (\A j \in DOMAIN X : AtName(X[j], m)) /\ ChildOf(Y, m, M) => ChildOf(X \o Y, m, M)
         /\ ChildOf(X, m, M) /\ (\A j \in DOMAIN Y : AtName(Y[j], m)) => ChildOf(X \o Y, m, M)
<1>1. ASSUME NEW Z, \A j \in DOMAIN Z : AtName(Z[j], m), NEW d \in Names \ {m}, NEW f \in Faces
      PROVE  Kept(Z, <<d, f>>) /\ ~Removed(Z, <<d, f>>) /\ ~Added(Z, <<d, f>>)
  BY <1>1 DEF AtName, Kept, Removed, Added
<1>2. ASSUME \A j \in DOMAIN X : AtName(X[j], m), ChildOf(Y, m, M)
      PROVE  ChildOf(X \o Y, m, M)
  <2> SUFFICES ASSUME NEW d \in Names \ {m}, NEW f \in Faces
               PROVE  LET k == <<d, f>>
                      IN  /\ Kept(X \o Y, k) <=> k \notin DOMAIN M.fib
                          /\ k \in DOMAIN M.fib => Finally(X \o Y, k, M.fib[k])
                          /\ Removed(X \o Y, k) <=> k \in M.rem
                          /\ Added(X \o Y, k) <=> k \in M.add
    BY DEF ChildOf
  <2> DEFINE k == <<d, f>>
             Z == X \o Y
  <2>1. Kept(X, k) /\ ~Removed(X, k) /\ ~Added(X, k)
    BY <1>1, <1>2
  <2>2. /\ Kept(Y, k) <=> k \notin DOMAIN M.fib
        /\ k \in DOMAIN M.fib => Finally(Y, k, M.fib[k])
        /\ Removed(Y, k) <=> k \in M.rem
        /\ Added(Y, k) <=> k \in M.add
    BY <1>2 DEF ChildOf
  <2>3. /\ Kept(Z, k) <=> Kept(X, k) /\ Kept(Y, k)
        /\ \A u : Finally(Y, k, u) => Finally(Z, k, u)
        /\ Removed(Z, k) <=> Removed(X, k) \/ Removed(Y, k)
        /\ Added(Z, k) <=> Added(X, k) \/ Added(Y, k)
    BY OutcomesTogether
  <2> HIDE DEF Z, k
  <2> QED
    BY <2>1, <2>2, <2>3 DEF Z, k
<1>3. ASSUME ChildOf(X, m, M), \A j \in DOMAIN Y : AtName(Y[j], m)
      PROVE  ChildOf(X \o Y, m, M)
  <2> SUFFICES ASSUME NEW d \in Names \ {m}, NEW f \in Faces
               PROVE  LET k == <<d, f>>
                      IN  /\ Kept(X \o Y, k) <=> k \notin DOMAIN M.fib
                          /\ k \in DOMAIN M.fib => Finally(X \o Y, k, M.fib[k])
                          /\ Removed(X \o Y, k) <=> k \in M.rem
                          /\ Added(X \o Y, k) <=> k \in M.add
    BY DEF ChildOf
  <2> DEFINE k == <<d, f>>
             Z == X \o Y
  <2>1. Kept(Y, k) /\ ~Removed(Y, k) /\ ~Added(Y, k)
    BY <1>1, <1>3
  <2>2. /\ Kept(X, k) <=> k \notin DOMAIN M.fib
        /\ k \in DOMAIN M.fib => Finally(X, k, M.fib[k])
        /\ Removed(X, k) <=> k \in M.rem
        /\ Added(X, k) <=> k \in M.add
    BY <1>3 DEF ChildOf
  <2>3. /\ Kept(Z, k) <=> Kept(X, k) /\ Kept(Y, k)
        /\ \A u : Finally(X, k, u) /\ Kept(Y, k) => Finally(Z, k, u)
        /\ Removed(Z, k) <=> Removed(X, k) \/ Removed(Y, k)
        /\ Added(Z, k) <=> Added(X, k) \/ Added(Y, k)
    BY OutcomesTogether
  <2> HIDE DEF Z, k
  <2> QED
    BY <2>1, <2>2, <2>3 DEF Z, k
<1> QED
  BY <1>2, <1>3

\* What a route that replaces another does to the next hops of its name and below.
UpdateMaps(b, add, remove) ==
  LET m == b.name
      f == b.face
      old == rib[m].routes[f]
      r == b.route
      A == getAncestorRoutes(rib, m)
  IN  \/ /\ r.childInherit /\ (~old.childInherit \/ r.cost # old.cost)
         /\ add = Just(f, r) /\ remove = <<>>
      \/ /\ old.childInherit /\ ~r.childInherit
         /\ add = Only(A, {f}) /\ remove = Just(f, r)
      \/ /\ old.childInherit = r.childInherit /\ (r.childInherit => r.cost = old.cost)
         /\ add = <<>> /\ remove = <<>>

\* The stages of its computation: X for the name itself, Y for its children.
UpdateShape(b, X, Y, add, remove) ==
  LET m == b.name
      f == b.face
      r == b.route
  IN  /\ X = IF r.cost = rib[m].routes[f].cost THEN <<>>
             ELSE <<setNextHop(m, f, AddNextHop(r.cost))>>
      /\ \/ Y = <<modifyChildrensInheritedRoutes(rib, m, add, remove)>>
         \/ Y = <<>> /\ add = <<>> /\ remove = <<>>

\* The computation for a route that is registered again, its capture flag unchanged.
LEMMA UpdatedStages ==
  ASSUME rib \in [Names -> Entry], NEW b \in Update, ~flagged(b),
         b.action = "register", b.face \in DOMAIN rib[b.name].routes
  PROVE  \E X, Y \in Seq(StageType) : \E add, remove :
           /\ UpdateMaps(b, add, remove) /\ UpdateShape(b, X, Y, add, remove)
           /\ computeUpdates(rib, b) = X \o Y
<1> DEFINE m == b.name
           g == b.face
           r == b.route
           old == rib[m].routes[g]
           A == getAncestorRoutes(rib, m)
           turnedOn == ~old.childInherit /\ r.childInherit
           turnedOff == old.childInherit /\ ~r.childInherit
           recosted == /\ r.cost # old.cost /\ r.childInherit /\ old.childInherit
                       /\ r.capture = old.capture
           X == IF r.cost = old.cost THEN <<>> ELSE <<setNextHop(m, g, AddNextHop(r.cost))>>
           Y == IF turnedOn \/ recosted
                  THEN <<modifyChildrensInheritedRoutes(rib, m, Just(g, r), <<>>)>>
                ELSE IF turnedOff
                  THEN <<modifyChildrensInheritedRoutes(rib, m, Only(A, {g}), Just(g, r))>>
                ELSE <<>>
           Z == IF ~old.capture /\ r.capture
                  THEN <<removeInheritedRoutes(rib, m, A),
                         modifyChildrensInheritedRoutes(rib, m, <<>>, A)>>
                ELSE IF old.capture /\ ~r.capture
                  THEN <<addInheritedRoutes(m, Only(A, Faces \ DOMAIN rib[m].routes)),
                         modifyChildrensInheritedRoutes(rib, m, A, <<>>)>>
                ELSE <<>>
<1>1. isIn(rib, m)
  BY DEF isIn
<1>2. computeUpdates(rib, b) = X \o Y \o Z
  BY <1>1, Zenon DEF computeUpdates, computeUpdatesForRegistration, createFibUpdatesForUpdatedRoute
<1>3. /\ m \in Names /\ g \in Faces /\ r \in Route /\ old \in Route
      /\ r.cost \in Nat \ {0} /\ r.capture \in BOOLEAN /\ r.childInherit \in BOOLEAN
      /\ old.capture \in BOOLEAN /\ old.childInherit \in BOOLEAN
  <2>1. m \in Names /\ g \in Faces /\ r \in Route
    BY UpdateFields
  <2>2. old \in Route
    BY <2>1, EntryFields
  <2> QED
    BY <2>1, <2>2 DEF Route
<1>4. Z = <<>>
  BY <1>3 DEF flagged
<1>5. X \in Seq(StageType) /\ Y \in Seq(StageType)
  <2>1. IsCostMap(A) /\ IsCostMap(Just(g, r)) /\ IsCostMap(<<>>) /\ IsCostMap(Only(A, {g}))
    BY <1>3, AncestorRoutesType, CostMaps
  <2>2. /\ setNextHop(m, g, AddNextHop(r.cost)) \in StageType
        /\ modifyChildrensInheritedRoutes(rib, m, Just(g, r), <<>>) \in StageType
        /\ modifyChildrensInheritedRoutes(rib, m, Only(A, {g}), Just(g, r)) \in StageType
    BY <1>3, <2>1, NextHopType, StagesType
  <2> QED
    BY <2>2, ShortSeqs
<1>6. computeUpdates(rib, b) = X \o Y
  <2> HIDE DEF X, Y, Z
  <2>1. X \o Y \in Seq(StageType)
    BY <1>5
  <2>2. X \o Y \o <<>> = X \o Y
    BY <2>1
  <2> QED
    BY <1>2, <1>4, <2>2
<1> HIDE DEF X
<1>7. CASE turnedOn \/ recosted
  <2>1. Y = <<modifyChildrensInheritedRoutes(rib, m, Just(g, r), <<>>)>>
    BY <1>7
  <2> HIDE DEF Y
  <2>2. UpdateMaps(b, Just(g, r), <<>>)
    BY <1>7 DEF UpdateMaps
  <2>3. UpdateShape(b, X, Y, Just(g, r), <<>>)
    BY <2>1 DEF UpdateShape, X
  <2> QED
    BY <1>5, <1>6, <2>2, <2>3
<1>8. CASE turnedOff
  <2>1. Y = <<modifyChildrensInheritedRoutes(rib, m, Only(A, {g}), Just(g, r))>>
    BY <1>8
  <2> HIDE DEF Y
  <2>2. UpdateMaps(b, Only(A, {g}), Just(g, r))
    BY <1>8 DEF UpdateMaps
  <2>3. UpdateShape(b, X, Y, Only(A, {g}), Just(g, r))
    BY <2>1 DEF UpdateShape, X
  <2> QED
    BY <1>5, <1>6, <2>2, <2>3
<1>9. CASE ~turnedOn /\ ~recosted /\ ~turnedOff
  <2>1. Y = <<>>
    BY <1>9
  <2> HIDE DEF Y
  <2>2. UpdateMaps(b, <<>>, <<>>)
    BY <1>3, <1>9 DEF UpdateMaps, flagged
  <2>3. UpdateShape(b, X, Y, <<>>, <<>>)
    BY <2>1 DEF UpdateShape, X
  <2> QED
    BY <1>5, <1>6, <2>2, <2>3
<1> QED
  BY <1>7, <1>8, <1>9

\* A route that replaces another of the same name and face, without a change of capture.
LEMMA UpdatedMoved ==
  ASSUME rib \in [Names -> Entry], \A x \in Names : Counted(rib[x]), NEW b \in Update, ~flagged(b),
         b.action = "register", b.face \in DOMAIN rib[b.name].routes,
         ~exposes(b, DOMAIN FibUpdates(computeUpdates(rib, b)))
  PROVE  \E add, remove : Moved(b, computeUpdates(rib, b), add, remove)
<1> DEFINE m == b.name
           g == b.face
           r == b.route
           old == rib[m].routes[g]
           t == Result(b)
           S == computeUpdates(rib, b)
           A == getAncestorRoutes(rib, m)
           set == setNextHop(m, g, AddNextHop(r.cost))
<1>1. PICK X, Y \in Seq(StageType) : \E add, remove :
           /\ UpdateMaps(b, add, remove) /\ UpdateShape(b, X, Y, add, remove)
           /\ S = X \o Y
  BY UpdatedStages
<1>2. PICK add, remove : /\ UpdateMaps(b, add, remove) /\ UpdateShape(b, X, Y, add, remove)
                         /\ S = X \o Y
  BY <1>1
<1> DEFINE M == modifyChildrensInheritedRoutes(rib, m, add, remove)
<1>3. /\ m \in Names /\ g \in Faces /\ r \in Route /\ S \in Seq(StageType)
      /\ r.cost \in Nat \ {0} /\ r.capture \in BOOLEAN /\ r.childInherit \in BOOLEAN
      /\ old.childInherit \in BOOLEAN
  <2>1. m \in Names /\ g \in Faces /\ r \in Route
    BY UpdateFields
  <2>2. old \in Route
    BY <2>1, EntryFields
  <2> QED
    BY <2>1, <2>2, ComputeUpdatesType DEF Route
<1>4. /\ \A x \in Names : Counted(t[x])
      /\ \A f : Val(t, m, f) = Val(rib, m, f)
      /\ \A f : (f \in DOMAIN A <=> Val(rib, m, f) # 0) /\ (f \in DOMAIN A => A[f] = Val(rib, m, f))
  BY ResultVal
<1>5. /\ DOMAIN t[m].routes = DOMAIN rib[m].routes /\ t[m].routes[g] = r
      /\ \A f \in DOMAIN rib[m].routes \ {g} : t[m].routes[f] = rib[m].routes[f]
      /\ t[m].nCapture = rib[m].nCapture
  <2>1. ResultEntry(b) /\ rib[m].nCapture \in Int
    BY <1>3, ResultType, EntryFields
  <2>2. t[m].nCapture = rib[m].nCapture
    BY <2>1 DEF ResultEntry
  <2>3. /\ DOMAIN t[m].routes = DOMAIN rib[m].routes \union {g} /\ t[m].routes[g] = r
        /\ \A f \in DOMAIN rib[m].routes \ {g} : t[m].routes[f] = rib[m].routes[f]
    BY ResultType
  <2>4. DOMAIN rib[m].routes \union {g} = DOMAIN rib[m].routes
    OBVIOUS
  <2> QED
    BY <2>2, <2>3, <2>4
<1>6. /\ hasCapture(t[m]) <=> hasCapture(rib[m])
      /\ isIn(t, m) /\ isIn(rib, m)
      /\ \A f \in Faces \ {g} : hasChildInheritOnFaceId(t[m], f) <=> hasChildInheritOnFaceId(rib[m], f)
      /\ hasChildInheritOnFaceId(t[m], g) <=> r.childInherit
      /\ hasChildInheritOnFaceId(rib[m], g) <=> old.childInherit
  BY <1>3, <1>5 DEF hasChildInheritOnFaceId, isIn, hasCapture
<1>7. ASSUME NEW f
      PROVE  /\ JustAt(g, r, f) /\ OnlyAt(A, {g}, f) /\ DOMAIN <<>> = {}
  BY RouteMaps
<1> HIDE DEF A, S, t
<1>8. ChildOf(S, m, M)
  <2>1. \A j \in DOMAIN X : AtName(X[j], m)
    <3>1. AtName(set, m)
      BY OwnAtName
    <3>2. X = <<>> \/ X = <<set>>
      BY <1>2 DEF UpdateShape
    <3> HIDE DEF set
    <3> QED
      BY <3>1, <3>2
  <2>2. ChildOf(Y, m, M)
    <3>1. CASE Y = <<M>>
      <4>1. DOMAIN Y = {1} /\ Y[1] = M
        BY <3>1
      <4> HIDE DEF M
      <4> QED
        BY <1>1, <4>1, OneChildStage
    <3>2. CASE Y = <<>> /\ add = <<>> /\ remove = <<>>
      <4>1. DOMAIN Y = {}
        BY <3>2
      <4>2. \A j \in DOMAIN Y : AtName(Y[j], m)
        BY <4>1
      <4> QED
        BY <1>1, <1>3, <3>2, <4>2, NoChildStage
    <3> QED
      BY <1>2, <3>1, <3>2 DEF UpdateShape
  <2> HIDE DEF M
  <2> QED
    BY <1>1, <1>2, <2>1, <2>2, ChildTogether
<1>9. ASSUME NEW f \in Faces
      PROVE  \/ MapsOK(rib, t, m, add, remove, f)
             \/ \A d \in Below[m] : Untouched(rib, t, m, remove, S, d, f)
  <2>1. CASE f # g
    <3>1. Through(t, m, f) = Through(rib, m, f)
      <4>1. hasChildInheritOnFaceId(rib[m], f) => t[m].routes[f].cost = rib[m].routes[f].cost
        BY <1>5, <2>1 DEF hasChildInheritOnFaceId
      <4> QED
        BY <1>4, <1>6, <2>1, <4>1 DEF Through
    <3>2. f \notin DOMAIN add /\ f \notin DOMAIN remove
      BY <1>2, <1>7, <2>1 DEF UpdateMaps, JustAt, OnlyAt, A
    <3> QED
      BY <3>1, <3>2 DEF MapsOK
  <2>2. CASE f = g /\ r.childInherit /\ add = Just(g, r)
    <3>1. Through(t, m, f) = r.cost
      BY <1>5, <1>6, <2>2 DEF Through
    <3> QED
      BY <1>3, <1>7, <2>2, <3>1 DEF MapsOK, JustAt
  <2>3. CASE /\ f = g /\ old.childInherit /\ ~r.childInherit
             /\ add = Only(A, {g}) /\ remove = Just(g, r) /\ ~hasCapture(rib[m])
    <3>1. Through(t, m, f) = Val(rib, m, f)
      BY <1>4, <1>6, <2>3 DEF Through
    <3> QED
      BY <1>4, <1>7, <2>3, <3>1 DEF MapsOK, JustAt, OnlyAt
  <2>4. CASE /\ f = g /\ old.childInherit /\ ~r.childInherit
             /\ add = Only(A, {g}) /\ remove = Just(g, r) /\ hasCapture(rib[m])
    <3>1. \A d \in Below[m] : Kept(S, <<d, f>>)
      BY <1>3, <2>4, Unexposed DEF S
    <3> QED
      BY <1>6, <1>7, <2>4, <3>1 DEF Untouched, JustAt
  <2>5. CASE /\ f = g /\ old.childInherit = r.childInherit /\ (r.childInherit => r.cost = old.cost)
             /\ add = <<>> /\ remove = <<>>
    <3>1. Through(t, m, f) = Through(rib, m, f)
      BY <1>4, <1>5, <1>6, <2>5 DEF Through
    <3> QED
      BY <1>7, <2>5, <3>1 DEF MapsOK
  <2> QED
    BY <1>2, <2>1, <2>2, <2>3, <2>4, <2>5 DEF UpdateMaps, A
<1>10. ASSUME NEW f \in Faces PROVE KeyMoves(rib, t, S, m, f)
  <2> DEFINE k == <<m, f>>
  <2>1. SetKey(m, g, AddNextHop(r.cost), f) /\ NoKey(M, m, f)
    BY <1>3, OwnKeys, ChildNoKey
  <2>2. Want(rib, m, f) = Want(t, m, f)
    BY <1>4, <1>6 DEF Want
  <2>3. Kept(Y, k) /\ ~Removed(Y, k)
    <3>1. CASE Y = <<M>>
      <4> HIDE DEF M
      <4> QED
        BY <2>1, <3>1, OutcomeOne DEF NoKey
    <3>2. CASE Y = <<>>
      BY <3>2, OutcomeNone
    <3> QED
      BY <1>2, <3>1, <3>2 DEF UpdateShape
  <2>4. CASE f = g /\ r.cost # old.cost
    <3>1. X = <<set>>
      BY <1>2, <2>4 DEF UpdateShape
    <3>2. Finally(X, k, AddNextHop(r.cost))
      BY <2>1, <2>4, <3>1, OutcomeOne DEF SetKey
    <3>3. Finally(S, k, AddNextHop(r.cost))
      BY <1>1, <1>2, <2>3, <3>2, OutcomesTogether
    <3> QED
      BY <1>5, <2>4, <3>3 DEF KeyMoves
  <2>5. CASE f # g \/ r.cost = old.cost
    <3>1. Kept(X, k) /\ ~Removed(X, k)
      <4>1. CASE X = <<>>
        BY <4>1, OutcomeNone
      <4>2. CASE X = <<set>> /\ f # g
        <5>1. k \notin DOMAIN set.fib /\ k \notin set.rem
          BY <2>1, <4>2 DEF SetKey
        <5> HIDE DEF set
        <5> QED
          BY <4>2, <5>1, OutcomeOne
      <4> QED
        BY <1>2, <2>5, <4>1, <4>2 DEF UpdateShape
    <3>2. Kept(S, k) /\ ~Removed(S, k)
      BY <1>1, <1>2, <2>3, <3>1, OutcomesTogether
    <3> QED
      BY <1>5, <2>2, <2>5, <3>2 DEF KeyMoves
  <2> QED
    BY <2>4, <2>5
<1>11. Moved(b, S, add, remove)
  BY <1>8, <1>9, <1>10 DEF Moved, t
<1> QED
  BY <1>11 DEF S

\* The stage for an entry that is removed, on face f.
GoneKey(R, n, s, f) ==
  /\ <<n, f>> \in DOMAIN s.fib <=> f \in Faces /\ R[n].inherited[f] > 0
  /\ <<n, f>> \in DOMAIN s.fib => s.fib[<<n, f>>] = RemoveNextHop
  /\ s.rem = {} /\ s.add = {}

\* The stage for an entry that is removed takes away every inherited next hop.
LEMMA GoneStage ==
  ASSUME NEW R, NEW n, NEW s,
         s = Stage([k \in {n} \X {f \in Faces : R[n].inherited[f] > 0} |-> RemoveNextHop], {}, {})
  PROVE  AtName(s, n) /\ \A f : GoneKey(R, n, s, f)
<1>1. ASSUME NEW f PROVE GoneKey(R, n, s, f)
  BY DEF GoneKey, Stage
<1>2. AtName(s, n)
  BY DEF AtName, Stage
<1> QED
  BY <1>1, <1>2

\* The computation for a route that is erased.  What the children are given and lose, and
\* what the name itself is given back.
EraseAdd(b) ==
  LET old == rib[b.name].routes[b.face]
      temp == eraseRoute(rib[b.name], b.face)
      A == getAncestorRoutes(rib, b.name)
      off == hasCapture(rib[b.name]) /\ ~hasCapture(temp)
  IN  IF old.capture THEN If(old.capture /\ off, A)
                     ELSE If(old.childInherit /\ ~hasCapture(temp), A)
EraseRemove(b) ==
  LET old == rib[b.name].routes[b.face] IN If(old.childInherit, Just(b.face, old))
EraseOwn(b) ==
  LET old == rib[b.name].routes[b.face]
      temp == eraseRoute(rib[b.name], b.face)
      off == hasCapture(rib[b.name]) /\ ~hasCapture(temp)
  IN  Only(If(old.capture /\ off, getAncestorRoutes(rib, b.name)), Faces \ DOMAIN temp.routes)
EraseLast(b) ==
  LET temp == eraseRoute(rib[b.name], b.face)
  IN  If(~hasCapture(temp) /\ temp.routes # <<>>, Only(getAncestorRoutes(rib, b.name), {b.face}))

\* In terms of the entry before and after.
EraseMaps(b, f) ==
  LET m == b.name
      g == b.face
      old == rib[m].routes[g]
      A == getAncestorRoutes(rib, m)
      t == Result(b)
      given == ~hasCapture(t[m]) /\ f \in DOMAIN A
  IN  /\ f \in DOMAIN EraseAdd(b) <=> given /\ (old.capture \/ old.childInherit)
      /\ f \in DOMAIN EraseAdd(b) => EraseAdd(b)[f] = A[f]
      /\ f \in DOMAIN EraseRemove(b) <=> old.childInherit /\ f = g
      /\ f \in DOMAIN EraseOwn(b) <=> /\ given /\ old.capture
                                      /\ f \in Faces /\ f \notin DOMAIN t[m].routes
      /\ f \in DOMAIN EraseOwn(b) => EraseOwn(b)[f] = A[f]
      /\ f \in DOMAIN EraseLast(b) <=> given /\ isIn(t, m) /\ f = g
      /\ f \in DOMAIN EraseLast(b) => EraseLast(b)[f] = A[f]

\* The entry of the batch after it.
EraseEntry(b) ==
  LET m == b.name
      g == b.face
      old == rib[m].routes[g]
      t == Result(b)
  IN  /\ old \in Route /\ old.capture \in BOOLEAN /\ old.childInherit \in BOOLEAN
      /\ hasCapture(eraseRoute(rib[m], g)) <=> hasCapture(t[m])
      /\ old.capture => hasCapture(rib[m])
      /\ ~old.capture => (hasCapture(t[m]) <=> hasCapture(rib[m]))
      /\ DOMAIN t[m].routes = DOMAIN rib[m].routes \ {g}
      /\ DOMAIN eraseRoute(rib[m], g).routes = DOMAIN rib[m].routes \ {g}
      /\ eraseRoute(rib[m], g).routes = <<>> <=> ~isIn(t, m)
      /\ isIn(t, m) <=> DOMAIN rib[m].routes # {g}
      /\ \A f \in DOMAIN t[m].routes : t[m].routes[f] = rib[m].routes[f]
      /\ \A f : hasChildInheritOnFaceId(t[m], f) <=> f # g /\ hasChildInheritOnFaceId(rib[m], f)

\* The entry after the erasure of one of its routes.
LEMMA EraseResult ==
  ASSUME rib \in [Names -> Entry], \A x \in Names : Counted(rib[x]), NEW b \in Update,
         b.action # "register", b.face \in DOMAIN rib[b.name].routes
  PROVE  EraseEntry(b)
<1> DEFINE m == b.name
           g == b.face
           old == rib[m].routes[g]
           t == Result(b)
           temp == eraseRoute(rib[m], g)
<1>1. m \in Names /\ g \in Faces /\ rib[m] \in Entry /\ ~flagged(b)
  BY UpdateFields DEF flagged
<1>2. old \in Route /\ old.capture \in BOOLEAN /\ old.childInherit \in BOOLEAN
  <2>1. old \in Route
    BY <1>1, EntryFields
  <2> QED
    BY <2>1 DEF Route
<1>3. /\ Counted(temp) /\ Capturing(temp) = Capturing(rib[m]) \ {g} /\ temp \in Entry
      /\ temp.routes = [h \in DOMAIN rib[m].routes \ {g} |-> rib[m].routes[h]]
  BY <1>1, EraseCounted, EraseRouteType
<1>4. /\ DOMAIN t[m].routes = DOMAIN rib[m].routes \ {g} /\ Counted(t[m])
      /\ \A f \in DOMAIN t[m].routes : t[m].routes[f] = rib[m].routes[f]
  BY <1>1, ResultType, ResultCounted
<1> HIDE DEF temp, t
<1>5. /\ DOMAIN temp.routes = DOMAIN rib[m].routes \ {g}
      /\ \A f \in DOMAIN temp.routes : temp.routes[f] = rib[m].routes[f]
  BY <1>3
<1>6. /\ hasCapture(temp) <=> \E f \in DOMAIN temp.routes : temp.routes[f].capture
      /\ hasCapture(t[m]) <=> \E f \in DOMAIN t[m].routes : t[m].routes[f].capture
      /\ hasCapture(rib[m]) <=> \E f \in DOMAIN rib[m].routes : rib[m].routes[f].capture
  BY <1>1, <1>3, <1>4, CountedFacts
<1>7. hasCapture(temp) <=> hasCapture(t[m])
  BY <1>4, <1>5, <1>6
<1>8. /\ old.capture => hasCapture(rib[m])
      /\ ~old.capture => (hasCapture(t[m]) <=> hasCapture(rib[m]))
  BY <1>4, <1>6
<1>9. temp.routes = <<>> <=> ~isIn(t, m)
  <2>1. temp.routes = <<>> => DOMAIN temp.routes = {}
    OBVIOUS
  <2>2. DOMAIN temp.routes = {} => temp.routes = <<>>
    BY <1>3, <1>5
  <2> QED
    BY <1>4, <1>5, <2>1, <2>2 DEF isIn
<1>10. isIn(t, m) <=> DOMAIN rib[m].routes # {g}
  BY <1>4 DEF isIn
<1>11. \A f : hasChildInheritOnFaceId(t[m], f) <=> f # g /\ hasChildInheritOnFaceId(rib[m], f)
  BY <1>4 DEF hasChildInheritOnFaceId
<1> QED
  BY <1>2, <1>4, <1>5, <1>7, <1>8, <1>9, <1>10, <1>11 DEF EraseEntry, temp, t

\* What the computation for an erased route gives and takes, face by face.
LEMMA EraseMapsHold ==
  ASSUME NEW b \in Update, EraseEntry(b), NEW f
  PROVE  EraseMaps(b, f)
<1> DEFINE m == b.name
           g == b.face
           old == rib[m].routes[g]
           t == Result(b)
           temp == eraseRoute(rib[m], g)
           A == getAncestorRoutes(rib, m)
           off == hasCapture(rib[m]) /\ ~hasCapture(temp)
           c1 == old.capture /\ off
           c2 == old.childInherit /\ ~hasCapture(temp)
           c3 == ~hasCapture(temp) /\ temp.routes # <<>>
<1>1. c1 \in BOOLEAN /\ c2 \in BOOLEAN /\ c3 \in BOOLEAN /\ old.childInherit \in BOOLEAN
  BY DEF EraseEntry
<1>2. /\ IfAt(c1, A, f) /\ IfAt(c2, A, f) /\ IfAt(old.childInherit, Just(g, old), f)
      /\ JustAt(g, old, f) /\ OnlyAt(If(c1, A), Faces \ DOMAIN temp.routes, f)
      /\ IfAt(c3, Only(A, {g}), f) /\ OnlyAt(A, {g}, f)
  BY <1>1, RouteMaps
<1>3. /\ EraseAdd(b) = IF old.capture THEN If(c1, A) ELSE If(c2, A)
      /\ EraseRemove(b) = If(old.childInherit, Just(g, old))
      /\ EraseOwn(b) = Only(If(c1, A), Faces \ DOMAIN temp.routes)
      /\ EraseLast(b) = If(c3, Only(A, {g}))
  BY Zenon DEF EraseAdd, EraseRemove, EraseOwn, EraseLast
<1>4. /\ c1 <=> old.capture /\ ~hasCapture(t[m])
      /\ c2 <=> old.childInherit /\ ~hasCapture(t[m])
      /\ c3 <=> ~hasCapture(t[m]) /\ isIn(t, m)
      /\ DOMAIN temp.routes = DOMAIN t[m].routes
  BY DEF EraseEntry
<1> HIDE DEF t, temp, A, c1, c2, c3, old
<1>5. /\ f \in DOMAIN EraseAdd(b) <=>
           ~hasCapture(t[m]) /\ f \in DOMAIN A /\ (old.capture \/ old.childInherit)
      /\ f \in DOMAIN EraseAdd(b) => EraseAdd(b)[f] = A[f]
  BY <1>2, <1>3, <1>4 DEF IfAt
<1>6. f \in DOMAIN EraseRemove(b) <=> old.childInherit /\ f = g
  BY <1>2, <1>3 DEF IfAt, JustAt
<1>7. /\ f \in DOMAIN EraseOwn(b) <=> /\ ~hasCapture(t[m]) /\ f \in DOMAIN A /\ old.capture
                                      /\ f \in Faces /\ f \notin DOMAIN t[m].routes
      /\ f \in DOMAIN EraseOwn(b) => EraseOwn(b)[f] = A[f]
  BY <1>2, <1>3, <1>4 DEF IfAt, OnlyAt
<1>8. /\ f \in DOMAIN EraseLast(b) <=> ~hasCapture(t[m]) /\ f \in DOMAIN A /\ isIn(t, m) /\ f = g
      /\ f \in DOMAIN EraseLast(b) => EraseLast(b)[f] = A[f]
  BY <1>2, <1>3, <1>4 DEF IfAt, OnlyAt
<1> QED
  BY <1>5, <1>6, <1>7, <1>8 DEF EraseMaps, t, A, old

\* A route that is erased.
LEMMA ErasedMoved ==
  ASSUME rib \in [Names -> Entry], \A x \in Names : Counted(rib[x]), NEW b \in Update,
         b.action # "register", b.face \in DOMAIN rib[b.name].routes,
         \A f \in Faces : RecordKept(rib, b.name, f), AddsToEntries(b),
         ~exposes(b, DOMAIN FibUpdates(computeUpdates(rib, b)))
  PROVE  \E add, remove : Moved(b, computeUpdates(rib, b), add, remove)
<1> DEFINE m == b.name
           g == b.face
           old == rib[m].routes[g]
           t == Result(b)
           S == computeUpdates(rib, b)
           A == getAncestorRoutes(rib, m)
           add == EraseAdd(b)
           remove == EraseRemove(b)
           set == setNextHop(m, g, RemoveNextHop)
           own == addInheritedRoutes(m, EraseOwn(b))
           M == modifyChildrensInheritedRoutes(rib, m, add, remove)
           last == addInheritedRoutes(m, EraseLast(b))
           gone == Stage([k \in {m} \X {f \in Faces : rib[m].inherited[f] > 0} |-> RemoveNextHop], {}, {})
           X == <<set, own, M, last>>
           Y == IF DOMAIN rib[m].routes = {g} THEN <<gone>> ELSE <<>>
<1>1. S = X \o Y
  BY Zenon
  DEF computeUpdates, computeUpdatesForUnregistration, createFibUpdatesForErasedRoute,
      unblockedRoute, createFibUpdatesForErasedRibEntry, EraseAdd, EraseRemove, EraseOwn, EraseLast
<1>2. /\ m \in Names /\ g \in Faces /\ S \in Seq(StageType) /\ ~flagged(b)
  BY UpdateFields, ComputeUpdatesType DEF flagged
<1>3. EraseEntry(b)
  BY EraseResult
<1>4. /\ \A x \in Names : Counted(t[x])
      /\ \A f : Val(t, m, f) = Val(rib, m, f)
      /\ \A f : (f \in DOMAIN A <=> Val(rib, m, f) # 0) /\ (f \in DOMAIN A => A[f] = Val(rib, m, f))
  BY <1>2, ResultVal
<1>5. \A f : EraseMaps(b, f)
  BY <1>3, EraseMapsHold
<1>6. X \in Seq(StageType) /\ Y \in Seq(StageType)
  <2>1. IsCostMap(A) /\ old \in Route
    BY <1>2, <1>3, AncestorRoutesType DEF EraseEntry
  <2>2. IsCostMap(EraseAdd(b)) /\ IsCostMap(EraseRemove(b)) /\ IsCostMap(EraseOwn(b)) /\ IsCostMap(EraseLast(b))
    <3> DEFINE temp == eraseRoute(rib[m], g)
               off == hasCapture(rib[m]) /\ ~hasCapture(temp)
               c1 == old.capture /\ off
               c2 == old.childInherit /\ ~hasCapture(temp)
               c3 == ~hasCapture(temp) /\ temp.routes # <<>>
    <3>1. /\ c1 \in BOOLEAN /\ c2 \in BOOLEAN /\ c3 \in BOOLEAN /\ old.childInherit \in BOOLEAN
          /\ old.capture \in BOOLEAN
      BY <1>3 DEF EraseEntry
    <3>2. /\ EraseAdd(b) = IF old.capture THEN If(c1, A) ELSE If(c2, A)
          /\ EraseRemove(b) = If(old.childInherit, Just(g, old))
          /\ EraseOwn(b) = Only(If(c1, A), Faces \ DOMAIN temp.routes)
          /\ EraseLast(b) = If(c3, Only(A, {g}))
      BY Zenon DEF EraseAdd, EraseRemove, EraseOwn, EraseLast
    <3> HIDE DEF old, temp, A, c1, c2, c3
    <3>3. /\ IsCostMap(If(c1, A)) /\ IsCostMap(If(c2, A)) /\ IsCostMap(If(old.childInherit, Just(g, old)))
          /\ IsCostMap(If(c3, Only(A, {g})))
      BY <1>2, <2>1, <3>1, CostMaps
    <3>4. IsCostMap(Only(If(c1, A), Faces \ DOMAIN temp.routes))
      BY <3>3, CostMaps
    <3> QED
      BY <3>1, <3>2, <3>3, <3>4
  <2>3. set \in StageType /\ own \in StageType /\ M \in StageType /\ last \in StageType
    BY <1>2, <2>2, NextHopType, StagesType
  <2>4. gone \in StageType
    <3> DEFINE keys == {m} \X {f \in Faces : rib[m].inherited[f] > 0}
               h == [k \in keys |-> RemoveNextHop]
    <3>1. keys \in SUBSET Keys /\ h \in [keys -> NextHop] /\ gone = Stage(h, {}, {})
      BY <1>2, NextHopType DEF Keys
    <3> HIDE DEF keys, h, gone
    <3> QED
      BY <3>1, StageIntro
  <2> HIDE DEF set, own, M, last, gone
  <2> QED
    BY <2>3, <2>4, ShortSeqs
<1> HIDE DEF A, add, remove, S, t, X, Y, old
<1>7. ChildOf(S, m, M)
  <2>1. AtName(set, m) /\ AtName(own, m) /\ AtName(last, m)
    BY OwnAtName
  <2>2. DOMAIN X = {1, 2, 3, 4} /\ X[1] = set /\ X[2] = own /\ X[3] = M /\ X[4] = last
    BY DEF X
  <2>3. \A j \in DOMAIN Y : AtName(Y[j], m)
    <3>1. AtName(gone, m)
      BY GoneStage
    <3>2. Y = <<>> \/ Y = <<gone>>
      BY DEF Y
    <3> HIDE DEF gone
    <3> QED
      BY <3>1, <3>2
  <2> HIDE DEF set, own, M, last
  <2>4. ChildOf(X, m, M)
    BY <1>6, <2>1, <2>2, OneChildStage
  <2> QED
    BY <1>1, <1>6, <2>3, <2>4, ChildTogether
<1>8. ASSUME NEW f \in Faces
      PROVE  \/ MapsOK(rib, t, m, add, remove, f)
             \/ \A d \in Below[m] : Untouched(rib, t, m, remove, S, d, f)
  <2>1. /\ f \in DOMAIN add <=> ~hasCapture(t[m]) /\ f \in DOMAIN A /\ (old.capture \/ old.childInherit)
        /\ f \in DOMAIN add => add[f] = A[f]
        /\ f \in DOMAIN remove <=> old.childInherit /\ f = g
    BY <1>5 DEF EraseMaps, add, remove, old, A, t
  <2>2. /\ hasChildInheritOnFaceId(t[m], f) <=> f # g /\ hasChildInheritOnFaceId(rib[m], f)
        /\ \A h \in DOMAIN t[m].routes : t[m].routes[h] = rib[m].routes[h]
        /\ old.capture => hasCapture(rib[m])
        /\ ~old.capture => (hasCapture(t[m]) <=> hasCapture(rib[m]))
        /\ old.childInherit \in BOOLEAN
    BY <1>3 DEF EraseEntry, t, old
  <2>3. CASE f # g /\ hasChildInheritOnFaceId(rib[m], f)
    <3>1. Through(t, m, f) = Through(rib, m, f)
      BY <2>2, <2>3 DEF Through, hasChildInheritOnFaceId
    <3>2. \A d \in Below[m] : Kept(S, <<d, f>>)
      BY <1>2, <2>3, Unexposed DEF S
    <3> QED
      BY <2>3, <3>1, <3>2 DEF Untouched
  <2>4. CASE f = g \/ ~hasChildInheritOnFaceId(rib[m], f)
    <3>1. Through(t, m, f) = IF hasCapture(t[m]) THEN 0 ELSE Val(rib, m, f)
      BY <1>4, <2>2, <2>4 DEF Through
    <3>2. ~(old.childInherit /\ f = g) => Through(rib, m, f) = IF hasCapture(rib[m]) THEN 0 ELSE Val(rib, m, f)
      BY <2>4 DEF Through, hasChildInheritOnFaceId, old
    <3> QED
      BY <1>4, <2>1, <2>2, <3>1, <3>2 DEF MapsOK
  <2> QED
    BY <2>3, <2>4
<1>9. isIn(t, m) \/ (DOMAIN EraseOwn(b) = {} /\ DOMAIN EraseLast(b) = {})
  <2>1. DOMAIN X = {1, 2, 3, 4} /\ X[2] = own /\ X[4] = last
    BY DEF X
  <2>2. DOMAIN S = 1..(Len(X) + Len(Y)) /\ Len(X) \in Nat /\ Len(Y) \in Nat
        /\ DOMAIN X = 1..Len(X) /\ \A i \in 1..Len(X) : S[i] = X[i]
    BY <1>1, <1>6
  <2>3. 2 \in DOMAIN S /\ S[2] = own /\ 4 \in DOMAIN S /\ S[4] = last
    BY <2>1, <2>2
  <2>4. \A k \in own.add \union last.add : isIn(t, k[1])
    BY <2>3 DEF AddsToEntries, S, t
  <2>5. own.add = {m} \X DOMAIN EraseOwn(b) /\ last.add = {m} \X DOMAIN EraseLast(b)
    BY DEF addInheritedRoutes, Stage
  <2>6. ASSUME NEW f \in DOMAIN EraseOwn(b) \union DOMAIN EraseLast(b) PROVE isIn(t, m)
    <3>1. <<m, f>> \in own.add \union last.add
      BY <2>5
    <3>2. isIn(t, <<m, f>>[1])
      BY ONLY <2>4, <3>1
    <3> QED
      BY <3>2
  <2> QED
    BY <2>6
<1>10. ASSUME NEW f \in Faces PROVE KeyMoves(rib, t, S, m, f)
  <2> DEFINE k == <<m, f>>
  <2>1. /\ SetKey(m, g, RemoveNextHop, f) /\ AddKey(m, EraseOwn(b), f) /\ NoKey(M, m, f)
        /\ AddKey(m, EraseLast(b), f) /\ GoneKey(rib, m, gone, f)
    BY <1>2, OwnKeys, ChildNoKey, GoneStage
  <2>2. FourStages(set, own, M, last, k) /\ X = <<set, own, M, last>>
    BY OutcomeFour DEF X
  <2>3. /\ f \in DOMAIN EraseOwn(b) <=> /\ ~hasCapture(t[m]) /\ f \in DOMAIN A /\ old.capture
                                        /\ f \notin DOMAIN t[m].routes
        /\ f \in DOMAIN EraseOwn(b) => EraseOwn(b)[f] = A[f]
        /\ f \in DOMAIN EraseLast(b) <=> ~hasCapture(t[m]) /\ f \in DOMAIN A /\ isIn(t, m) /\ f = g
        /\ f \in DOMAIN EraseLast(b) => EraseLast(b)[f] = A[f]
    BY <1>5 DEF EraseMaps, old, A, t
  <2>4. /\ old.capture => hasCapture(rib[m])
        /\ ~old.capture => (hasCapture(t[m]) <=> hasCapture(rib[m]))
        /\ DOMAIN t[m].routes = DOMAIN rib[m].routes \ {g}
        /\ isIn(t, m) <=> DOMAIN rib[m].routes # {g}
        /\ \A h \in DOMAIN t[m].routes : t[m].routes[h] = rib[m].routes[h]
    BY <1>3 DEF EraseEntry, t, old
  <2> HIDE DEF set, own, M, last, gone
  <2>5. \* what the four stages do
        /\ ~Removed(X, k)
        /\ f \in DOMAIN EraseLast(b) => Finally(X, k, AddNextHop(A[f])) /\ Added(X, k)
        /\ f \notin DOMAIN EraseLast(b) /\ f \in DOMAIN EraseOwn(b) =>
             Finally(X, k, AddNextHop(A[f])) /\ Added(X, k)
        /\ f \notin DOMAIN EraseLast(b) /\ f \notin DOMAIN EraseOwn(b) /\ f = g =>
             Finally(X, k, RemoveNextHop)
        /\ f \notin DOMAIN EraseLast(b) /\ f \notin DOMAIN EraseOwn(b) /\ f # g => Kept(X, k)
    BY <2>1, <2>2, <2>3 DEF FourStages, SetKey, AddKey, NoKey, set, own, last
  <2>6. CASE isIn(t, m)
    <3>1. Y = <<>>
      BY <2>4, <2>6 DEF Y
    <3>2. S = X
      BY <1>1, <1>6, <3>1
    <3>3. /\ Want(t, m, f) = IF hasCapture(t[m]) THEN 0 ELSE Val(rib, m, f)
          /\ Want(rib, m, f) = IF hasCapture(rib[m]) THEN 0 ELSE Val(rib, m, f)
      <4>1. isIn(rib, m)
        BY DEF isIn
      <4> QED
        BY <1>4, <2>6, <4>1 DEF Want
    <3>4. CASE f \in DOMAIN t[m].routes
      <4>1. Kept(S, k)
        BY <2>3, <2>4, <2>5, <3>2, <3>4
      <4> QED
        BY <2>4, <3>4, <4>1 DEF KeyMoves
    <3>5. CASE f = g
      <4>1. f \notin DOMAIN t[m].routes
        BY <2>4, <3>5
      <4>2. CASE Want(t, m, f) # 0
        <5>1. f \in DOMAIN EraseLast(b) /\ A[f] = Want(t, m, f)
          BY <1>4, <2>3, <2>6, <3>3, <3>5, <4>2
        <5> QED
          BY <2>5, <3>2, <4>1, <4>2, <5>1 DEF KeyMoves
      <4>3. CASE Want(t, m, f) = 0
        <5>1. f \notin DOMAIN EraseLast(b) /\ f \notin DOMAIN EraseOwn(b)
          BY <1>4, <2>3, <3>3, <4>3
        <5> QED
          BY <2>5, <3>2, <3>5, <4>1, <4>3, <5>1 DEF KeyMoves
      <4> QED
        BY <4>2, <4>3
    <3>6. CASE f # g /\ f \notin DOMAIN t[m].routes
      <4>1. f \notin DOMAIN EraseLast(b) /\ f \notin DOMAIN rib[m].routes
        BY <2>3, <2>4, <3>6
      <4>2. CASE f \in DOMAIN EraseOwn(b)
        <5>1. A[f] = Want(t, m, f) /\ Want(t, m, f) # 0
          BY <1>4, <2>3, <3>3, <4>2
        <5> QED
          BY <2>5, <3>2, <3>6, <4>1, <4>2, <5>1 DEF KeyMoves
      <4>3. CASE f \notin DOMAIN EraseOwn(b)
        <5>1. Want(t, m, f) = Want(rib, m, f)
          BY <1>4, <2>3, <2>4, <3>3, <3>6, <4>3
        <5> QED
          BY <2>5, <3>2, <3>6, <4>1, <4>3, <5>1 DEF KeyMoves
      <4> QED
        BY <4>2, <4>3
    <3> QED
      BY <3>4, <3>5, <3>6
  <2>7. CASE ~isIn(t, m)
    <3>1. Y = <<gone>> /\ DOMAIN t[m].routes = {} /\ DOMAIN rib[m].routes = {g}
      BY <2>4, <2>7 DEF Y, isIn
    <3>2. /\ Kept(Y, k) <=> ~(rib[m].inherited[f] > 0)
          /\ rib[m].inherited[f] > 0 => Finally(Y, k, RemoveNextHop)
          /\ ~Removed(Y, k)
      BY <2>1, <3>1, OutcomeOne DEF GoneKey
    <3>3. /\ Kept(S, k) <=> Kept(X, k) /\ Kept(Y, k)
          /\ \A u : Finally(Y, k, u) => Finally(S, k, u)
          /\ \A u : Finally(X, k, u) /\ Kept(Y, k) => Finally(S, k, u)
          /\ Removed(S, k) <=> Removed(X, k) \/ Removed(Y, k)
      BY <1>1, <1>6, OutcomesTogether
    <3>4. Want(t, m, f) = 0
      BY <2>7 DEF Want
    <3>5. f \notin DOMAIN EraseOwn(b) /\ f \notin DOMAIN EraseLast(b)
      BY <1>9, <2>7
    <3>6. CASE f = g \/ rib[m].inherited[f] > 0
      <4>1. Finally(S, k, RemoveNextHop)
        BY <2>5, <3>2, <3>3, <3>5, <3>6
      <4> QED
        BY <3>1, <3>4, <4>1 DEF KeyMoves
    <3>7. CASE f # g /\ ~(rib[m].inherited[f] > 0)
      <4>1. Kept(S, k) /\ ~Removed(S, k)
        BY <2>5, <3>2, <3>3, <3>5, <3>7
      <4>2. f \notin DOMAIN rib[m].routes /\ Want(rib, m, f) = 0
        BY <3>1, <3>7 DEF RecordKept
      <4> QED
        BY <3>1, <3>4, <4>1, <4>2 DEF KeyMoves
    <3> QED
      BY <3>6, <3>7
  <2> QED
    BY <2>6, <2>7
<1>11. Moved(b, S, add, remove)
  BY <1>7, <1>8, <1>10 DEF Moved, t
<1> QED
  BY <1>11 DEF S

\* A route that is not there.
LEMMA AbsentMoved ==
  ASSUME rib \in [Names -> Entry], \A x \in Names : Counted(rib[x]), NEW b \in Update,
         b.action # "register", b.face \notin DOMAIN rib[b.name].routes
  PROVE  \E add, remove : Moved(b, computeUpdates(rib, b), add, remove)
<1> DEFINE m == b.name
           t == Result(b)
           S == computeUpdates(rib, b)
<1>1. S = <<>>
  BY DEF computeUpdates, computeUpdatesForUnregistration
<1>2. m \in Names /\ S \in Seq(StageType)
  BY UpdateFields, ComputeUpdatesType
<1>3. t = rib
  BY DEF Result, erase
<1> HIDE DEF S, t
<1>4. ChildOf(S, m, modifyChildrensInheritedRoutes(rib, m, <<>>, <<>>))
  <2>1. \A j \in DOMAIN S : AtName(S[j], m)
    BY <1>1
  <2> QED
    BY <1>2, <2>1, NoChildStage
<1>5. \A f \in Faces : MapsOK(rib, t, m, <<>>, <<>>, f)
  BY <1>3 DEF MapsOK
<1>6. \A f \in Faces : KeyMoves(rib, t, S, m, f)
  BY <1>1, <1>3, OutcomeNone DEF KeyMoves
<1>7. Moved(b, S, <<>>, <<>>)
  BY <1>4, <1>5, <1>6 DEF Moved, t
<1> QED
  BY <1>7 DEF S

\* The RIB has a record of every inherited route, and its capture counters are right.
WellKept(R) == (\A x \in Names : Counted(R[x])) /\ \A n \in Names, f \in Faces : RecordKept(R, n, f)

\* What a batch does to every next hop.
LEMMA ComputeMoves ==
  ASSUME rib \in [Names -> Entry], WellKept(rib), NEW b \in Update, ~flagged(b), AddsToEntries(b),
         ~exposes(b, DOMAIN FibUpdates(computeUpdates(rib, b)))
  PROVE  \A n \in Names, f \in Faces : KeyMoves(rib, Result(b), computeUpdates(rib, b), n, f)
<1> DEFINE m == b.name
           t == Result(b)
           S == computeUpdates(rib, b)
<1>1. m \in Names /\ S \in Seq(StageType) /\ t \in [Names -> Entry]
      /\ \A x \in Names \ {m} : t[x] = rib[x]
  BY UpdateFields, ComputeUpdatesType, ResultType
<1>2. /\ \A x \in Names : Counted(rib[x])
      /\ \A x \in Names : Counted(t[x])
      /\ \A n \in Names, f \in Faces : RecordKept(rib, n, f)
  BY ResultVal DEF WellKept
<1>3. \E add, remove : Moved(b, S, add, remove)
  <2>1. \A f \in Faces : RecordKept(rib, b.name, f)
    BY <1>1, <1>2
  <2>2. CASE b.action = "register" /\ ~isIn(rib, m)
    BY <1>2, <2>2, NewEntryMoved
  <2>3. CASE b.action = "register" /\ isIn(rib, m) /\ b.face \notin DOMAIN rib[m].routes
    BY <1>2, <2>1, <2>3, NewRouteMoved
  <2>4. CASE b.action = "register" /\ b.face \in DOMAIN rib[m].routes
    BY <1>2, <2>4, UpdatedMoved
  <2>5. CASE b.action # "register" /\ b.face \in DOMAIN rib[m].routes
    BY <1>2, <2>1, <2>5, ErasedMoved
  <2>6. CASE b.action # "register" /\ b.face \notin DOMAIN rib[m].routes
    BY <1>2, <2>6, AbsentMoved
  <2> QED
    BY <2>2, <2>3, <2>4, <2>5, <2>6
<1>4. PICK add, remove : Moved(b, S, add, remove)
  BY <1>3
<1> DEFINE M == modifyChildrensInheritedRoutes(rib, m, add, remove)
<1> HIDE DEF S
<1>5. /\ ChildOf(S, m, M)
      /\ \A f \in Faces : \/ MapsOK(rib, t, m, add, remove, f)
                          \/ \A d \in Below[m] : Untouched(rib, t, m, remove, S, d, f)
      /\ \A f \in Faces : KeyMoves(rib, t, S, m, f)
  BY <1>4 DEF Moved
<1> HIDE DEF t
<1>6. ASSUME NEW n \in Below[m], NEW f \in Faces PROVE KeyMoves(rib, t, S, n, f)
  <2>1. RecordKept(rib, n, f)
    BY <1>1, <1>2, NameOrder
  <2>2. MapsOK(rib, t, m, add, remove, f) \/ Untouched(rib, t, m, remove, S, n, f)
    BY <1>5
  <2> QED
    BY <1>1, <1>2, <1>5, <2>1, <2>2, ChildMoves
<1>7. ASSUME NEW n \in Names, n # m, n \notin Below[m], NEW f \in Faces
      PROVE  KeyMoves(rib, t, S, n, f)
  <2>1. ChildSets(m, add, remove, M)
    BY <1>1, ChildStage, Zenon
  <2> HIDE DEF M
  <2>2. <<n, f>> \notin DOMAIN M.fib /\ <<n, f>> \notin M.rem
    BY <1>7, <2>1 DEF ChildSets
  <2>3. Kept(S, <<n, f>>) /\ ~Removed(S, <<n, f>>)
    BY <1>5, <1>7, <2>2 DEF ChildOf
  <2>4. m \notin Above[n] /\ Above[n] \subseteq Names
    BY <1>1, <1>7, NameOrder
  <2>5. \A a \in Above[n] : Same(rib, t, a)
    BY <1>1, <2>4 DEF Same
  <2>6. Val(rib, n, f) = Val(t, n, f)
    BY <1>1, <1>2, <2>5, ValSame
  <2>7. t[n] = rib[n]
    BY <1>1, <1>7
  <2>8. Want(rib, n, f) = Want(t, n, f)
    BY <2>6, <2>7 DEF Want, isIn
  <2> QED
    BY <2>3, <2>7, <2>8 DEF KeyMoves
<1>8. \A n \in Names, f \in Faces : KeyMoves(rib, t, S, n, f)
  BY <1>5, <1>6, <1>7
<1> QED
  BY <1>8 DEF S, t

\* What a name should inherit depends on no record.
LEMMA WantSame ==
  ASSUME NEW R \in [Names -> Entry], \A x \in Names : Counted(R[x]),
         NEW T \in [Names -> Entry], \A x \in Names : Same(R, T, x)
  PROVE  /\ \A x \in Names : Counted(T[x])
         /\ \A n \in Names : \A f : Want(R, n, f) = Want(T, n, f)
<1>1. \A x \in Names : Counted(T[x])
  BY DEF Counted, Capturing, Same
<1>2. ASSUME NEW n \in Names, NEW f PROVE Want(R, n, f) = Want(T, n, f)
  <2>1. \A a \in Above[n] : Same(R, T, a)
    BY NameOrder
  <2>2. Val(R, n, f) = Val(T, n, f)
    BY <1>1, <2>1, ValSame
  <2> QED
    BY <2>2 DEF Want, isIn, hasCapture, Same
<1> QED
  BY <1>1, <1>2

\* modifyInheritedRoutes on one record that is removed at most once, and then is there.
LEMMA RecordAfter ==
  ASSUME NEW t \in [Names -> Entry], NEW Q \in RecordStages, NEW n \in Names, NEW f \in Faces,
         RemovesOnce(Q)
  PROVE  LET k == <<n, f>>
             x == modifyInheritedRoutes(t, Q)[n].inherited[f]
         IN  /\ Added(Q, k) /\ (Removed(Q, k) => t[n].inherited[f] > 0) => x > 0
             /\ ~Removed(Q, k) /\ t[n].inherited[f] > 0 => x > 0
<1> DEFINE k == <<n, f>>
           removed == {i \in DOMAIN Q : k \in Q[i].rem}
           added == {i \in DOMAIN Q : k \in Q[i].add}
           x == modifyInheritedRoutes(t, Q)[n].inherited[f]
<1>1. Len(Q) \in Nat /\ DOMAIN Q = 1..Len(Q)
  <2> DEFINE T == [rem : SUBSET Keys, add : SUBSET Keys]
  <2>1. Q \in Seq(T)
    BY DEF RecordStages
  <2> HIDE DEF T
  <2> QED
    BY <2>1
<1>2. x = t[n].inherited[f] - Cardinality(removed) + Cardinality(added)
  <2>1. modifyInheritedRoutes(t, Q)[n] =
          [t[n] EXCEPT !.inherited =
             [g \in Faces |-> t[n].inherited[g]
                - Cardinality({j \in DOMAIN Q : <<n, g>> \in Q[j].rem})
                + Cardinality({j \in DOMAIN Q : <<n, g>> \in Q[j].add})]]
    BY Zenon DEF modifyInheritedRoutes
  <2>2. t[n] = [routes |-> t[n].routes, inherited |-> t[n].inherited, nCapture |-> t[n].nCapture]
    BY EntryFields
  <2>3. modifyInheritedRoutes(t, Q)[n].inherited =
          [g \in Faces |-> t[n].inherited[g]
                - Cardinality({j \in DOMAIN Q : <<n, g>> \in Q[j].rem})
                + Cardinality({j \in DOMAIN Q : <<n, g>> \in Q[j].add})]
    BY <2>1, <2>2
  <2> QED
    BY <2>3
<1>3. t[n].inherited[f] \in Nat
  <2>1. t[n].inherited \in [Faces -> Nat]
    BY EntryFields
  <2> QED
    BY <2>1
<1>4. /\ IsFiniteSet(added) /\ Cardinality(added) \in Nat
      /\ Cardinality(added) = 0 => added = {}
  <2>1. added \in SUBSET (1..Len(Q))
    BY <1>1
  <2> HIDE DEF added
  <2>2. IsFiniteSet(added) /\ Cardinality(added) \in Nat
    BY <1>1, <2>1, FiniteIndices
  <2> QED
    BY <2>2, FS_EmptySet
<1>5. /\ ~Removed(Q, k) => Cardinality(removed) = 0
      /\ Removed(Q, k) => Cardinality(removed) = 1
  <2>1. ~Removed(Q, k) => removed = {}
    BY DEF Removed
  <2>2. ASSUME Removed(Q, k) PROVE \E i : removed = {i}
    <3>1. PICK i \in DOMAIN Q : k \in Q[i].rem
      BY <2>2 DEF Removed
    <3>2. \A j \in DOMAIN Q : j # i => k \notin Q[j].rem
      BY <3>1 DEF RemovesOnce
    <3>3. removed = {i}
      BY <3>1, <3>2
    <3> QED
      BY <3>3
  <2> HIDE DEF removed
  <2> QED
    BY <2>1, <2>2, FS_EmptySet, FS_Singleton
<1>6. Added(Q, k) => added # {}
  BY DEF Added
<1> HIDE DEF removed, added, x
<1>7. /\ Added(Q, k) /\ (Removed(Q, k) => t[n].inherited[f] > 0) => x > 0
      /\ ~Removed(Q, k) /\ t[n].inherited[f] > 0 => x > 0
  BY <1>2, <1>3, <1>4, <1>5, <1>6
<1> QED
  BY <1>7 DEF x

\* A batch keeps the records, as long as it finds those it changes.
LEMMA RecordedAfter ==
  ASSUME rib \in [Names -> Entry], WellKept(rib), NEW b \in Update, ~flagged(b),
         ~exposes(b, DOMAIN FibUpdates(computeUpdates(rib, b))),
         modifiable(Result(b), Records(computeUpdates(rib, b)))
  PROVE  LET S == computeUpdates(rib, b)
             T == modifyInheritedRoutes(Result(b), Records(S))
         IN  /\ T \in [Names -> Entry] /\ WellKept(T)
             /\ \A x \in Names : Same(Result(b), T, x)
             /\ \A n \in Names : \A f : Want(Result(b), n, f) = Want(T, n, f)
             /\ \A n \in Names, f \in Faces : KeyMoves(rib, Result(b), S, n, f)
<1> DEFINE S == computeUpdates(rib, b)
           t == Result(b)
           Q == Records(S)
           T == modifyInheritedRoutes(t, Q)
<1>1. /\ b.name \in Names /\ S \in Seq(StageType) /\ t \in [Names -> Entry]
      /\ \A x \in Names \ {b.name} : t[x] = rib[x]
  BY UpdateFields, ComputeUpdatesType, ResultType
<1>2. /\ Q \in RecordStages /\ DOMAIN Q = DOMAIN S
      /\ \A i \in DOMAIN S : Q[i].rem = S[i].rem /\ Q[i].add = S[i].add
  <2> HIDE DEF S
  <2> QED
    BY <1>1, RecordsType
<1>3. AddsToEntries(b)
  <2>1. \A i \in DOMAIN Q : \A k \in Q[i].rem \union Q[i].add : isIn(t, k[1])
    BY DEF modifiable
  <2> QED
    BY <1>2, <2>1 DEF AddsToEntries
<1>4. \A n \in Names, f \in Faces : KeyMoves(rib, t, S, n, f)
  BY <1>3, ComputeMoves
<1>5. T \in [Names -> Entry] /\ \A x \in Names : Same(t, T, x)
  <2>1. T \in [Names -> Entry] /\ \A x \in Names : T[x].routes = t[x].routes
    <3> HIDE DEF Q, t
    <3> QED
      BY <1>1, <1>2, ModifyType DEF Q, t
  <2>2. ASSUME NEW x \in Names PROVE T[x].nCapture = t[x].nCapture
    <3> HIDE DEF Q, t
    <3> DEFINE inh == [g \in Faces |-> t[x].inherited[g]
                         - Cardinality({j \in DOMAIN Q : <<x, g>> \in Q[j].rem})
                         + Cardinality({j \in DOMAIN Q : <<x, g>> \in Q[j].add})]
    <3>1. T[x] = [t[x] EXCEPT !.inherited = inh]
      BY Zenon DEF modifyInheritedRoutes
    <3>2. t[x] = [routes |-> t[x].routes, inherited |-> t[x].inherited, nCapture |-> t[x].nCapture]
      BY <1>1, EntryFields
    <3> HIDE DEF inh
    <3> QED
      BY <3>1, <3>2
  <2> QED
    BY <2>1, <2>2 DEF Same
<1>6. /\ \A x \in Names : Counted(rib[x])
      /\ \A x \in Names : Counted(t[x])
      /\ \A n \in Names, f \in Faces : RecordKept(rib, n, f)
  BY ResultVal DEF WellKept
<1>7. /\ \A x \in Names : Counted(T[x])
      /\ \A n \in Names : \A f : Want(t, n, f) = Want(T, n, f)
  <2> HIDE DEF T, t
  <2> QED
    BY <1>1, <1>5, <1>6, WantSame
<1>8. AllRecorded(rib, t, S) /\ RemovesOnce(S)
  <2>1. CASE b.action = "register"
    <3>1. ~Exceptional(b)
      BY <2>1 DEF Exceptional, flagged
    <3> QED
      BY <2>1, <3>1, RegistrationRecorded
  <2>2. CASE b.action # "register"
    BY <1>3, <2>2, UnregistrationRecorded
  <2> QED
    BY <2>1, <2>2
<1>9. ASSUME NEW n \in Names, NEW f \in Faces PROVE RecordKept(T, n, f)
  <2> SUFFICES ASSUME f \notin DOMAIN T[n].routes, Want(T, n, f) # 0
               PROVE  T[n].inherited[f] > 0
    BY DEF RecordKept
  <2> DEFINE k == <<n, f>>
  <2>1. f \notin DOMAIN t[n].routes /\ Want(t, n, f) # 0
    BY <1>5, <1>7 DEF Same
  <2>2. t[n].inherited = rib[n].inherited
    <3>1. CASE n # b.name
      BY <1>1, <3>1
    <3>2. CASE n = b.name
      <4>1. isIn(t, n)
        BY <2>1 DEF Want
      <4>2. DOMAIN NoEntry.routes = {}
        BY DEF NoEntry
      <4>3. t[n] # NoEntry
        BY <4>1, <4>2 DEF isIn
      <4>4. ResultEntry(b)
        BY ResultType
      <4> QED
        BY <3>2, <4>3, <4>4 DEF ResultEntry
    <3> QED
      BY <3>1, <3>2
  <2> HIDE DEF S, t, Q
  <2>3. RemovesOnce(Q) /\ (Removed(Q, k) <=> Removed(S, k)) /\ (Added(Q, k) <=> Added(S, k))
    BY <1>2, <1>8 DEF RemovesOnce, Removed, Added
  <2>4. Removed(S, k) => rib[n].inherited[f] > 0
    BY <1>8 DEF AllRecorded, Recorded, Removed
  <2>5. /\ Added(Q, k) /\ (Removed(Q, k) => t[n].inherited[f] > 0) => T[n].inherited[f] > 0
        /\ ~Removed(Q, k) /\ t[n].inherited[f] > 0 => T[n].inherited[f] > 0
    BY <1>1, <1>2, <2>3, RecordAfter
  <2>6. KeyMoves(rib, t, S, n, f)
    BY <1>4 DEF S, t
  <2>7. \/ Added(S, k)
        \/ f \notin DOMAIN rib[n].routes /\ Want(rib, n, f) # 0 /\ ~Removed(S, k)
    BY <2>1, <2>6 DEF KeyMoves
  <2>8. RecordKept(rib, n, f)
    BY <1>6
  <2> QED
    BY <2>2, <2>3, <2>4, <2>5, <2>7, <2>8 DEF RecordKept
<1>10. WellKept(T)
  BY <1>7, <1>9 DEF WellKept
<1> QED
  BY <1>4, <1>5, <1>7, <1>10

----------------------------------------------------------------------------
(* The FIB and the batch in progress                                       *)

\* The next hop of n on f in the FIB F is the one that the RIB R asks for: a route of n,
\* if there, has its cost, and a face without one has what n should inherit.
FibOK(R, n, f, F) ==
  IF f \in DOMAIN R[n].routes
    THEN f \in DOMAIN F[n] => F[n][f] = R[n].routes[f].cost
    ELSE IF Want(R, n, f) = 0 THEN f \notin DOMAIN F[n]
         ELSE f \in DOMAIN F[n] /\ F[n][f] = Want(R, n, f)

\* The command for a next hop of the updates U, and a FIB that has executed it.
CommandFor(U, k) == [name |-> k[1], face |-> k[2], action |-> U[k].action, cost |-> U[k].cost]
Done(F, u) ==
  IF u.action = "add" THEN u.face \in DOMAIN F[u.name] /\ F[u.name][u.face] = u.cost
                      ELSE u.face \notin DOMAIN F[u.name]

\* With the updates U of the batch b under way, those of B and O not yet answered.
KeyOK(R, U, b, B, O, F, n, f) ==
  LET k == <<n, f>>
  IN  /\ k \notin DOMAIN U => FibOK(R, n, f, F)
      /\ k \in DOMAIN U => CommandFor(U, k) \in B \union O \/ Done(F, CommandFor(U, k))
      /\ f # b.face /\ B # {} => FibOK(R, n, f, F)

\* The batch in progress.
BatchFaithful ==
  LET U == FibUpdates(computeUpdates(rib, current))
  IN  /\ ~flagged(current) /\ ~exposes(current, DOMAIN U)
      /\ \A u \in forBatchFace \union forOtherFaces : \E k \in DOMAIN U : u = CommandFor(U, k)
      /\ \A c \in BagToSet(sent) : c.verb = c.update.action
      /\ \A n \in Names, f \in alive : KeyOK(rib, U, current, forBatchFace, forOtherFaces, fib, n, f)

\* The records are kept, and the FIB is what the RIB asks for, up to the batch in progress.
FaithfulNow ==
  /\ WellKept(rib)
  /\ ~inProgress => \A n \in Names, f \in alive : FibOK(rib, n, f, fib)
  /\ inProgress => BatchFaithful

\* It is so as long as no mishap has happened.
FaithfulInv == Faithful /\ stopped = "no" => FaithfulNow

\* A batch that has been executed leaves the FIB that its RIB asks for.
LEMMA FibAfter ==
  ASSUME NEW R, NEW t, NEW S \in Seq(StageType), NEW n, NEW f, KeyMoves(R, t, S, n, f),
         NEW U, U = FibUpdates(S), NEW F,
         <<n, f>> \notin DOMAIN U => FibOK(R, n, f, F),
         <<n, f>> \in DOMAIN U => Done(F, CommandFor(U, <<n, f>>))
  PROVE  FibOK(t, n, f, F)
<1> DEFINE k == <<n, f>>
<1>1. /\ Kept(S, k) => FibOK(R, n, f, F)
      /\ \A c : Finally(S, k, AddNextHop(c)) => f \in DOMAIN F[n] /\ F[n][f] = c
      /\ Finally(S, k, RemoveNextHop) => f \notin DOMAIN F[n]
  <2>1. /\ Kept(S, k) <=> k \notin DOMAIN U
        /\ \A u : Finally(S, k, u) => k \in DOMAIN U /\ U[k] = u
    BY FibUpdatesOf
  <2>2. ASSUME NEW u, Finally(S, k, u)
        PROVE  /\ u.action = "add" => f \in DOMAIN F[n] /\ F[n][f] = u.cost
               /\ u.action # "add" => f \notin DOMAIN F[n]
    BY <2>1, <2>2 DEF Done, CommandFor
  <2> QED
    BY <2>1, <2>2 DEF AddNextHop, RemoveNextHop
<1> QED
  BY <1>1 DEF KeyMoves, FibOK

\* The end of a batch.
LEMMA BatchCompletes ==
  ASSUME rib \in [Names -> Entry], WellKept(rib), NEW b \in Update, ~flagged(b),
         NEW U, U = FibUpdates(computeUpdates(rib, b)), ~exposes(b, DOMAIN U),
         NEW F, NEW A \in SUBSET Faces,
         \A n \in Names, f \in A : /\ <<n, f>> \notin DOMAIN U => FibOK(rib, n, f, F)
                                   /\ <<n, f>> \in DOMAIN U => Done(F, CommandFor(U, <<n, f>>)),
         onFibUpdateSuccess(b, Records(computeUpdates(rib, b))), stopped' = "no"
  PROVE  /\ WellKept(rib') /\ inProgress' = FALSE
         /\ \A n \in Names, f \in A : FibOK(rib', n, f, F)
<1> DEFINE S == computeUpdates(rib, b)
           t == Result(b)
           T == modifyInheritedRoutes(t, Records(S))
<1>1. modifiable(t, Records(S)) /\ rib' = T /\ inProgress' = FALSE
  <2>1. t = IF b.action = "register" THEN insert(b.name, b.face, b.route) ELSE erase(b.name, b.face)
    BY DEF Result
  <2> HIDE DEF S
  <2> QED
    BY <2>1, Zenon DEF onFibUpdateSuccess, S
<1>2. /\ T \in [Names -> Entry] /\ WellKept(T)
      /\ \A x \in Names : Same(t, T, x)
      /\ \A n \in Names : \A f : Want(t, n, f) = Want(T, n, f)
      /\ \A n \in Names, f \in Faces : KeyMoves(rib, t, S, n, f)
  BY <1>1, RecordedAfter
<1>3. S \in Seq(StageType)
  BY ComputeUpdatesType
<1> HIDE DEF S, t, T
<1>4. ASSUME NEW n \in Names, NEW f \in A PROVE FibOK(T, n, f, F)
  <2>1. FibOK(t, n, f, F)
    BY <1>2, <1>3, FibAfter DEF S
  <2> QED
    BY <1>2, <2>1 DEF FibOK, Same
<1> QED
  BY <1>1, <1>2, <1>4

\* Two FIBs agree on a next hop.
Agree(F, G, n, f) ==
  (f \in DOMAIN F[n] <=> f \in DOMAIN G[n]) /\ (f \in DOMAIN G[n] => F[n][f] = G[n][f])

\* FIBs that agree on a next hop are both right or both wrong about it.
LEMMA AgreeOK ==
  ASSUME NEW F, NEW G, NEW n, NEW f, Agree(F, G, n, f)
  PROVE  /\ \A R : FibOK(R, n, f, G) => FibOK(R, n, f, F)
         /\ \A U : Done(G, CommandFor(U, <<n, f>>)) => Done(F, CommandFor(U, <<n, f>>))
<1>1. ASSUME NEW R, FibOK(R, n, f, G) PROVE FibOK(R, n, f, F)
  BY <1>1 DEF FibOK, Agree
<1>2. ASSUME NEW U, Done(G, CommandFor(U, <<n, f>>)) PROVE Done(F, CommandFor(U, <<n, f>>))
  <2>1. CommandFor(U, <<n, f>>).name = n /\ CommandFor(U, <<n, f>>).face = f
    BY DEF CommandFor
  <2> HIDE DEF CommandFor
  <2> QED
    BY <1>2, <2>1 DEF Done, Agree
<1> QED
  BY <1>1, <1>2

\* What a command does to the FIB.
LEMMA ExecutedKey ==
  ASSUME TypeInv, NEW c, c.update \in FibUpdate, c.verb = c.update.action
  PROVE  /\ \A n \in Names : \A f : <<n, f>> # <<c.update.name, c.update.face>> => Agree(executed(c), fib, n, f)
         /\ c.update.face \in alive => Done(executed(c), c.update)
<1> DEFINE m == c.update.name
           g == c.update.face
           F == executed(c)
<1>1. /\ m \in Names /\ g \in Faces /\ c.update.action \in {"add", "remove"}
      /\ fib = [n \in Names |-> fib[n]]
  BY DEF FibUpdate, TypeInv
<1>2. CASE g \notin alive
  BY <1>2 DEF executed, Agree
<1>3. CASE g \in alive /\ c.verb = "add"
  <2>1. F = [fib EXCEPT ![m] = Put(@, g, c.update.cost)]
    BY <1>3 DEF executed
  <2>2. F[m] = Put(fib[m], g, c.update.cost) /\ \A n \in Names \ {m} : F[n] = fib[n]
    BY <1>1, <2>1
  <2> HIDE DEF F
  <2>3. /\ DOMAIN F[m] = DOMAIN fib[m] \union {g} /\ F[m][g] = c.update.cost
        /\ \A f \in DOMAIN fib[m] \ {g} : F[m][f] = fib[m][f]
    BY <2>2 DEF Put
  <2> QED
    BY <1>1, <1>3, <2>2, <2>3 DEF Agree, Done, F
<1>4. CASE g \in alive /\ c.verb # "add"
  <2>1. F = [fib EXCEPT ![m] = [h \in DOMAIN @ \ {g} |-> @[h]]]
    BY <1>4 DEF executed
  <2>2. F[m] = [h \in DOMAIN fib[m] \ {g} |-> fib[m][h]] /\ \A n \in Names \ {m} : F[n] = fib[n]
    BY <1>1, <2>1
  <2> HIDE DEF F
  <2>3. /\ DOMAIN F[m] = DOMAIN fib[m] \ {g}
        /\ \A f \in DOMAIN fib[m] \ {g} : F[m][f] = fib[m][f]
    BY <2>2
  <2> QED
    BY <1>1, <1>4, <2>2, <2>3 DEF Agree, Done, F
<1> QED
  BY <1>2, <1>3, <1>4

\* A batch in progress: the answer to a command for u, executed by a FIB that is F now.
LEMMA KeyKept ==
  ASSUME TypeInv, NEW U, DOMAIN U \subseteq Keys, NEW b, NEW B, NEW O, NEW c,
         c.update \in FibUpdate, c.verb = c.update.action,
         c.update \in IF B # {} THEN B ELSE O,
         \A u \in B : u.face = b.face, \A u \in O : u.face # b.face,
         \E k \in DOMAIN U : c.update = CommandFor(U, k),
         NEW n \in Names, NEW f \in alive, KeyOK(rib, U, b, B, O, fib, n, f)
  PROVE  /\ KeyOK(rib, U, b, B, O, executed(c), n, f)
         /\ KeyOK(rib, U, b, B \ {c.update}, O \ {c.update}, executed(c), n, f)
<1> DEFINE u == c.update
           k == <<n, f>>
           F == executed(c)
           C == CommandFor(U, k)
<1>1. /\ \A m \in Names : \A g : <<m, g>> # <<u.name, u.face>> => Agree(F, fib, m, g)
      /\ u.face \in alive => Done(F, u)
  BY ExecutedKey
<1>2. C.name = n /\ C.face = f
  BY DEF CommandFor
<1>3. /\ k \notin DOMAIN U => FibOK(rib, n, f, fib)
      /\ k \in DOMAIN U => C \in B \union O \/ Done(fib, C)
      /\ f # b.face /\ B # {} => FibOK(rib, n, f, fib)
  BY DEF KeyOK
<1>4. SUFFICES /\ k \notin DOMAIN U => FibOK(rib, n, f, F)
               /\ k \in DOMAIN U => C \in (B \ {u}) \union (O \ {u}) \/ Done(F, C)
               /\ f # b.face /\ B # {} => FibOK(rib, n, f, F)
  BY DEF KeyOK
<1>5. CASE k # <<u.name, u.face>>
  <2>1. Agree(F, fib, n, f) /\ C # u
    BY <1>1, <1>2, <1>5
  <2>2. /\ FibOK(rib, n, f, fib) => FibOK(rib, n, f, F)
        /\ Done(fib, C) => Done(F, C)
    <3> HIDE DEF F
    <3> QED
      BY <2>1, AgreeOK
  <2> HIDE DEF F, C
  <2> QED
    BY <1>3, <2>1, <2>2
<1>6. CASE k = <<u.name, u.face>>
  <2>1. PICK q \in DOMAIN U : u = CommandFor(U, q)
    OBVIOUS
  <2>2. q = <<q[1], q[2]>> /\ u.name = q[1] /\ u.face = q[2]
    BY <2>1 DEF CommandFor, Keys
  <2>3. q = k
    BY <1>6, <2>2
  <2>4. k \in DOMAIN U /\ u = C /\ Done(F, u)
    BY <1>1, <1>6, <2>1, <2>3
  <2>5. ~(f # b.face /\ B # {})
    BY <1>2, <2>4
  <2> HIDE DEF F, C
  <2> QED
    BY <2>4, <2>5
<1> QED
  BY <1>5, <1>6

\* What is known of a command of the batch in progress.
LEMMA CommandKnown ==
  ASSUME TypeInv, UpdaterInv, Undisturbed, BatchFaithful, NEW c \in BagToSet(sent),
         NEW U, U = FibUpdates(computeUpdates(rib, current))
  PROVE  /\ inProgress /\ c.batch = current /\ current \in Update
         /\ c.update \in FibUpdate /\ c.verb = c.update.action
         /\ c.update \in Waiting /\ DOMAIN U \subseteq Keys
         /\ \A n \in Names, f \in alive :
              /\ KeyOK(rib, U, current, forBatchFace, forOtherFaces, fib, n, f)
              /\ KeyOK(rib, U, current, forBatchFace, forOtherFaces, executed(c), n, f)
              /\ KeyOK(rib, U, current, forBatchFace \ {c.update}, forOtherFaces \ {c.update},
                       executed(c), n, f)
<1>1. inProgress /\ c.batch = current /\ c.update \in Waiting
  BY DEF UpdaterInv, BatchInv
<1>2. current \in Update /\ c.update \in FibUpdate
  BY <1>1 DEF TypeInv
<1>3. DOMAIN U \subseteq Keys
  BY <1>2, ComputeUpdatesType, FibUpdatesType DEF TypeInv
<1>4. /\ c.verb = c.update.action
      /\ \A u \in forBatchFace \union forOtherFaces : \E k \in DOMAIN U : u = CommandFor(U, k)
      /\ \A n \in Names, f \in alive : KeyOK(rib, U, current, forBatchFace, forOtherFaces, fib, n, f)
  BY DEF BatchFaithful
<1>5. c.update \in IF forBatchFace # {} THEN forBatchFace ELSE forOtherFaces
  BY <1>1 DEF Waiting
<1>6. /\ \A u \in forBatchFace : u.face = current.face
      /\ \A u \in forOtherFaces : u.face # current.face
  BY DEF UpdaterInv, Shape
<1>7. \E k \in DOMAIN U : c.update = CommandFor(U, k)
  BY <1>4, <1>5
<1>8. ASSUME NEW n \in Names, NEW f \in alive
      PROVE  /\ KeyOK(rib, U, current, forBatchFace, forOtherFaces, fib, n, f)
             /\ KeyOK(rib, U, current, forBatchFace, forOtherFaces, executed(c), n, f)
             /\ KeyOK(rib, U, current, forBatchFace \ {c.update}, forOtherFaces \ {c.update},
                      executed(c), n, f)
  BY <1>2, <1>3, <1>4, <1>5, <1>6, <1>7, KeyKept
<1> QED
  BY <1>1, <1>2, <1>3, <1>4, <1>8

\* A batch is sent.
LEMMA BatchSent ==
  ASSUME NEW b, NEW U, U = FibUpdates(computeUpdates(rib, b)), ~flagged(b), ~exposes(b, DOMAIN U),
         rib' = rib, current' = b,
         \A u \in forBatchFace' \union forOtherFaces' : \E k \in DOMAIN U : u = CommandFor(U, k),
         \A c \in BagToSet(sent') : c.verb = c.update.action,
         \A n \in Names, f \in alive' : KeyOK(rib, U, b, forBatchFace', forOtherFaces', fib', n, f)
  PROVE  BatchFaithful'
<1>1. U = FibUpdates(computeUpdates(rib', current'))
  OBVIOUS
<1>2. flagged(current)' <=> flagged(b)
  BY DEF flagged
<1>3. exposes(current, DOMAIN U)' <=> exposes(b, DOMAIN U)
  BY DEF exposes
<1> QED
  BY <1>1, <1>2, <1>3 DEF BatchFaithful

\* The batch stays in progress.
LEMMA BatchStays ==
  ASSUME BatchFaithful, rib' = rib, current' = current,
         forBatchFace' \subseteq forBatchFace, forOtherFaces' \subseteq forOtherFaces,
         \A c \in BagToSet(sent') : c.verb = c.update.action,
         \A n \in Names, f \in alive' :
           KeyOK(rib, FibUpdates(computeUpdates(rib, current)), current, forBatchFace',
                 forOtherFaces', fib', n, f)
  PROVE  BatchFaithful'
<1> DEFINE U == FibUpdates(computeUpdates(rib, current))
<1>1. /\ ~flagged(current) /\ ~exposes(current, DOMAIN U)
      /\ \A u \in forBatchFace' \union forOtherFaces' : \E k \in DOMAIN U : u = CommandFor(U, k)
  BY DEF BatchFaithful
<1> QED
  BY <1>1, BatchSent

\* A command is answered, and the FIB updater takes its update off its list.
LEMMA UpdateAnswered ==
  ASSUME TypeInv, UpdaterInv, RecordInv, Undisturbed, WellKept(rib), BatchFaithful,
         NEW c \in BagToSet(sent), fib' = executed(c), current' = current, alive' = alive,
         forBatchFace' = forBatchFace \ {c.update}, forOtherFaces' = forOtherFaces \ {c.update},
         \/ /\ rib' = rib /\ inProgress' = inProgress
            /\ \A d \in BagToSet(sent') : d.verb = d.update.action
         \/ /\ forBatchFace' = {} /\ forOtherFaces' = {}
            /\ onFibUpdateSuccess(c.batch, inherited),
         stopped' = "no"
  PROVE  FaithfulNow'
<1> DEFINE U == FibUpdates(computeUpdates(rib, current))
<1>1. /\ inProgress /\ c.batch = current /\ current \in Update
      /\ \A n \in Names, f \in alive :
           KeyOK(rib, U, current, forBatchFace', forOtherFaces', fib', n, f)
  BY CommandKnown
<1>2. CASE /\ rib' = rib /\ inProgress' = inProgress
           /\ \A d \in BagToSet(sent') : d.verb = d.update.action
  <2>1. BatchFaithful'
    BY <1>1, <1>2, BatchStays
  <2>2. WellKept(rib')
    BY <1>2
  <2> QED
    BY <1>1, <1>2, <2>1, <2>2 DEF FaithfulNow
<1>3. CASE /\ forBatchFace' = {} /\ forOtherFaces' = {}
           /\ onFibUpdateSuccess(c.batch, inherited)
  <2>1. onFibUpdateSuccess(current, Records(computeUpdates(rib, current)))
    BY <1>1, <1>3 DEF RecordInv
  <2>2. ~flagged(current) /\ ~exposes(current, DOMAIN U)
    BY DEF BatchFaithful
  <2>3. rib \in [Names -> Entry] /\ alive \in SUBSET Faces
    BY DEF TypeInv
  <2> HIDE DEF U
  <2>4. \A n \in Names, f \in alive :
          /\ <<n, f>> \notin DOMAIN U => FibOK(rib, n, f, fib')
          /\ <<n, f>> \in DOMAIN U => Done(fib', CommandFor(U, <<n, f>>))
    BY <1>1, <1>3 DEF KeyOK
  <2>5. /\ WellKept(rib') /\ inProgress' = FALSE
        /\ \A n \in Names, f \in alive : FibOK(rib', n, f, fib')
    BY <1>1, <2>1, <2>2, <2>3, <2>4, BatchCompletes DEF U
  <2> QED
    BY <2>5 DEF FaithfulNow
<1> QED
  BY <1>2, <1>3

\* The answers to the commands.
LEMMA AnswerFaithful ==
  ASSUME TypeInv, UpdaterInv, RecordInv, Faithful, stopped = "no", FaithfulNow,
         NEW c \in BagToSet(sent), Answer(c), Faithful', stopped' = "no"
  PROVE  FaithfulNow'
<1> DEFINE sentNow == Answered(c)
           left == forBatchFace \ {c.update}
<1>1. Undisturbed
  BY DEF Faithful, Undisturbed
<1>2. inProgress /\ c.batch = current
  BY <1>1 DEF UpdaterInv, BatchInv
<1>3. WellKept(rib) /\ BatchFaithful
  BY <1>2 DEF FaithfulNow
<1>4. /\ \A d \in BagToSet(sent) : d.verb = d.update.action
      /\ \A d \in BagToSet(sentNow) : d.verb = d.update.action
      /\ IsABag(sentNow)
  BY <1>3, AnsweredInv DEF BatchFaithful, UpdaterInv
<1>5. c.update \in Waiting /\ c.update \in FibUpdate
  BY <1>1, <1>3, CommandKnown
<1>6. /\ c.update.face = current.face => c.update \in forBatchFace /\ c.update \notin forOtherFaces
      /\ c.update.face # current.face => c.update \in forOtherFaces /\ forBatchFace = {}
  BY <1>5 DEF Waiting, UpdaterInv, Shape
<1> HIDE DEF sentNow
<1>7. ASSUME c.update.face # current.face, OtherUpdateDone(c), fib' = executed(c),
             UNCHANGED <<current, alive>>
      PROVE  FaithfulNow'
  <2>1. /\ forBatchFace' = {} /\ forOtherFaces' = forOtherFaces \ {c.update}
        /\ sent' = sentNow
        /\ \/ UNCHANGED <<rib, inProgress>>
           \/ forOtherFaces' = {} /\ onFibUpdateSuccess(c.batch, inherited)
    BY <1>6, <1>7 DEF OtherUpdateDone, sentNow
  <2> QED
    BY <1>1, <1>3, <1>4, <1>6, <1>7, <2>1, UpdateAnswered
<1>8. CASE OnUpdateSuccess(c)
  <2>1. fib' = executed(c) /\ UNCHANGED <<current, alive>>
    BY <1>8 DEF OnUpdateSuccess
  <2>2. CASE c.update.face = current.face /\ OwnUpdateDone(c)
    <3>1. /\ forBatchFace' = left /\ forOtherFaces' = forOtherFaces \ {c.update}
          /\ forOtherFaces' = forOtherFaces
      BY <1>6, <2>2 DEF OwnUpdateDone
    <3>2. CASE sent' = sentNow /\ UNCHANGED <<rib, inProgress>>
      BY <1>1, <1>3, <1>4, <2>1, <3>1, <3>2, UpdateAnswered
    <3>3. CASE sent' = sentNow (+) sendUpdates(forOtherFaces, c.batch) /\ UNCHANGED <<rib, inProgress>>
      <4> DEFINE S == {Command(u, c.batch) : u \in forOtherFaces}
      <4>1. sent' = sentNow (+) SetToBag(S)
        BY <3>3 DEF sendUpdates
      <4>2. \A d \in S : d.verb = d.update.action
        BY DEF Command
      <4> HIDE DEF S
      <4>3. BagToSet(sent') = BagToSet(sentNow) \union S
        BY <1>4, <4>1, BagAdd
      <4> QED
        BY <1>1, <1>3, <1>4, <2>1, <3>1, <3>3, <4>2, <4>3, UpdateAnswered
    <3>4. CASE left = {} /\ forOtherFaces = {} /\ onFibUpdateSuccess(c.batch, inherited)
      BY <1>1, <1>3, <2>1, <3>1, <3>4, UpdateAnswered
    <3> QED
      BY <2>2, <3>2, <3>3, <3>4 DEF OwnUpdateDone, sentNow
  <2>3. CASE c.update.face # current.face /\ OtherUpdateDone(c)
    BY <1>7, <2>1, <2>3
  <2> QED
    BY <1>8, <2>2, <2>3 DEF OnUpdateSuccess
<1>9. CASE OnFaceNotFound(c)
  <2>1. c.update.face \notin alive /\ fib' = fib /\ UNCHANGED <<current, alive>>
    BY <1>9 DEF OnFaceNotFound, faceNotFound
  <2>2. CASE c.update.face = current.face /\ onFibUpdateFailure
    <3>1. rib' = rib /\ inProgress' = FALSE
      BY <2>2 DEF onFibUpdateFailure
    <3>2. \A n \in Names, f \in alive :
            KeyOK(rib, FibUpdates(computeUpdates(rib, current)), current, forBatchFace,
                  forOtherFaces, fib, n, f)
      BY <1>3 DEF BatchFaithful
    <3>3. forBatchFace # {} /\ \A f \in alive : f # current.face
      BY <1>6, <2>1, <2>2
    <3>4. \A n \in Names, f \in alive : FibOK(rib, n, f, fib)
      BY <3>2, <3>3 DEF KeyOK
    <3> QED
      BY <1>3, <2>1, <3>1, <3>4 DEF FaithfulNow
  <2>3. CASE c.update.face # current.face /\ OtherUpdateDone(c)
    <3>1. fib' = executed(c)
      BY <2>1 DEF executed
    <3> QED
      BY <1>7, <2>1, <2>3, <3>1
  <2> QED
    BY <1>9, <2>2, <2>3 DEF OnFaceNotFound
<1> QED
  BY <1>8, <1>9 DEF Answer

\* Sending the next batch.
LEMMA SendBatchFaithful ==
  ASSUME TypeInv, UpdaterInv, DeadFaces, Faithful, FaithfulNow,
         SendBatchFromQueue, Faithful', stopped' = "no"
  PROVE  FaithfulNow'
<1> DEFINE b == Head(queue)
           U == FibUpdates(computeUpdates(rib, b))
           updates == {CommandFor(U, k) : k \in DOMAIN U}
           own == {u \in updates : u.face = b.face /\ b.action # "removeFace"}
           others == {u \in updates : u.face # b.face}
<1>1. /\ current' = b /\ queue # <<>> /\ ~inProgress /\ inherited' = Records(computeUpdates(rib, b))
      /\ fib' = fib /\ alive' = alive
  BY SendBatchShape DEF SendBatchFromQueue
<1>2. /\ forBatchFace' = own /\ forOtherFaces' = others
      /\ \/ /\ sent' = sent (+) sendUpdates(IF own # {} THEN own ELSE others, b)
            /\ inProgress' = TRUE /\ rib' = rib
         \/ own \union others = {} /\ onFibUpdateSuccess(b, inherited')
  BY Zenon DEF SendBatchFromQueue, CommandFor
<1>3. ~flagged(b) /\ ~exposes(b, DOMAIN U)
  <2> DEFINE X == IF flagged(b) THEN {"flag"} ELSE {}
             Y == IF exposes(b, DOMAIN U) THEN {"exposed"} ELSE {}
  <2>1. mishaps' = mishaps \union X \union Y
    BY Zenon DEF SendBatchFromQueue
  <2>2. "flag" \notin X /\ "exposed" \notin Y
    BY <2>1 DEF Faithful
  <2> QED
    BY <2>2
<1>4. b \in Update /\ (b.action = "removeFace" => b.face \notin alive)
  <2>1. queue \in Seq(Update) /\ Len(queue) \in Nat /\ Len(queue) > 0 /\ b = queue[1]
    BY <1>1 DEF TypeInv
  <2>2. 1 \in 1..Len(queue)
    BY <2>1
  <2> QED
    BY <2>1, <2>2 DEF DeadFaces
<1>5. BagToSet(sent) = {} /\ IsABag(sent)
  BY <1>1 DEF UpdaterInv, BatchInv, Shape, Faithful, Undisturbed
<1>6. /\ rib \in [Names -> Entry] /\ alive \in SUBSET Faces /\ WellKept(rib)
      /\ \A n \in Names, f \in alive : FibOK(rib, n, f, fib)
  BY <1>1 DEF TypeInv, FaithfulNow
<1>7. \A k : CommandFor(U, k).face = k[2]
  BY DEF CommandFor
<1> HIDE DEF b, U
<1>8. ASSUME NEW n \in Names, NEW f \in alive, <<n, f>> \in DOMAIN U
      PROVE  CommandFor(U, <<n, f>>) \in own \union others
  <2>1. CommandFor(U, <<n, f>>) \in updates
    BY <1>8
  <2>2. CommandFor(U, <<n, f>>).face = f
    BY <1>7
  <2> QED
    BY <1>4, <2>1, <2>2
<1>9. own \union others \subseteq updates
  OBVIOUS
<1>10. \A u \in updates : \E k \in DOMAIN U : u = CommandFor(U, k)
  OBVIOUS
<1> HIDE DEF own, others, updates
<1>11. CASE /\ sent' = sent (+) sendUpdates(IF own # {} THEN own ELSE others, b)
            /\ inProgress' = TRUE /\ rib' = rib
  <2> DEFINE W == IF own # {} THEN own ELSE others
             S == {Command(u, b) : u \in W}
  <2>1. sent' = sent (+) SetToBag(S)
    BY <1>11 DEF sendUpdates
  <2>2. \A d \in S : d.verb = d.update.action
    BY DEF Command
  <2> HIDE DEF S
  <2>3. BagToSet(sent') = BagToSet(sent) \union S
    BY <1>5, <2>1, BagAdd
  <2>4. \A n \in Names, f \in alive : KeyOK(rib, U, b, own, others, fib, n, f)
    BY <1>6, <1>8 DEF KeyOK
  <2>5. \A u \in own \union others : \E k \in DOMAIN U : u = CommandFor(U, k)
    BY <1>9, <1>10
  <2>6. \A d \in BagToSet(sent') : d.verb = d.update.action
    BY <1>5, <2>2, <2>3
  <2>7. BatchFaithful'
    BY <1>1, <1>2, <1>3, <1>11, <2>4, <2>5, <2>6, BatchSent DEF U
  <2> QED
    BY <1>6, <1>11, <2>7 DEF FaithfulNow
<1>12. CASE own \union others = {} /\ onFibUpdateSuccess(b, inherited')
  <2>1. onFibUpdateSuccess(b, Records(computeUpdates(rib, b)))
    BY <1>1, <1>12
  <2>2. \A n \in Names, f \in alive :
          /\ <<n, f>> \notin DOMAIN U => FibOK(rib, n, f, fib)
          /\ <<n, f>> \in DOMAIN U => Done(fib, CommandFor(U, <<n, f>>))
    BY <1>6, <1>8, <1>12
  <2>3. /\ WellKept(rib') /\ inProgress' = FALSE
        /\ \A n \in Names, f \in alive : FibOK(rib', n, f, fib)
    BY <1>3, <1>4, <1>6, <2>1, <2>2, BatchCompletes DEF U
  <2> QED
    BY <1>1, <2>3 DEF FaithfulNow
<1> QED
  BY <1>2, <1>11, <1>12

\* A command times out: an addition is sent again, and the FIB may have executed it.
LEMMA TimeoutFaithful ==
  ASSUME TypeInv, UpdaterInv, Faithful, FaithfulNow,
         NEW c \in BagToSet(sent), OnTimeout(c), Faithful', stopped' = "no"
  PROVE  FaithfulNow'
<1>1. Undisturbed
  BY DEF Faithful, Undisturbed
<1>2. inProgress
  BY <1>1 DEF UpdaterInv, BatchInv
<1>3. WellKept(rib) /\ BatchFaithful
  BY <1>2 DEF FaithfulNow
<1>4. /\ c.update \in FibUpdate /\ c.verb = c.update.action
      /\ \A n \in Names, f \in alive :
           KeyOK(rib, FibUpdates(computeUpdates(rib, current)), current, forBatchFace,
                 forOtherFaces, fib', n, f)
  BY <1>1, <1>3, CommandKnown DEF OnTimeout
<1>5. c.update.action = "add"
  <2>1. c.verb # "remove"
    BY DEF OnTimeout, Faithful
  <2> QED
    BY <1>4, <2>1 DEF FibUpdate
<1>6. /\ rib' = rib /\ inProgress' = inProgress /\ current' = current /\ alive' = alive
      /\ forBatchFace' = forBatchFace /\ forOtherFaces' = forOtherFaces
  BY DEF OnTimeout, ribVars, updaterVars
<1> DEFINE again == [c EXCEPT !.verb = "add", !.nTimeouts = @ + 1]
<1>7. again.update = c.update /\ again.verb = "add"
  <2>1. PICK u, v, b, n : c = [update |-> u, verb |-> v, batch |-> b, nTimeouts |-> n]
    BY DEF UpdaterInv, Shape
  <2> QED
    BY <2>1
<1>8. sent' = Answered(c) \/ sent' = Answered(c) (+) SetToBag({again})
  BY DEF OnTimeout
<1> HIDE DEF again
<1>9. IsABag(Answered(c)) /\ BagToSet(Answered(c)) \subseteq BagToSet(sent)
  BY AnsweredInv DEF UpdaterInv
<1>10. BagToSet(sent') \subseteq BagToSet(sent) \union {again}
  <2>1. CASE sent' = Answered(c)
    BY <1>9, <2>1
  <2>2. CASE sent' = Answered(c) (+) SetToBag({again})
    <3>1. BagToSet(sent') = BagToSet(Answered(c)) \union {again}
      BY <1>9, <2>2, BagAdd
    <3> QED
      BY <1>9, <3>1
  <2> QED
    BY <1>8, <2>1, <2>2
<1>11. \A d \in BagToSet(sent') : d.verb = d.update.action
  BY <1>3, <1>5, <1>7, <1>10 DEF BatchFaithful
<1>12. BatchFaithful'
  BY <1>3, <1>4, <1>6, <1>11, BatchStays
<1> QED
  BY <1>2, <1>3, <1>6, <1>12 DEF FaithfulNow

\* A face goes away with its next hops.
LEMMA FaceFaithful ==
  ASSUME TypeInv, FaithfulNow, NEW h, FaceDestroyed(h)
  PROVE  FaithfulNow'
<1>1. /\ rib' = rib /\ inProgress' = inProgress /\ current' = current /\ sent' = sent
      /\ forBatchFace' = forBatchFace /\ forOtherFaces' = forOtherFaces
      /\ alive' = alive \ {h}
      /\ fib' = [n \in Names |-> [g \in DOMAIN fib[n] \ {h} |-> fib[n][g]]]
  BY DEF FaceDestroyed, ribVars, updaterVars
<1>2. ASSUME NEW n \in Names, NEW f \in alive' PROVE Agree(fib', fib, n, f)
  <2>1. fib'[n] = [g \in DOMAIN fib[n] \ {h} |-> fib[n][g]] /\ f # h
    BY <1>1
  <2> QED
    BY <2>1 DEF Agree
<1>3. ASSUME ~inProgress PROVE \A n \in Names, f \in alive' : FibOK(rib, n, f, fib')
  BY <1>1, <1>2, <1>3, AgreeOK DEF FaithfulNow
<1>4. ASSUME inProgress PROVE BatchFaithful'
  <2> DEFINE U == FibUpdates(computeUpdates(rib, current))
  <2>1. BatchFaithful
    BY <1>4 DEF FaithfulNow
  <2>2. ASSUME NEW n \in Names, NEW f \in alive'
        PROVE  KeyOK(rib, U, current, forBatchFace, forOtherFaces, fib', n, f)
    <3>1. KeyOK(rib, U, current, forBatchFace, forOtherFaces, fib, n, f)
      BY <1>1, <2>1 DEF BatchFaithful
    <3> HIDE DEF U
    <3>2. /\ FibOK(rib, n, f, fib) => FibOK(rib, n, f, fib')
          /\ Done(fib, CommandFor(U, <<n, f>>)) => Done(fib', CommandFor(U, <<n, f>>))
      BY <1>2, AgreeOK
    <3> QED
      BY <3>1, <3>2 DEF KeyOK
  <2>3. \A d \in BagToSet(sent') : d.verb = d.update.action
    BY <1>1, <2>1 DEF BatchFaithful
  <2> QED
    BY <1>1, <2>1, <2>2, <2>3, BatchStays
<1> QED
  BY <1>1, <1>3, <1>4 DEF FaithfulNow

\* A step that concerns neither the batch in progress nor the FIB.
LEMMA ElsewhereFaithful ==
  ASSUME FaithfulNow, UNCHANGED <<rib, inProgress, updaterVars, sent, fib, alive>>
  PROVE  FaithfulNow'
<1>1. /\ rib' = rib /\ inProgress' = inProgress /\ sent' = sent /\ fib' = fib /\ alive' = alive
      /\ current' = current /\ forBatchFace' = forBatchFace /\ forOtherFaces' = forOtherFaces
  BY DEF updaterVars
<1>2. ASSUME inProgress PROVE BatchFaithful'
  <2>1. BatchFaithful
    BY <1>2 DEF FaithfulNow
  <2>2. /\ \A n \in Names, f \in alive' :
             KeyOK(rib, FibUpdates(computeUpdates(rib, current)), current, forBatchFace',
                   forOtherFaces', fib', n, f)
        /\ \A d \in BagToSet(sent') : d.verb = d.update.action
    BY <1>1, <2>1 DEF BatchFaithful
  <2> QED
    BY <1>1, <2>1, <2>2, BatchStays
<1> QED
  BY <1>1, <1>2 DEF FaithfulNow

\* Every step keeps the FIB faithful.
LEMMA NextFaithful ==
  ASSUME TypeInv, UpdaterInv, DeadFaces, RecordInv, FaithfulInv, [Next]_vars
  PROVE  FaithfulInv'
<1> SUFFICES ASSUME Faithful', stopped' = "no" PROVE FaithfulNow'
  BY DEF FaithfulInv
<1>1. mishaps \subseteq mishaps'
  BY OtherShape, AnswerShape, SendBatchMishaps
<1>2. Faithful
  BY <1>1 DEF Faithful
<1>3. ASSUME stopped = "no" PROVE FaithfulNow
  BY <1>2, <1>3 DEF FaithfulInv
<1>4. CASE UNCHANGED vars \/ SendNothing
  <2>1. UNCHANGED <<rib, inProgress, updaterVars, sent, stopped, fib, alive>>
    BY <1>4 DEF vars, SendNothing, ribVars
  <2> QED
    BY <1>3, <2>1, ElsewhereFaithful
<1>5. CASE SendBatchFromQueue
  <2>1. stopped = "no"
    BY <1>5, SendBatchShape DEF onFibUpdateSuccess
  <2> QED
    BY <1>2, <1>3, <1>5, <2>1, SendBatchFaithful
<1>6. ASSUME NEW c \in BagToSet(sent), Answer(c) PROVE FaithfulNow'
  <2>1. stopped = "no"
    BY <1>6 DEF Answer, OnUpdateSuccess, OnFaceNotFound, Ready
  <2> QED
    BY <1>2, <1>3, <1>6, <2>1, AnswerFaithful
<1>7. ASSUME NEW c \in BagToSet(sent), OnTimeout(c) PROVE FaithfulNow'
  <2>1. stopped = "no"
    BY <1>7 DEF OnTimeout, Ready
  <2> QED
    BY <1>2, <1>3, <1>7, <2>1, TimeoutFaithful
<1>8. ASSUME NEW x \in Registrations, RegisterEntry(x) PROVE FaithfulNow'
  BY <1>3, <1>8, ElsewhereFaithful DEF RegisterEntry, Ready
<1>9. ASSUME NEW n \in Names, NEW f \in Faces, UnregisterEntry(n, f) PROVE FaithfulNow'
  BY <1>3, <1>9, ElsewhereFaithful DEF UnregisterEntry, Ready
<1>10. ASSUME NEW t \in timers, OnRouteExpiration(t) PROVE FaithfulNow'
  BY <1>3, <1>10, ElsewhereFaithful DEF OnRouteExpiration, Ready
<1>11. ASSUME NEW f \in Destroyable, FaceDestroyed(f) PROVE FaithfulNow'
  <2>1. stopped = "no"
    BY <1>11 DEF FaceDestroyed, Ready
  <2> QED
    BY <1>3, <1>11, <2>1, FaceFaithful
<1>12. ASSUME NEW f \in Destroyable, OnFaceDestroyedEvent(f) PROVE FaithfulNow'
  BY <1>3, <1>12, ElsewhereFaithful DEF OnFaceDestroyedEvent, Ready
<1>13. CASE RemoveInvalidFaces
  BY <1>3, <1>13, ElsewhereFaithful DEF RemoveInvalidFaces, Ready, ribVars
<1> QED
  BY <1>4, <1>5, <1>6, <1>7, <1>8, <1>9, <1>10, <1>11, <1>12, <1>13 DEF Next

\* Without entries nothing is inherited, recorded or installed.
LEMMA InitFaithful == Init => FaithfulInv
<1> SUFFICES ASSUME Init PROVE FaithfulNow
  BY DEF FaithfulInv
<1>1. \A n \in Names : rib[n] = NoEntry /\ fib[n] = <<>> /\ DOMAIN fib[n] = {}
  BY DEF Init
<1>2. DOMAIN NoEntry.routes = {} /\ \A f \in Faces : NoEntry.inherited[f] = 0
  BY DEF NoEntry
<1>3. \A n \in Names : Counted(rib[n]) /\ ~isIn(rib, n)
  BY <1>1, <1>2, NoEntryCounted DEF isIn
<1>4. \A n \in Names : \A f : Want(rib, n, f) = 0
  BY <1>3 DEF Want
<1>5. \A n \in Names, f \in Faces : RecordKept(rib, n, f)
  BY <1>1, <1>2, <1>3, <1>4 DEF RecordKept
<1>6. \A n \in Names, f \in Faces : FibOK(rib, n, f, fib)
  BY <1>1, <1>2, <1>4 DEF FibOK
<1> QED
  BY <1>3, <1>5, <1>6 DEF Init, FaithfulNow, WellKept

\* The FIB is faithful as long as no mishap has happened.
LEMMA FaithfulInvHolds == Spec => []FaithfulInv
  BY InitFaithful, NextFaithful, TypeInvHolds, UpdaterInvHolds, DeadFacesHolds, RecordInvHolds,
     PTL DEF Spec

\* What a name should inherit is what an ancestor gives it.
LEMMA WantGives ==
  ASSUME rib \in [Names -> Entry], \A x \in Names : Counted(rib[x]), NEW n \in Names, NEW f
  PROVE  /\ Want(rib, n, f) # 0 =>
              isIn(rib, n) /\ \E a \in Names : Gives(a, n, f) /\ Want(rib, n, f) = rib[a].routes[f].cost
         /\ \A a \in Names : isIn(rib, n) /\ Gives(a, n, f) =>
              Want(rib, n, f) # 0 /\ Want(rib, n, f) = rib[a].routes[f].cost
<1>1. \A x \in Names : hasCapture(rib[x]) <=> captures(x)
  BY CountedFacts DEF captures
<1>2. Inherits(rib, n, f)
  BY ValIs
<1>3. ASSUME NEW a \in Names PROVE Gives(a, n, f) <=> Provides(rib, a, n, f) /\ ~hasCapture(rib[n])
  <2>1. Below[a] \subseteq Names /\ Below[a] \intersect Above[n] = Above[n] \intersect Below[a]
    BY DEF Below
  <2> QED
    BY <1>1, <2>1 DEF Gives, Provides
<1> QED
  BY <1>2, <1>3 DEF Inherits, Want

\* Once all updates are done, no next hop of the FIB lacks the route that it stands for:
\* whatever is registered, unregistered, expires or is destroyed meanwhile.
THEOREM NextHopsAreJustified == Spec => []NextHopsJustified
<1>1. TypeInv /\ FaithfulInv => NextHopsJustified
  <2> SUFFICES ASSUME TypeInv, FaithfulInv, Idle, Faithful, NEW n \in Names, NEW f \in DOMAIN fib[n]
               PROVE  IF f \in DOMAIN rib[n].routes THEN fib[n][f] = rib[n].routes[f].cost
                      ELSE isIn(rib, n) /\ \E a \in Names : Gives(a, n, f) /\ fib[n][f] = rib[a].routes[f].cost
    BY DEF NextHopsJustified
  <2>1. f \in alive /\ rib \in [Names -> Entry]
    BY DEF TypeInv
  <2>2. WellKept(rib) /\ FibOK(rib, n, f, fib)
    BY <2>1 DEF FaithfulInv, FaithfulNow, Idle, Ready
  <2>3. Want(rib, n, f) # 0 =>
          isIn(rib, n) /\ \E a \in Names : Gives(a, n, f) /\ Want(rib, n, f) = rib[a].routes[f].cost
    BY <2>1, <2>2, WantGives DEF WellKept
  <2> QED
    BY <2>2, <2>3 DEF FibOK
<1> QED
  BY <1>1, TypeInvHolds, FaithfulInvHolds, PTL

\* Once all updates are done, the FIB has every route that a name inherits.
THEOREM InheritedRoutesInstalled == Spec => []InheritedInstalled
<1>1. TypeInv /\ FaithfulInv => InheritedInstalled
  <2> SUFFICES ASSUME TypeInv, FaithfulInv, Idle, Faithful, NEW a \in Names, NEW n \in Names,
                      NEW f \in alive, isIn(rib, n), Gives(a, n, f), f \notin DOMAIN rib[n].routes
               PROVE  f \in DOMAIN fib[n] /\ fib[n][f] = rib[a].routes[f].cost
    BY DEF InheritedInstalled
  <2>1. rib \in [Names -> Entry]
    BY DEF TypeInv
  <2>2. WellKept(rib) /\ FibOK(rib, n, f, fib)
    BY DEF FaithfulInv, FaithfulNow, Idle, Ready
  <2>3. Want(rib, n, f) # 0 /\ Want(rib, n, f) = rib[a].routes[f].cost
    BY <2>1, <2>2, WantGives DEF WellKept
  <2> QED
    BY <2>2, <2>3 DEF FibOK
<1> QED
  BY <1>1, TypeInvHolds, FaithfulInvHolds, PTL
=============================================================================
