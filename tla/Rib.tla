-------------------------------- MODULE Rib --------------------------------
(***************************************************************************)
(* The RIB of NFD (NFD/rib): rib-manager.cpp takes commands and face       *)
(* events, rib.cpp queues them and applies one batch at a time, and        *)
(* fib-updater.cpp installs the batch in the forwarder's FIB by commands    *)
(* that are answered, refused or lost one by one.                          *)
(*                                                                         *)
(* A handler ends with sendBatchFromQueue, which may itself finish a batch *)
(* that needs no command and call itself again: "sending" holds while the  *)
(* handler is in that call, and no other handler runs then.                *)
(***************************************************************************)
EXTENDS FibUpdater, FiniteSets, Bags

CONSTANTS
  Registrations,  \* the routes that are registered: [name, face, route, expires]
  Destroyable,    \* the faces that may be destroyed
  MAX_NUM_TIMEOUTS,
  MaxUpdates,     \* bound: register and unregister commands
  MaxQueue,       \* bound: batches queued when a command arrives
  MaxTimeouts     \* bound: commands to the FIB that time out

\* A route of the RIB with its expiration event, 0 for none.
Params == [cost : Nat \ {0}, childInherit : BOOLEAN, capture : BOOLEAN]
Route == [cost : Nat \ {0}, childInherit : BOOLEAN, capture : BOOLEAN, event : Nat]

ASSUME RibAssumption ==
  /\ Registrations \subseteq [name : Names, face : Faces, route : Params, expires : BOOLEAN]
  /\ Destroyable \subseteq Faces
  /\ MAX_NUM_TIMEOUTS \in Nat /\ MaxUpdates \in Nat /\ MaxQueue \in Nat
  /\ MaxTimeouts \in Nat

VARIABLES
  rib,            \* m_rib: the entry of every name, NoEntry if it has none
  queue,          \* m_updateBatches
  inProgress,     \* m_isUpdateInProgress
  timers,         \* scheduled calls of onRouteExpiration: [name, face, event]
  current,        \* the batch sent last; its face is m_batchFaceId
  forBatchFace,   \* m_updatesForBatchFaceId
  forOtherFaces,  \* m_updatesForNonBatchFaceId
  inherited,      \* m_inheritedRoutes
  sent,           \* commands on their way to the FIB or back
  sending,        \* the current handler is in sendBatchFromQueue
  stopped,        \* "no", or why the program ended: "error" or "assert"
  registered,     \* m_registeredFaces
  destroyed,      \* scheduled calls of onFaceDestroyedEvent
  fib,            \* next hops of the forwarder's FIB: costs
  alive,          \* faces of the forwarder
  nUpdates, nTimeouts,
  mishaps         \* history: "retry" after a removal timed out, "overlap" after a
                  \* batch failed with commands outstanding, "refresh" after a route
                  \* expired with a new registration of it under way, "flag" after a
                  \* registration changed a capture flag, "exposed" after an update set
                  \* next hops for names that the entry shields from it

ribVars == <<rib, queue, inProgress, timers>>
updaterVars == <<current, forBatchFace, forOtherFaces, inherited>>
managerVars == <<registered, destroyed>>
counters == <<nUpdates, nTimeouts>>
vars == <<ribVars, updaterVars, sent, sending, stopped, managerVars, fib, alive, counters, mishaps>>

Ready == ~sending /\ stopped = "no"

----------------------------------------------------------------------------
(* Applying a batch: an update of the RIB with the records of inherited    *)
(* routes that were computed for it                                        *)

\* Mutant of insert: the old expiration event stays with the route.
insertKeepingEvent(n, f, r) ==
  IF f \in DOMAIN rib[n].routes
  THEN [rib EXCEPT ![n].routes[f] = [r EXCEPT !.event = rib[n].routes[f].event]]
  ELSE [rib EXCEPT ![n] = insertRoute(@, f, r)]

\* Rib::insert: the capture counter of the entry ignores a change of flags.
insert(n, f, r) ==
  IF f \in DOMAIN rib[n].routes THEN [rib EXCEPT ![n].routes[f] = r]
                                ELSE [rib EXCEPT ![n] = insertRoute(@, f, r)]

\* Rib::erase with eraseEntry.
erase(n, f) ==
  IF f \notin DOMAIN rib[n].routes THEN rib
  ELSE IF DOMAIN rib[n].routes = {f} THEN [rib EXCEPT ![n] = NoEntry]
  ELSE [rib EXCEPT ![n] = eraseRoute(@, f)]

\* modifyInheritedRoutes for the stages of a computation, each of which removes or adds
\* a record at most once.
modifyInheritedRoutes(t, stages) ==
  LET removals(n, f) == Cardinality({i \in DOMAIN stages : <<n, f>> \in stages[i].rem})
      additions(n, f) == Cardinality({i \in DOMAIN stages : <<n, f>> \in stages[i].add})
  IN  [n \in Names |-> [t[n] EXCEPT !.inherited =
         [f \in Faces |-> @[f] - removals(n, f) + additions(n, f)]]]

\* modifyInheritedRoutes asserts that every name it changes has an entry, and a record
\* that it removes must be there.
modifiable(t, stages) ==
  /\ \A i \in DOMAIN stages : \A k \in stages[i].rem \union stages[i].add : isIn(t, k[1])
  /\ \A i \in DOMAIN stages : \A k \in stages[i].rem :
       modifyInheritedRoutes(t, SubSeq(stages, 1, i - 1))[k[1]].inherited[k[2]] > 0

\* Mutant of canceled: the event of a route that is replaced or erased stays scheduled.
canceledNever(n, f) == timers

\* insert and eraseRoute cancel the event of the route that was there.
canceled(n, f) ==
  {t \in timers : ~(f \in DOMAIN rib[n].routes /\ t.event = rib[n].routes[f].event)}

onFibUpdateSuccess(batch, stages) ==
  LET t == IF batch.action = "register" THEN insert(batch.name, batch.face, batch.route)
                                        ELSE erase(batch.name, batch.face)
  IN  /\ inProgress' = FALSE
      /\ timers' = canceled(batch.name, batch.face)
      /\ \/ /\ modifiable(t, stages)
            /\ rib' = modifyInheritedRoutes(t, stages)
            /\ sending' = TRUE /\ UNCHANGED stopped
         \/ /\ ~modifiable(t, stages)
            /\ rib' = t
            /\ sending' = FALSE /\ stopped' = "assert"

\* Mutant of onFibUpdateFailure: the update stays in progress.
onFibUpdateFailureInProgress ==
  /\ sending' = TRUE
  /\ UNCHANGED <<rib, inProgress, timers, stopped>>

onFibUpdateFailure ==
  /\ inProgress' = FALSE
  /\ sending' = TRUE
  /\ UNCHANGED <<rib, timers, stopped>>

----------------------------------------------------------------------------
(* Sending a batch                                                         *)

\* A command to the FIB manager; its callbacks are bound to the batch.
Command(u, batch) == [update |-> u, verb |-> u.action, batch |-> batch, nTimeouts |-> 0]
sendUpdates(S, batch) == SetToBag({Command(u, batch) : u \in S})

\* Mutant of mayAdvance: an update may be in progress.
mayAdvanceInProgress == queue # <<>>

mayAdvance == queue # <<>> /\ ~inProgress

SendNothing ==
  /\ sending /\ ~mayAdvance
  /\ sending' = FALSE
  /\ UNCHANGED <<ribVars, updaterVars, sent, stopped, managerVars, fib, alive, counters, mishaps>>

\* History: the batch changes the capture flag of a route, which the capture counter does
\* not follow.
flagged(batch) ==
  /\ batch.action = "register" /\ batch.face \in DOMAIN rib[batch.name].routes
  /\ rib[batch.name].routes[batch.face].capture # batch.route.capture

\* History: the batch sets next hops K of names below its own from which its entry shields
\* them, on another face by a child-inherit route, or on its own face by capture.
exposes(batch, K) ==
  \E k \in K :
    /\ k[1] # batch.name
    /\ \/ k[2] # batch.face /\ hasChildInheritOnFaceId(rib[batch.name], k[2])
       \/ /\ k[2] = batch.face /\ batch.action = "register" /\ ~batch.route.childInherit
          /\ hasCapture(rib[batch.name])

\* sendBatchFromQueue and computeAndSendFibUpdates.  A destroyed face has no FIB
\* updates of its own.  The computation for an erased route cancels its event already
\* (temp.eraseRoute).
SendBatchFromQueue ==
  /\ sending /\ mayAdvance
  /\ LET batch == Head(queue)
         stages == computeUpdates(rib, batch)
         fibUpdates == FibUpdates(stages)
         updates == {[name |-> k[1], face |-> k[2], action |-> fibUpdates[k].action,
                      cost |-> fibUpdates[k].cost] : k \in DOMAIN fibUpdates}
         own == {u \in updates : u.face = batch.face /\ batch.action # "removeFace"}
         others == {u \in updates : u.face # batch.face}
     IN  /\ queue' = Tail(queue)
         /\ current' = batch
         /\ forBatchFace' = own
         /\ forOtherFaces' = others
         /\ inherited' = [i \in DOMAIN stages |-> [rem |-> stages[i].rem, add |-> stages[i].add]]
         /\ \/ /\ own \union others # {}
               /\ sent' = sent (+) sendUpdates(IF own # {} THEN own ELSE others, batch)
               /\ inProgress' = TRUE /\ sending' = FALSE
               /\ timers' = IF batch.action = "register" THEN timers
                           ELSE canceled(batch.name, batch.face)
               /\ UNCHANGED <<rib, stopped>>
            \/ /\ own \union others = {}
               /\ onFibUpdateSuccess(batch, inherited')
               /\ UNCHANGED sent
         /\ mishaps' = mishaps \union (IF flagged(batch) THEN {"flag"} ELSE {})
                        \union (IF exposes(batch, DOMAIN fibUpdates) THEN {"exposed"} ELSE {})
  /\ UNCHANGED <<managerVars, fib, alive, counters>>

----------------------------------------------------------------------------
(* Answers to the commands                                                 *)

\* Mutant of executed: the next hop is added to a face that is gone.
executedBlindly(c) ==
  IF c.verb = "add" THEN [fib EXCEPT ![c.update.name] = Put(@, c.update.face, c.update.cost)]
                    ELSE fib

\* FibManager::addNextHop and removeNextHop on an existing face.
executed(c) ==
  LET n == c.update.name
      f == c.update.face
  IN  IF f \notin alive THEN fib
      ELSE IF c.verb = "add" THEN [fib EXCEPT ![n] = Put(@, f, c.update.cost)]
      ELSE [fib EXCEPT ![n] = [g \in DOMAIN @ \ {f} |-> @[g]]]
faceNotFound(c) == c.verb = "add" /\ c.update.face \notin alive

Answered(c) == sent (-) SetToBag({c})

\* An update of the batch's own face is done: the other updates follow the last one.
OwnUpdateDone(c) ==
  LET left == forBatchFace \ {c.update}
  IN  /\ forBatchFace' = left
      /\ \/ left # {} /\ sent' = Answered(c) /\ UNCHANGED <<rib, inProgress, timers, sending, stopped>>
         \/ /\ left = {} /\ forOtherFaces # {}
            /\ sent' = Answered(c) (+) sendUpdates(forOtherFaces, c.batch)
            /\ UNCHANGED <<rib, inProgress, timers, sending, stopped>>
         \/ /\ left = {} /\ forOtherFaces = {}
            /\ sent' = Answered(c) /\ onFibUpdateSuccess(c.batch, inherited)
      /\ UNCHANGED forOtherFaces

OtherUpdateDone(c) ==
  LET left == forOtherFaces \ {c.update}
  IN  /\ forOtherFaces' = left
      /\ sent' = Answered(c)
      /\ \/ left # {} /\ UNCHANGED <<rib, inProgress, timers, sending, stopped>>
         \/ left = {} /\ onFibUpdateSuccess(c.batch, inherited)
      /\ UNCHANGED forBatchFace

OnUpdateSuccess(c) ==
  /\ Ready /\ ~faceNotFound(c)
  /\ fib' = executed(c)
  /\ \/ c.update.face = current.face /\ OwnUpdateDone(c)
     \/ c.update.face # current.face /\ OtherUpdateDone(c)
  /\ UNCHANGED <<queue, current, inherited, managerVars, alive, counters, mishaps>>

\* onUpdateError with ERROR_FACE_NOT_FOUND.
OnFaceNotFound(c) ==
  /\ Ready /\ faceNotFound(c)
  /\ \/ /\ c.update.face = current.face
        /\ sent' = Answered(c) /\ onFibUpdateFailure
        /\ mishaps' = mishaps \union (IF Answered(c) # EmptyBag THEN {"overlap"} ELSE {})
        /\ UNCHANGED <<forBatchFace, forOtherFaces>>
     \/ c.update.face # current.face /\ OtherUpdateDone(c) /\ UNCHANGED mishaps
  /\ UNCHANGED <<queue, current, inherited, managerVars, fib, alive, counters>>

\* onUpdateError with ERROR_TIMEOUT: the command or its answer was lost.  It is sent
\* again as an addition, whatever it was.
OnTimeout(c) ==
  /\ Ready /\ (c.nTimeouts > 0 \/ nTimeouts < MaxTimeouts)
  /\ fib' \in {fib, executed(c)}
  /\ \/ /\ c.nTimeouts < MAX_NUM_TIMEOUTS
        /\ sent' = Answered(c)
                   (+) SetToBag({[c EXCEPT !.verb = "add", !.nTimeouts = @ + 1]})
        /\ UNCHANGED stopped
     \/ /\ c.nTimeouts >= MAX_NUM_TIMEOUTS
        /\ sent' = Answered(c)
        /\ stopped' = "error"
  /\ nTimeouts' = IF c.nTimeouts > 0 THEN nTimeouts ELSE nTimeouts + 1
  /\ mishaps' = mishaps \union (IF c.verb = "remove" THEN {"retry"} ELSE {})
  /\ UNCHANGED <<ribVars, updaterVars, sending, managerVars, alive, nUpdates>>

----------------------------------------------------------------------------
(* RibManager                                                              *)

\* The route of a registration, with its expiration event.
routeOf(x, event) ==
  [cost |-> x.route.cost, childInherit |-> x.route.childInherit,
   capture |-> x.route.capture, event |-> event]

RegisterEntry(x) ==
  /\ Ready /\ nUpdates < MaxUpdates /\ Len(queue) < MaxQueue
  /\ LET event == IF x.expires THEN nUpdates + 1 ELSE 0
     IN  /\ queue' = Append(queue, [action |-> "register", name |-> x.name, face |-> x.face,
                                    route |-> routeOf(x, event)])
         /\ timers' = timers \union
              (IF x.expires THEN {[name |-> x.name, face |-> x.face, event |-> event]} ELSE {})
  /\ sending' = TRUE
  /\ registered' = registered \union {x.face}
  /\ nUpdates' = nUpdates + 1
  /\ UNCHANGED <<rib, inProgress, updaterVars, sent, stopped, destroyed, fib, alive, nTimeouts, mishaps>>

UnregisterEntry(n, f) ==
  /\ Ready /\ nUpdates < MaxUpdates /\ Len(queue) < MaxQueue
  /\ queue' = Append(queue, [action |-> "unregister", name |-> n, face |-> f, event |-> 0])
  /\ sending' = TRUE
  /\ nUpdates' = nUpdates + 1
  /\ UNCHANGED <<rib, inProgress, timers, updaterVars, sent, stopped, managerVars, fib, alive, nTimeouts, mishaps>>

\* The batches that are queued or in progress.
pending == Range(queue) \union (IF inProgress THEN {current} ELSE {})
RegistrationOf(b, n, f) == b.action = "register" /\ b.name = n /\ b.face = f

\* Rib::onRouteExpiration: a new registration that is not applied yet has not canceled
\* the event, and the unregistration is queued behind it.
OnRouteExpiration(t) ==
  /\ Ready
  /\ timers' = timers \ {t}
  /\ queue' = Append(queue, [action |-> "unregister", name |-> t.name, face |-> t.face,
                             event |-> t.event])
  /\ sending' = TRUE
  /\ mishaps' = mishaps \union
       (IF \E b \in pending : RegistrationOf(b, t.name, t.face) /\ b.route.event # t.event
        THEN {"refresh"} ELSE {})
  /\ UNCHANGED <<rib, inProgress, updaterVars, sent, stopped, managerVars, fib, alive, counters>>

\* The forwarder removes the face from its FIB; its notification may be missed.
FaceDestroyed(f) ==
  /\ Ready /\ f \in alive
  /\ alive' = alive \ {f}
  /\ fib' = [n \in Names |-> [g \in DOMAIN fib[n] \ {f} |-> fib[n][g]]]
  /\ destroyed' \in {destroyed, destroyed \union {f}}
  /\ UNCHANGED <<ribVars, updaterVars, sent, sending, stopped, registered, counters, mishaps>>

\* onFaceDestroyedEvent with beginRemoveFace: a batch for every route of the face.
OnFaceDestroyedEvent(f) ==
  /\ Ready /\ f \in destroyed
  /\ \E names \in SetToSeqs({n \in Names : f \in DOMAIN rib[n].routes}) :
       queue' = queue \o [i \in DOMAIN names |->
                            [action |-> "removeFace", name |-> names[i], face |-> f]]
  /\ sending' = TRUE
  /\ destroyed' = destroyed \ {f}
  /\ registered' = registered \ {f}
  /\ UNCHANGED <<rib, inProgress, timers, updaterVars, sent, stopped, fib, alive, counters, mishaps>>

\* The list of active faces, fetched periodically and after a failed update.
RemoveInvalidFaces ==
  /\ Ready /\ registered \ (alive \union destroyed) # {}
  /\ destroyed' = destroyed \union (registered \ alive)
  /\ UNCHANGED <<ribVars, updaterVars, sent, sending, stopped, registered, fib, alive, counters, mishaps>>

----------------------------------------------------------------------------
Init ==
  /\ rib = [n \in Names |-> NoEntry]
  /\ queue = <<>> /\ inProgress = FALSE /\ timers = {}
  /\ current = [face |-> 0] /\ forBatchFace = {} /\ forOtherFaces = {} /\ inherited = <<>>
  /\ sent = EmptyBag /\ sending = FALSE /\ stopped = "no"
  /\ registered = {} /\ destroyed = {}
  /\ fib = [n \in Names |-> <<>>]
  /\ alive = Faces
  /\ nUpdates = 0 /\ nTimeouts = 0 /\ mishaps = {}

Answer(c) == OnUpdateSuccess(c) \/ OnFaceNotFound(c)

Next ==
  \/ SendNothing \/ SendBatchFromQueue
  \/ \E c \in BagToSet(sent) : Answer(c) \/ OnTimeout(c)
  \/ \E x \in Registrations : RegisterEntry(x)
  \/ \E n \in Names, f \in Faces : UnregisterEntry(n, f)
  \/ \E t \in timers : OnRouteExpiration(t)
  \/ \E f \in Destroyable : FaceDestroyed(f) \/ OnFaceDestroyedEvent(f)
  \/ RemoveInvalidFaces

Spec == Init /\ [][Next]_vars

----------------------------------------------------------------------------
(* Properties                                                              *)

Update ==
  [name : Names, face : Faces, action : {"register"}, route : Route]
    \union [name : Names, face : Faces, action : {"unregister"}, event : Nat]
    \union [name : Names, face : Faces, action : {"removeFace"}]
FibUpdate == [name : Names, face : Faces, action : {"add", "remove"}, cost : Nat]

\* The variables hold values of the types of their members (rib.hpp, fib-updater.hpp,
\* rib-manager.hpp).
TypeOK ==
  /\ \A n \in Names :
       /\ DOMAIN rib[n].routes \subseteq Faces
       /\ \A f \in DOMAIN rib[n].routes : rib[n].routes[f] \in Route
       /\ rib[n].inherited \in [Faces -> Nat] /\ rib[n].nCapture \in Int
       /\ DOMAIN fib[n] \subseteq alive
  /\ queue \in Seq(Update) /\ inProgress \in BOOLEAN
  /\ forBatchFace \subseteq FibUpdate /\ forOtherFaces \subseteq FibUpdate
  /\ \A c \in BagToSet(sent) : c.update \in FibUpdate /\ c.batch \in Update
  /\ sending \in BOOLEAN /\ stopped \in {"no", "error", "assert"}
  /\ registered \subseteq Faces /\ destroyed \subseteq Faces /\ alive \subseteq Faces
  /\ mishaps \subseteq {"retry", "overlap", "refresh", "flag", "exposed"}
  /\ timers \subseteq [name : Names, face : Faces, event : Nat]

\* No removal was retried (onUpdateError), and no batch failed with commands outstanding
\* (onFibUpdateFailure).
Undisturbed == mishaps \intersect {"retry", "overlap"} = {}

\* Moreover, no capture flag changed (Rib::insert), and no update reached names that its
\* entry shields from it (createFibUpdatesForErasedRoute).
Faithful == mishaps \subseteq {"refresh"}

\* Nothing is queued, in progress or under way.
Idle == Ready /\ queue = <<>> /\ ~inProgress /\ sent = EmptyBag /\ destroyed = {}

\* Entry a gives its route on face f to name n: no entry in between captures or has a
\* child-inherit route of its own on f, and n does not capture.
captures(n) == \E f \in DOMAIN rib[n].routes : rib[n].routes[f].capture
Gives(a, n, f) ==
  /\ a \in Above[n] /\ hasChildInheritOnFaceId(rib[a], f) /\ ~captures(n)
  /\ \A b \in Below[a] \intersect Above[n] :
       ~captures(b) /\ ~hasChildInheritOnFaceId(rib[b], f)

\* Once all updates are done, every next hop in the FIB stands for a route of its name or,
\* on a face that the name has no route for, for the route of the nearest ancestor that
\* gives it one, at that route's cost; and a name without an entry has no next hop.
\* Holds as long as the updates are undisturbed and faithful.
NextHopsJustified ==
  Idle /\ Faithful =>
    \A n \in Names : \A f \in DOMAIN fib[n] :
      IF f \in DOMAIN rib[n].routes THEN fib[n][f] = rib[n].routes[f].cost
      ELSE isIn(rib, n) /\ \E a \in Names : Gives(a, n, f) /\ fib[n][f] = rib[a].routes[f].cost

\* Once all updates are done, a name has in the FIB the route of the nearest ancestor that
\* gives it one, on every live face that it has no route for (traverseSubTree,
\* addInheritedRoutes).
InheritedInstalled ==
  Idle /\ Faithful =>
    \A a \in Names, n \in Names, f \in alive :
      isIn(rib, n) /\ Gives(a, n, f) /\ f \notin DOMAIN rib[n].routes =>
        f \in DOMAIN fib[n] /\ fib[n][f] = rib[a].routes[f].cost

\* The commands under way belong to one batch: computeAndSendFibUpdates is called only
\* after the previous batch has succeeded or failed, and nothing of it is outstanding.
OneBatchAtATime ==
  Undisturbed => \A c \in BagToSet(sent) : c.batch = current /\ inProgress

\* modifyInheritedRoutes finds an entry, and the record it removes, for every update it is
\* given, except when the last route of an entry is erased and that route captures, or
\* when a registration turns child-inherit off and capture on, which removes the records
\* below twice.
AssertedOnlyForCapture ==
  [][stopped # "assert" /\ stopped' = "assert" /\ Undisturbed =>
       LET routes == rib[current'.name].routes
           f == current'.face
       IN  /\ f \in DOMAIN routes
           /\ IF current'.action = "register"
                THEN /\ routes[f].childInherit /\ ~current'.route.childInherit
                     /\ ~routes[f].capture /\ current'.route.capture
                ELSE DOMAIN routes = {f} /\ routes[f].capture]_vars

\* addUpdateToQueue: "the added update will eventually be processed".  A queued batch is
\* behind one in progress, and one in progress waits for an answer that will advance the
\* queue: whatever fails, is refused or is lost, the queue is never held up.
QueueAdvances ==
  Ready => /\ queue # <<>> => inProgress
           /\ inProgress => sent # EmptyBag

\* A route with an expiration period on a live face is going to be removed: its event is
\* scheduled, or its unregistration is queued or in progress (Rib::insert takes over the
\* event of a new registration, whose unregistration may already be queued behind it).
ExpiryPending ==
  Undisturbed =>
    \A n \in Names : \A f \in DOMAIN rib[n].routes \intersect alive :
      LET e == rib[n].routes[f].event
      IN  e # 0 => \/ \E t \in timers : t.event = e
                   \/ \E b \in pending : b.action = "unregister" /\ b.name = n /\ b.face = f

\* registerEntry: "the old one will be cancelled during rib insertion".  An expiration
\* removes the route that it was scheduled for and never one registered since, unless the
\* route expired while its new registration was queued or in progress.
ExpiresOwnRoute ==
  [][LET b == current'
     IN  /\ mishaps' \intersect {"retry", "overlap", "refresh"} = {}
         /\ b.face \in alive /\ rib' # rib
         /\ b.action = "unregister" /\ b.event # 0 /\ b.face \in DOMAIN rib[b.name].routes
         => rib[b.name].routes[b.face].event = b.event]_vars

\* Once all updates are done, every route of the RIB on a live face is in the FIB with its
\* cost.
OwnRoutesInstalled ==
  Idle => \A n \in Names : \A f \in DOMAIN rib[n].routes \intersect alive :
            f \in DOMAIN fib[n] /\ fib[n][f] = rib[n].routes[f].cost

\* traverseSubTree: "If a route on the namespace has the same face ID and child inherit set,
\* ignore this face".  Once all updates are done, an inherited next hop has the cost of the
\* nearest ancestor's route, whatever farther ancestors offer on the face.
NearestInherited ==
  Idle /\ Undisturbed /\ "flag" \notin mishaps =>
    \A a \in Names, n \in Names : \A f \in DOMAIN fib[n] \ DOMAIN rib[n].routes :
      Gives(a, n, f) => fib[n][f] = rib[a].routes[f].cost
=============================================================================
