------------------------------ MODULE Consumer ------------------------------
(***************************************************************************)
(* A consumer application (apps/ndn-consumer.cpp) and its RTT estimator.   *)
(*                                                                         *)
(* It requests sequence numbers 0, 1, ...; a request keeps a retransmission *)
(* timer, checked once per RetxTimer period, and is given up after RetxNum *)
(* transmissions.  The node's PIT holds an Interest for its lifetime, in   *)
(* which at most one Data comes back for it, or none.                      *)
(***************************************************************************)
EXTENDS RttEstimator, FiniteSets

CONSTANTS
  SeqMax,          \* m_seqMax
  RetxNum,         \* m_retxNum
  LifeTime,        \* attribute LifeTime
  Margins,         \* values that four times m_variance of m_rtt takes
  SameNames        \* initial values of sameName

ASSUME ConsumerAssumption ==
  /\ SeqMax \in Nat /\ RetxNum \in Nat \ {0} /\ LifeTime \in Nat \ {0}
  /\ Margins \subseteq Nat /\ SameNames \subseteq BOOLEAN

\* The longest RTO by correlation after c retransmissions, each of which doubles it up to
\* MaxRto, and the longest time that the first c transmissions take together.
FirstRto == Clamp(LargerOf(InitialRtt, LifeTime))
LongestRto[c \in 0..RetxNum] ==
  IF c = 0 THEN FirstRto ELSE SmallerOf(MaxRto, 2 * LongestRto[c - 1])
LongestTime[c \in 0..RetxNum] ==
  IF c = 0 THEN 0 ELSE LongestTime[c - 1] + LongestRto[c - 1]

\* The 3 minutes of the history cover all transmissions of a request (2 + 4 + 8
\* seconds by default); the history is purged where the RTO is by correlation.
ASSUME WindowAssumption ==
  FALSE \in SameNames => \A c \in 0..RetxNum : LongestTime[c] <= Window

VARIABLES
  sameName,     \* m_isSameWithLastInterest: FALSE for ConsumerRandomCbr only
  seq,          \* m_seq
  active,       \* m_active
  sendEvent,    \* m_sendEvent.IsRunning()
  timeouts,     \* m_seqTimeouts: of a request, the time left
  counts,       \* m_seqRetxCounts; m_seqFullDelay, m_seqLastDelay: its domain
  retxSeqs,     \* m_retxSeqs
  history,      \* m_history of m_rtt
  est,          \* m_currentEstimatedRtt of m_rtt
  multiplier,   \* m_multiplier of m_rtt
  pending,      \* the Interests in the node's PIT, with their time left
  undefined     \* the program ran into undefined behaviour

vars == <<sameName, seq, active, sendEvent, timeouts, counts, retxSeqs, history, est,
          multiplier, pending, undefined>>

Put(f, s, v) == [x \in DOMAIN f \union {s} |-> IF x = s THEN v ELSE f[x]]
Drop(f, S) == [x \in DOMAIN f \ S |-> f[x]]

----------------------------------------------------------------------------
(* SendPacket                                                              *)

\* The history that CalRTObyCorrelativity leaves, and the RTOs it may return.
updated == IF sameName THEN [h |-> history, past |-> FALSE] ELSE UpateRttHistory(history)
newRtos(h) ==
  IF sameName THEN {RetransmitTimeout(est, multiplier, v) : v \in Margins}
              ELSE CalRTObyCorrelativity(h, est)

\* m_active is FALSE, or all sequence numbers have been requested.
SendNothing ==
  /\ sendEvent /\ ~undefined
  /\ ~active \/ seq >= SeqMax
  /\ sendEvent' = FALSE
  /\ UNCHANGED <<sameName, seq, active, timeouts, counts, retxSeqs, history, est,
                 multiplier, pending, undefined>>

\* SendPacket with WaitBeforeSendOutInterest and ScheduleNextPacket; the event
\* comes after any delay (attribute Randomize).
SendPacket ==
  /\ sendEvent /\ ~undefined
  /\ active /\ seq < SeqMax
  /\ ~updated.past
  /\ \E rto \in newRtos(updated.h) :
       /\ timeouts' = Put(timeouts, seq, rto)
       /\ history' = Append(updated.h, newRecord(seq, rto))
  /\ counts' = Put(counts, seq, 1)
  /\ pending' = Put(pending, seq, LifeTime)
  /\ seq' = seq + 1
  /\ UNCHANGED <<sameName, active, sendEvent, retxSeqs, est, multiplier, undefined>>

\* UpateRttHistory runs past the end of the history.
SendPacketUndefined ==
  /\ sendEvent /\ ~undefined
  /\ active /\ seq < SeqMax
  /\ updated.past
  /\ undefined' = TRUE
  /\ UNCHANGED <<sameName, seq, active, sendEvent, timeouts, counts, retxSeqs, history,
                 est, multiplier, pending>>

----------------------------------------------------------------------------
(* OnData, for a Data of sequence number s                                 *)

OnData(s) ==
  /\ ~undefined
  /\ active /\ s \in DOMAIN pending
  /\ pending' = Drop(pending, {s})
  /\ counts' = Drop(counts, {s})
  /\ timeouts' = Drop(timeouts, {s})
  /\ retxSeqs' = retxSeqs \ {s}
  /\ history' = AckSeqHistory(history, s)
  /\ IF Sent(history, s) /\ ~RecordOf(history, s).retx
     THEN est' \in Measurement(est, RecordOf(history, s).age) /\ multiplier' = 1
     ELSE UNCHANGED <<est, multiplier>>
  /\ UNCHANGED <<sameName, seq, active, sendEvent, undefined>>

----------------------------------------------------------------------------
(* One RetxTimer period and the CheckRetxTimeout that ends it.  Each call  *)
(* of OnTimeout touches its own sequence number only, and m_multiplier.    *)

\* Mutants of Resend: one transmission too many, one too few.
ResendOnceMore(S) == {s \in S : counts[s] <= RetxNum}
ResendOnceLess(S) == {s \in S : counts[s] + 1 < RetxNum}

\* Of the requests S whose timer is due: those OnTimeout retransmits.
Resend(S) == {s \in S : counts[s] < RetxNum}

\* Mutant of Discarded: nothing of the request is erased.
DiscardedNever(S) == {}

\* Those OnTimeout gives up.
Discarded(S) == S \ Resend(S)

Raised(S) ==
  LET Raise[n \in 0..Cardinality(S)] ==
        IF n = 0 THEN multiplier ELSE IncreaseMultiplier(Raise[n - 1])
  IN  Raise[Cardinality(S)]

CheckRetxTimeout ==
  LET due == {s \in DOMAIN timeouts : timeouts[s] <= 1}
      aged == AgeHistory(history)
      \* GetNamebySeq finds no name once the record has left the history
      named == {s \in Resend(due) : Sent(history, s)}
      rto == [s \in named |-> GetRetransRtobySeq(history, s)]
  IN  /\ ~undefined
      /\ timeouts' = [s \in (DOMAIN timeouts \ due) \union named |->
                        IF s \in named THEN rto[s] ELSE timeouts[s] - 1]
      /\ counts' = [s \in DOMAIN counts \ Discarded(due) |->
                      IF s \in named THEN counts[s] + 1 ELSE counts[s]]
      /\ retxSeqs' = retxSeqs \union Resend(due)
      /\ history' = DiscardInterestBySeq(SetRetransmitbySeq(aged, named, rto),
                                         Discarded(due))
      /\ multiplier' = Raised(due)
      /\ sendEvent' = (sendEvent \/ Resend(due) # {})
      /\ pending' = [s \in {x \in DOMAIN pending : pending[x] > 0} \union named |->
                       IF s \in named THEN LifeTime ELSE pending[s] - 1]
      /\ UNCHANGED <<sameName, seq, active, est, undefined>>

----------------------------------------------------------------------------

StopApplication ==
  /\ active /\ ~undefined
  /\ active' = FALSE
  /\ sendEvent' = FALSE
  /\ UNCHANGED <<sameName, seq, timeouts, counts, retxSeqs, history, est, multiplier,
                 pending, undefined>>

\* StartApplication has run.
Init ==
  /\ sameName \in SameNames
  /\ seq = 0
  /\ active = TRUE
  /\ sendEvent = TRUE
  /\ timeouts = [s \in {} |-> 0]
  /\ counts = [s \in {} |-> 0]
  /\ retxSeqs = {}
  /\ history = <<>>
  /\ est = InitialRtt
  /\ multiplier = 1
  /\ pending = [s \in {} |-> 0]
  /\ undefined = FALSE

Next ==
  \/ SendNothing
  \/ SendPacket
  \/ SendPacketUndefined
  \/ \E s \in DOMAIN pending : OnData(s)
  \/ CheckRetxTimeout
  \/ StopApplication

\* CheckRetxTimeout reschedules itself for ever, whether active or not.
Spec == Init /\ [][Next]_vars /\ WF_vars(CheckRetxTimeout)

----------------------------------------------------------------------------
(* Properties                                                              *)

TypeOK ==
  /\ sameName \in BOOLEAN
  /\ seq \in 0..SeqMax
  /\ active \in BOOLEAN /\ sendEvent \in BOOLEAN /\ undefined \in BOOLEAN
  /\ DOMAIN timeouts \subseteq 0..seq - 1
  /\ \A s \in DOMAIN timeouts : timeouts[s] \in 1..MaxRto
  /\ DOMAIN counts \subseteq 0..seq - 1 /\ \A s \in DOMAIN counts : counts[s] \in Nat
  /\ retxSeqs \subseteq 0..seq - 1
  /\ history \in Seq([seq : 0..seq - 1, age : 0..AgeCap, rtt : 0..LifeTime,
                      rto : MinRto..MaxRto, retx : BOOLEAN])
  /\ est \in 0..LargerOf(InitialRtt, LifeTime)
  /\ multiplier \in 1..MaxMultiplier
  /\ DOMAIN pending \subseteq 0..seq - 1
  /\ \A s \in DOMAIN pending : pending[s] \in 0..LifeTime

\* The consumer's four containers and the estimator's history agree, whatever
\* the order of sends, Data, timeouts and the purge of old records: a request
\* in progress has a running timer no longer than its RTO and a history record,
\* which is marked exactly when the request was transmitted again, and it was
\* transmitted at most RetxNum times ("We allow retransmition twice",
\* ndn-consumer.cpp:85, of m_retxNum(3)).
RequestsTracked ==
  /\ DOMAIN timeouts = DOMAIN counts
  /\ \A s \in DOMAIN counts :
       /\ counts[s] \in 1..RetxNum
       /\ Sent(history, s)
       /\ LET r == RecordOf(history, s)
          IN  r.rtt = 0 /\ (r.retx <=> counts[s] > 1) /\ timeouts[s] <= r.rto

\* Karn's rule: only the Data of a request that was transmitted once moves the
\* estimate, although the answer to a retransmission carries the same name.
KarnRule ==
  [][est' # est => \E s \in DOMAIN counts : counts[s] = 1 /\ OnData(s)]_vars

\* A request ends only with its Data, or when the timer of its last permitted
\* transmission runs out.
NeverGivenUpEarly ==
  [][\A s \in DOMAIN counts \ DOMAIN counts' :
       \/ OnData(s)
       \/ counts[s] = RetxNum /\ timeouts[s] <= 1]_vars

\* Every request ends, StopApplication or not.
RequestResolved ==
  \A s \in 0..SeqMax - 1 : s \in DOMAIN counts ~> s \notin DOMAIN counts \/ undefined

\* "Update with 3 minutes" (ndn-rtt-mean-deviation.cpp:222): the history from
\* which a new RTO is computed holds no record older than the window.
HistoryWithinWindow ==
  [][seq' # seq \/ undefined' # undefined =>
       ~undefined' /\ \A i \in DOMAIN history' : history'[i].age <= Window]_vars
=============================================================================
