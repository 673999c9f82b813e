---------------------------- MODULE RttEstimator ----------------------------
(***************************************************************************)
(* The RTT estimator of a consumer (utils/ndn-rtt-estimator.cpp and        *)
(* utils/ndn-rtt-mean-deviation.cpp): its history of sent Interests and    *)
(* the retransmission timeout (RTO) it derives from them.                  *)
(*                                                                         *)
(* Times are counted in periods of the consumer's RetxTimer.  A history    *)
(* record keeps the time since rcvTime, which is the send time until the   *)
(* Data arrives, and rtt, rcvTime minus send time.                         *)
(***************************************************************************)
EXTENDS Integers, Sequences, SequencesExt

CONSTANTS
  MinRto, MaxRto,        \* attributes MinRTO and MaxRTO
  InitialRtt,            \* attribute InitialEstimation
  MaxMultiplier,
  Window                 \* the 3 minutes given to UpateRttHistory

ASSUME RttAssumption ==
  /\ MinRto \in Nat \ {0} /\ MaxRto \in Nat /\ MinRto <= MaxRto
  /\ InitialRtt \in Nat
  /\ MaxMultiplier \in Nat \ {0}
  /\ Window \in Nat

\* Times since rcvTime saturate where the window no longer tells them apart.
AgeCap == Window + 1

\* RttHistory::RttHistory
newRecord(s, rto) == [seq |-> s, age |-> 0, rtt |-> 0, rto |-> rto, retx |-> FALSE]

SmallerOf(x, y) == IF x < y THEN x ELSE y
LargerOf(x, y) == IF x > y THEN x ELSE y
Between(x, y) == SmallerOf(x, y)..LargerOf(x, y)
Clamp(x) == SmallerOf(MaxRto, LargerOf(MinRto, x))

\* The record of sequence number s, where there is one.
Sent(h, s) == \E i \in DOMAIN h : h[i].seq = s
RecordOf(h, s) == h[CHOOSE i \in DOMAIN h : h[i].seq = s]

----------------------------------------------------------------------------

\* Mutant of SetRetransmitbySeq: the record is not marked.
SetRtobySeq(h, S, rto) ==
  [i \in DOMAIN h |-> IF h[i].seq \in S THEN [h[i] EXCEPT !.rto = rto[h[i].seq]] ELSE h[i]]

\* SetRetransmitbySeq and SetInterestInfo for the re-sent Interests S.
Marked(r, rto) == [r EXCEPT !.retx = TRUE, !.rto = rto]
SetRetransmitbySeq(h, S, rto) ==
  [i \in DOMAIN h |-> IF h[i].seq \in S THEN Marked(h[i], rto[h[i].seq]) ELSE h[i]]

\* DiscardInterestBySeq for each of S.
DiscardInterestBySeq(h, S) ==
  LET Kept[i \in 0..Len(h)] ==
        IF i = 0 THEN <<>>
        ELSE IF h[i].seq \in S THEN Kept[i - 1] ELSE Append(Kept[i - 1], h[i])
  IN  Kept[Len(h)]

\* Mutant of GetRetransRtobySeq: no limit.
GetDoubleRtobySeq(h, s) == 2 * RecordOf(h, s).rto

GetRetransRtobySeq(h, s) == SmallerOf(MaxRto, 2 * RecordOf(h, s).rto)

IncreaseMultiplier(m) == IF 2 * m < MaxMultiplier THEN 2 * m ELSE MaxMultiplier

\* Measurement moves the estimate towards the sample: all the way the first
\* time, by the gain later.
Measurement(est, m) == Between(est, m)

\* AckSeq: a record that was never re-sent is measured and kept, another one
\* is erased.
Measured(r) == [r EXCEPT !.rtt = r.age, !.age = 0]
AckSeqHistory(h, s) ==
  IF Sent(h, s) /\ RecordOf(h, s).retx THEN DiscardInterestBySeq(h, {s})
  ELSE [i \in DOMAIN h |-> IF h[i].seq = s THEN Measured(h[i]) ELSE h[i]]

----------------------------------------------------------------------------
(* The RTO of a new Interest                                               *)

\* One turn of the loop of UpateRttHistory.  erase() invalidates i, which the
\* loop then increments.  With libstdc++'s deque i + 1 is the next record if
\* the erased one was in the first half; otherwise the next record is skipped,
\* and after the last one i never meets end() again (past).
UpdateStep(u) ==
  IF u.past \/ u.i > Len(u.h) THEN u
  ELSE IF u.h[u.i].age <= Window THEN [u EXCEPT !.i = u.i + 1]
  ELSE [h |-> RemoveAt(u.h, u.i),
        i |-> IF u.i - 1 < Len(u.h) \div 2 THEN u.i ELSE u.i + 1,
        past |-> u.i - 1 >= Len(u.h) \div 2 /\ u.i = Len(u.h)]

\* The loop ends after at most a turn for each record.
UpateRttHistory(h) ==
  LET Turn[n \in 0..Len(h)] ==
        IF n = 0 THEN [h |-> h, i |-> 1, past |-> FALSE] ELSE UpdateStep(Turn[n - 1])
  IN  Turn[Len(h)]

\* CalRTObyCorrelativity: a weighted mean of the RTTs of the records that
\* correlate with the new name (weights that sum to 1), or the estimate when
\* none does.  Which records correlate, and how much, is left open.
CalRTObyCorrelativity(h, est) ==
  LET rtts == {h[i].rtt : i \in {j \in DOMAIN h : h[j].rtt > 0 /\ h[j].age <= Window}}
  IN  {Clamp(v) : v \in {est} \union UNION {Between(x, y) : x, y \in rtts}}

\* RetransmitTimeout, where v is four times the variance.
RetransmitTimeout(est, m, v) ==
  SmallerOf(MaxRto, LargerOf(m * MinRto, m * (est + v)))

Older(r) == [r EXCEPT !.age = SmallerOf(r.age + 1, AgeCap)]
AgeHistory(h) == [i \in DOMAIN h |-> Older(h[i])]
=============================================================================
