------------------------- MODULE ContentStoreProofs -------------------------
(***************************************************************************)
(* Proofs about ContentStore for any set of Data packets, any freshness,   *)
(* any capacities and both replacement policies.                           *)
(***************************************************************************)
EXTENDS ContentStore, FiniteSetTheorems, FiniteInduction, TLAPS

Queues == [QueueTypes -> Seq(Data)]

(* The number of places in the queues. *)
Places(Q) == Len(Q["lru"]) + Len(Q["unsolicited"]) + Len(Q["stale"])
               + Len(Q["fifo"])

(* The cleanup index of a table T: IndexConsistent for given values. *)
Consistent(ix, T, uns, stales, p, time) ==
  /\ ix.queues \in Queues
  /\ \A d \in DOMAIN ix.queueType :
       ix.queueType[d] \in {"unsolicited", "stale", "fifo"}
  /\ Placed(ix.queues, T)
  /\ InItsQueue(ix.queues, ix.queueType, p)
  /\ Timed(ix.queueType, ix.timers, T, uns, stales, p, time)

-----------------------------------------------------------------------------
(* Removing one element from a sequence without repetitions. *)

\* What Without returns, by position.
LEMMA WithoutAt ==
  ASSUME NEW q \in Seq(Data), NEW k \in DOMAIN q,
         \A i, j \in DOMAIN q : q[i] = q[j] => i = j
  PROVE  /\ Without(q, q[k]) \in Seq(Data)
         /\ Len(Without(q, q[k])) = Len(q) - 1
         /\ \A i \in 1 .. Len(q) - 1 :
              Without(q, q[k])[i] = IF i < k THEN q[i] ELSE q[i + 1]
<1>1. (CHOOSE i \in DOMAIN q : q[i] = q[k]) = k
  OBVIOUS
<1>2. k \in 1 .. Len(q)
  OBVIOUS
<1>3. Without(q, q[k]) = SubSeq(q, 1, k - 1) \o SubSeq(q, k + 1, Len(q))
  BY <1>1 DEF Without, RemoveAt
<1>4. /\ SubSeq(q, 1, k - 1) \in Seq(Data)
      /\ Len(SubSeq(q, 1, k - 1)) = k - 1
      /\ \A i \in 1 .. k - 1 : SubSeq(q, 1, k - 1)[i] = q[i]
  BY <1>2
<1>5. /\ SubSeq(q, k + 1, Len(q)) \in Seq(Data)
      /\ Len(SubSeq(q, k + 1, Len(q))) = Len(q) - k
      /\ \A i \in 1 .. Len(q) - k : SubSeq(q, k + 1, Len(q))[i] = q[k + i]
  BY <1>2
<1>6. \A a, b \in Seq(Data) :
        /\ a \o b \in Seq(Data)
        /\ Len(a \o b) = Len(a) + Len(b)
        /\ \A i \in 1 .. Len(a) + Len(b) :
             (a \o b)[i] = IF i <= Len(a) THEN a[i] ELSE b[i - Len(a)]
  OBVIOUS
<1>7. Len(q) \in Nat /\ k \in Nat
  OBVIOUS
<1> DEFINE a == SubSeq(q, 1, k - 1)
           b == SubSeq(q, k + 1, Len(q))
<1>8. /\ a \o b \in Seq(Data)
      /\ Len(a \o b) = Len(a) + Len(b)
      /\ \A i \in 1 .. Len(a) + Len(b) :
             (a \o b)[i] = IF i <= Len(a) THEN a[i] ELSE b[i - Len(a)]
  BY <1>4, <1>5, <1>6
<1>9. Len(a) = k - 1 /\ Len(b) = Len(q) - k
  BY <1>4, <1>5
<1>10. ASSUME NEW i \in 1 .. Len(q) - 1
       PROVE  (a \o b)[i] = IF i < k THEN q[i] ELSE q[i + 1]
  <2>1. (a \o b)[i] = IF i <= k - 1 THEN a[i] ELSE b[i - (k - 1)]
    <3> HIDE DEF a, b
    <3>1. i \in 1 .. Len(a) + Len(b)
      BY <1>7, <1>9
    <3>2. (a \o b)[i] = IF i <= Len(a) THEN a[i] ELSE b[i - Len(a)]
      BY <1>8, <3>1
    <3> QED
      BY <1>9, <3>2
  <2>2. CASE i < k
    <3>1. i \in 1 .. k - 1
      BY <1>7, <2>2
    <3> QED
      BY <1>4, <2>1, <2>2, <3>1
  <2>3. CASE i >= k
    <3>1. i - (k - 1) \in 1 .. Len(q) - k /\ k + (i - (k - 1)) = i + 1
      BY <1>7, <2>3
    <3>2. b[i - (k - 1)] = q[i + 1]
      BY <1>5, <3>1
    <3>3. ~(i <= k - 1) /\ ~(i < k)
      BY <1>7, <2>3
    <3> QED
      BY <2>1, <3>2, <3>3
  <2>4. i < k \/ i >= k
    BY <1>7
  <2> QED
    BY <2>2, <2>3, <2>4
<1>11. Len(a \o b) = Len(q) - 1
  BY <1>7, <1>8, <1>9, SMTT(30)
<1> QED
  BY <1>3, <1>8, <1>10, <1>11

-----------------------------------------------------------------------------
(* The queues hold the table: what each operation on them keeps. *)

\* A packet that is in no queue is put at the end of one.
LEMMA AppendPlaced ==
  ASSUME NEW Q \in Queues, NEW T \in SUBSET Data, Placed(Q, T),
         NEW d \in Data \ T, NEW type \in QueueTypes,
         NEW R, R = [Q EXCEPT ![type] = Append(@, d)]
  PROVE  /\ R \in Queues
         /\ Placed(R, T \union {d})
<1>1. R \in Queues
  BY DEF Queues
<1>2. \A q \in QueueTypes \ {type} : R[q] = Q[q]
  BY DEF Queues
<1>3. /\ Q[type] \in Seq(Data)
      /\ R[type] \in Seq(Data)
      /\ Len(R[type]) = Len(Q[type]) + 1
      /\ \A i \in 1 .. Len(Q[type]) : R[type][i] = Q[type][i]
      /\ R[type][Len(Q[type]) + 1] = d
  BY DEF Queues
<1>4. DOMAIN R[type] = DOMAIN Q[type] \union {Len(Q[type]) + 1}
  BY <1>3
<1>5. \A q \in QueueTypes : \A i \in DOMAIN R[q] :
        \/ i \in DOMAIN Q[q] /\ R[q][i] = Q[q][i] /\ R[q][i] \in T
        \/ q = type /\ i = Len(Q[type]) + 1 /\ R[q][i] = d
  BY <1>2, <1>3, <1>4 DEF Placed
<1>6. \A q \in QueueTypes : \A i \in DOMAIN Q[q] :
        i \in DOMAIN R[q] /\ R[q][i] = Q[q][i]
  BY <1>2, <1>3, <1>4
<1>7. \A q \in QueueTypes : \A i \in DOMAIN R[q] : R[q][i] \in T \union {d}
  BY <1>5
<1>8. \A e \in T \union {d} : \E q \in QueueTypes : \E i \in DOMAIN R[q] :
        R[q][i] = e
  <2> SUFFICES ASSUME NEW e \in T \union {d}
               PROVE  \E q \in QueueTypes : \E i \in DOMAIN R[q] : R[q][i] = e
    OBVIOUS
  <2>1. CASE e = d
    BY <1>3, <1>4, <2>1
  <2>2. CASE e \in T
    <3>1. PICK q \in QueueTypes : \E i \in DOMAIN Q[q] : Q[q][i] = e
      BY <2>2 DEF Placed
    <3>2. PICK i \in DOMAIN Q[q] : Q[q][i] = e
      BY <3>1
    <3> QED
      BY <3>2, <1>6
  <2> QED
    BY <2>1, <2>2
<1>9. \A q, r \in QueueTypes : \A i \in DOMAIN R[q], j \in DOMAIN R[r] :
        R[q][i] = R[r][j] => q = r /\ i = j
  BY <1>5 DEF Placed
<1> QED
  BY <1>1, <1>7, <1>8, <1>9 DEF Placed

\* A packet is taken out of its queue, wherever in the queue it is.
LEMMA WithoutPlaced ==
  ASSUME NEW Q \in Queues, NEW T \in SUBSET Data, Placed(Q, T),
         NEW d, NEW type \in QueueTypes, NEW k \in DOMAIN Q[type],
         Q[type][k] = d,
         NEW R, R = [q \in QueueTypes |-> R[q]],
         R[type] = Without(Q[type], d),
         \A q \in QueueTypes \ {type} : R[q] = Q[q]
  PROVE  /\ R \in Queues
         /\ Placed(R, T \ {d})
         /\ \A q \in QueueTypes : \A i \in DOMAIN R[q] :
              \E j \in DOMAIN Q[q] : R[q][i] = Q[q][j]
<1>1. \A q \in QueueTypes \ {type} : R[q] = Q[q]
  OBVIOUS
<1>2. Q[type] \in Seq(Data)
  BY DEF Queues
<1>3. \A i, j \in DOMAIN Q[type] : Q[type][i] = Q[type][j] => i = j
  BY DEF Placed
<1>4. /\ R[type] \in Seq(Data)
      /\ Len(R[type]) = Len(Q[type]) - 1
      /\ \A i \in 1 .. Len(Q[type]) - 1 :
           R[type][i] = IF i < k THEN Q[type][i] ELSE Q[type][i + 1]
  BY <1>2, <1>3, WithoutAt DEF Queues
<1>5. R \in Queues
  BY <1>4 DEF Queues
<1>6. DOMAIN Q[type] = 1 .. Len(Q[type]) /\ DOMAIN R[type] = 1 .. Len(Q[type]) - 1
  BY <1>2, <1>4
<1> DEFINE old(q, i) == IF q = type /\ i >= k THEN i + 1 ELSE i
<1>7. \A q \in QueueTypes : \A i \in DOMAIN R[q] :
        old(q, i) \in DOMAIN Q[q] /\ R[q][i] = Q[q][old(q, i)]
  <2> SUFFICES ASSUME NEW q \in QueueTypes, NEW i \in DOMAIN R[q]
               PROVE  old(q, i) \in DOMAIN Q[q] /\ R[q][i] = Q[q][old(q, i)]
    OBVIOUS
  <2>1. CASE q # type
    BY <2>1, <1>1
  <2>2. CASE q = type
    BY <2>2, <1>2, <1>4, <1>6
  <2> QED
    BY <2>1, <2>2
<1>8. \A q \in QueueTypes : \A i \in DOMAIN R[q] : R[q][i] # d
  <2> SUFFICES ASSUME NEW q \in QueueTypes, NEW i \in DOMAIN R[q], R[q][i] = d
               PROVE  FALSE
    OBVIOUS
  <2>1. old(q, i) \in DOMAIN Q[q] /\ Q[q][old(q, i)] = Q[type][k]
    BY <1>7
  <2>2. q = type /\ old(q, i) = k
    <3> HIDE DEF old
    <3> QED
      BY <2>1 DEF Placed
  <2> QED
    BY <2>2, <1>6
<1>9. \A q \in QueueTypes : \A i \in DOMAIN R[q] : R[q][i] \in T \ {d}
  BY <1>7, <1>8 DEF Placed
<1>10. \A e \in T \ {d} : \E q \in QueueTypes : \E i \in DOMAIN R[q] :
         R[q][i] = e
  <2> SUFFICES ASSUME NEW e \in T \ {d}
               PROVE  \E q \in QueueTypes : \E i \in DOMAIN R[q] : R[q][i] = e
    OBVIOUS
  <2>1. PICK q \in QueueTypes : \E j \in DOMAIN Q[q] : Q[q][j] = e
    BY DEF Placed
  <2>2. PICK j \in DOMAIN Q[q] : Q[q][j] = e
    BY <2>1
  <2>3. CASE q # type
    BY <2>2, <2>3, <1>1
  <2>4. CASE q = type
    <3>1. j # k
      BY <2>2, <2>4
    <3>2. j \in 1 .. Len(Q[type]) /\ k \in 1 .. Len(Q[type])
      BY <1>6, <2>2, <2>4
    <3>3. Len(Q[type]) \in Nat
      BY <1>2
    <3>4. CASE j < k
      <4>1. j \in 1 .. Len(Q[type]) - 1
        BY <3>2, <3>3, <3>4
      <4> QED
        BY <4>1, <3>4, <2>2, <2>4, <1>4, <1>6
    <3>5. CASE j > k
      <4>1. /\ j - 1 \in 1 .. Len(Q[type]) - 1
            /\ ~(j - 1 < k) /\ (j - 1) + 1 = j
        BY <3>2, <3>3, <3>5
      <4> QED
        BY <4>1, <2>2, <2>4, <1>4, <1>6
    <3> QED
      BY <3>1, <3>2, <3>3, <3>4, <3>5
  <2> QED
    BY <2>3, <2>4
<1>11. \A q, r \in QueueTypes : \A i \in DOMAIN R[q], j \in DOMAIN R[r] :
         R[q][i] = R[r][j] => q = r /\ i = j
  <2> SUFFICES ASSUME NEW q \in QueueTypes, NEW r \in QueueTypes,
                      NEW i \in DOMAIN R[q], NEW j \in DOMAIN R[r],
                      R[q][i] = R[r][j]
               PROVE  q = r /\ i = j
    OBVIOUS
  <2>1. q = r /\ old(q, i) = old(r, j)
    <3>1. /\ old(q, i) \in DOMAIN Q[q] /\ old(r, j) \in DOMAIN Q[r]
          /\ Q[q][old(q, i)] = Q[r][old(r, j)]
      BY <1>7
    <3> HIDE DEF old
    <3> QED
      BY <3>1 DEF Placed
  <2>2. i \in Int /\ j \in Int
    BY <1>5 DEF Queues
  <2> QED
    BY <2>1, <2>2, <1>6
<1> QED
  BY <1>5, <1>7, <1>9, <1>10, <1>11 DEF Placed

\* What is left of a sequence when its first k members are dropped.
LEMMA DropFront ==
  ASSUME NEW q \in Seq(Data), NEW k \in Nat, k <= Len(q)
  PROVE  /\ SubSeq(q, k + 1, Len(q)) \in Seq(Data)
         /\ Len(SubSeq(q, k + 1, Len(q))) = Len(q) - k
         /\ \A i \in 1 .. Len(q) - k : SubSeq(q, k + 1, Len(q))[i] = q[i + k]
<1>1. Len(q) \in Nat
  OBVIOUS
<1>2. \A i \in 1 .. Len(q) - k : k + 1 + i - 1 = i + k
  BY <1>1
<1> QED
  BY <1>1, <1>2

\* Two places of the queues that hold the same packet are the same place.
LEMMA OnePlace ==
  ASSUME NEW Q, NEW T, Placed(Q, T), NEW q \in QueueTypes, NEW r \in QueueTypes,
         NEW i \in DOMAIN Q[q], NEW j \in DOMAIN Q[r], Q[q][i] = Q[r][j]
  PROVE  q = r /\ i = j
  BY DEF Placed

\* Any number of packets is taken from the front of each queue.
LEMMA DropPlaced ==
  ASSUME NEW Q \in Queues, NEW T \in SUBSET Data, Placed(Q, T),
         NEW k \in [QueueTypes -> Nat],
         \A q \in QueueTypes : k[q] <= Len(Q[q])
  PROVE  LET R == [q \in QueueTypes |-> SubSeq(Q[q], k[q] + 1, Len(Q[q]))]
             gone == UNION {{Q[q][i] : i \in 1 .. k[q]} : q \in QueueTypes}
         IN  /\ R \in Queues
             /\ Placed(R, T \ gone)
             /\ \A q \in QueueTypes : Len(R[q]) = Len(Q[q]) - k[q]
             /\ \A q \in QueueTypes : \A i \in DOMAIN R[q] :
                  \E j \in DOMAIN Q[q] : R[q][i] = Q[q][j]
<1> DEFINE R == [q \in QueueTypes |-> SubSeq(Q[q], k[q] + 1, Len(Q[q]))]
           gone == UNION {{Q[q][i] : i \in 1 .. k[q]} : q \in QueueTypes}
<1>1. \A q \in QueueTypes : /\ Q[q] \in Seq(Data) /\ Len(Q[q]) \in Nat
                            /\ k[q] \in Nat /\ DOMAIN Q[q] = 1 .. Len(Q[q])
  BY DEF Queues
<1>2. ASSUME NEW q \in QueueTypes
      PROVE  /\ R[q] \in Seq(Data)
             /\ Len(R[q]) = Len(Q[q]) - k[q]
             /\ DOMAIN R[q] = 1 .. Len(Q[q]) - k[q]
             /\ \A i \in 1 .. Len(Q[q]) - k[q] : R[q][i] = Q[q][i + k[q]]
  <2>1. R[q] = SubSeq(Q[q], k[q] + 1, Len(Q[q]))
    OBVIOUS
  <2> HIDE DEF R
  <2>2. Q[q] \in Seq(Data) /\ k[q] \in Nat /\ k[q] <= Len(Q[q])
    BY <1>1
  <2>3. /\ R[q] \in Seq(Data)
        /\ Len(R[q]) = Len(Q[q]) - k[q]
        /\ \A i \in 1 .. Len(Q[q]) - k[q] : R[q][i] = Q[q][i + k[q]]
    BY <2>1, <2>2, DropFront
  <2> QED
    BY <2>3
<1>3. R \in Queues
  BY <1>2 DEF Queues
<1> HIDE DEF R
<1>4. ASSUME NEW q \in QueueTypes, NEW i \in DOMAIN R[q]
      PROVE  /\ i \in Int /\ i >= 1 /\ i + k[q] \in DOMAIN Q[q]
             /\ R[q][i] = Q[q][i + k[q]]
  <2>1. i \in 1 .. Len(Q[q]) - k[q]
    BY <1>2
  <2>2. R[q][i] = Q[q][i + k[q]]
    BY <1>2, <2>1
  <2>3. Len(Q[q]) \in Nat /\ k[q] \in Nat /\ DOMAIN Q[q] = 1 .. Len(Q[q])
    BY <1>1
  <2>4. i \in Int /\ i >= 1 /\ i + k[q] \in 1 .. Len(Q[q])
    BY <2>1, <2>3
  <2> QED
    BY <2>2, <2>3, <2>4
<1>5. ASSUME NEW q \in QueueTypes, NEW i \in DOMAIN R[q] PROVE R[q][i] \notin gone
  <2> SUFFICES ASSUME NEW r \in QueueTypes, NEW j \in 1 .. k[r],
                      R[q][i] = Q[r][j]
               PROVE  FALSE
    OBVIOUS
  <2>1. j \in DOMAIN Q[r]
    BY <1>1
  <2>2. i + k[q] \in DOMAIN Q[q] /\ Q[q][i + k[q]] = Q[r][j]
    BY <1>4
  <2>3. q = r /\ i + k[q] = j
    <3>1. PICK m \in DOMAIN Q[q] : m = i + k[q]
      BY <2>2
    <3>2. Q[q][m] = Q[r][j]
      BY <2>2, <3>1
    <3>3. q = r /\ m = j
      BY <2>1, <3>2, OnePlace
    <3> QED
      BY <3>1, <3>3
  <2> QED
    BY <1>1, <1>4, <2>3
<1>6. ASSUME NEW q \in QueueTypes, NEW i \in DOMAIN R[q]
      PROVE  R[q][i] \in T \ gone
  <2>1. i + k[q] \in DOMAIN Q[q] /\ R[q][i] = Q[q][i + k[q]]
    BY <1>4
  <2>2. Q[q][i + k[q]] \in T
    BY <2>1 DEF Placed
  <2> QED
    BY <1>5, <2>1, <2>2
<1>7. \A e \in T \ gone : \E q \in QueueTypes : \E i \in DOMAIN R[q] :
        R[q][i] = e
  <2> SUFFICES ASSUME NEW e \in T \ gone
               PROVE  \E q \in QueueTypes : \E i \in DOMAIN R[q] : R[q][i] = e
    OBVIOUS
  <2>1. PICK q \in QueueTypes : \E j \in DOMAIN Q[q] : Q[q][j] = e
    BY DEF Placed
  <2>2. PICK j \in DOMAIN Q[q] : Q[q][j] = e
    BY <2>1
  <2>3. j \notin 1 .. k[q]
    BY <2>2
  <2>4. j - k[q] \in 1 .. Len(Q[q]) - k[q] /\ (j - k[q]) + k[q] = j
    BY <1>1, <2>3
  <2>5. j - k[q] \in DOMAIN R[q] /\ R[q][j - k[q]] = e
    BY <1>2, <2>2, <2>4
  <2> QED
    BY <2>5
<1>8. \A q, r \in QueueTypes : \A i \in DOMAIN R[q], j \in DOMAIN R[r] :
        R[q][i] = R[r][j] => q = r /\ i = j
  <2> SUFFICES ASSUME NEW q \in QueueTypes, NEW r \in QueueTypes,
                      NEW i \in DOMAIN R[q], NEW j \in DOMAIN R[r],
                      R[q][i] = R[r][j]
               PROVE  q = r /\ i = j
    OBVIOUS
  <2>1. q = r /\ i + k[q] = j + k[r]
    <3>1. /\ i + k[q] \in DOMAIN Q[q] /\ j + k[r] \in DOMAIN Q[r]
          /\ Q[q][i + k[q]] = Q[r][j + k[r]]
      BY <1>4
    <3>2. PICK m \in DOMAIN Q[q] : m = i + k[q]
      BY <3>1
    <3>3. PICK n \in DOMAIN Q[r] : n = j + k[r]
      BY <3>1
    <3>4. Q[q][m] = Q[r][n]
      BY <3>1, <3>2, <3>3
    <3>5. q = r /\ m = n
      BY <3>4, OnePlace
    <3> QED
      BY <3>2, <3>3, <3>5
  <2> QED
    BY <1>1, <1>4, <2>1
<1>9. Placed(R, T \ gone)
  BY <1>6, <1>7, <1>8 DEF Placed
<1>10. \A q \in QueueTypes : \A i \in DOMAIN R[q] :
         \E j \in DOMAIN Q[q] : R[q][i] = Q[q][j]
  BY <1>4
<1> QED
  BY <1>2, <1>3, <1>9, <1>10 DEF R

-----------------------------------------------------------------------------
(* The size of the table is the number of places in the queues. *)

\* A sequence without repetitions has as many members as places.
LEMMA RangeSize ==
  ASSUME NEW q \in Seq(Data),
         \A i, j \in DOMAIN q : q[i] = q[j] => i = j,
         NEW S, S = {q[i] : i \in DOMAIN q}
  PROVE  IsFiniteSet(S) /\ Cardinality(S) = Len(q)
<1>1. DOMAIN q = 1 .. Len(q) /\ Len(q) \in Nat
  OBVIOUS
<1>2. q \in Bijection(1 .. Len(q), S)
  BY <1>1 DEF Bijection, Injection, Surjection, IsInjective
<1>3. ExistsBijection(1 .. Len(q), S)
  BY <1>2 DEF ExistsBijection
<1>4. IsFiniteSet(1 .. Len(q)) /\ Cardinality(1 .. Len(q)) = Len(q)
  BY <1>1, FS_Interval
<1> QED
  BY <1>3, <1>4, FS_Bijection

\* The size of the union of two sets that have no member in common.
LEMMA DisjointSize ==
  ASSUME NEW S, NEW T, IsFiniteSet(S), IsFiniteSet(T), S \intersect T = {}
  PROVE  /\ IsFiniteSet(S \union T)
         /\ Cardinality(S \union T) = Cardinality(S) + Cardinality(T)
<1>1. Cardinality(S) \in Nat /\ Cardinality(T) \in Nat
  BY FS_CardinalityType
<1> QED
  BY <1>1, FS_Union, FS_EmptySet

\* The table has as many packets as the queues have places.
LEMMA PlacedSize ==
  ASSUME NEW Q \in Queues, NEW T \in SUBSET Data, Placed(Q, T)
  PROVE  /\ IsFiniteSet(T)
         /\ Cardinality(T) = Places(Q)
<1> DEFINE members(q) == {Q[q][i] : i \in DOMAIN Q[q]}
<1>1. ASSUME NEW q \in QueueTypes
      PROVE  /\ IsFiniteSet(members(q)) /\ Cardinality(members(q)) = Len(Q[q])
             /\ Len(Q[q]) \in Nat
  <2>1. Q[q] \in Seq(Data)
    BY DEF Queues
  <2>2. \A i, j \in DOMAIN Q[q] : Q[q][i] = Q[q][j] => i = j
    BY DEF Placed
  <2> QED
    BY <2>1, <2>2, RangeSize
<1>2. ASSUME NEW q \in QueueTypes, NEW r \in QueueTypes, q # r
      PROVE  members(q) \intersect members(r) = {}
  BY <1>2 DEF Placed
<1>3. T = UNION {members(q) : q \in QueueTypes}
  BY DEF Placed
<1>4. /\ "lru" \in QueueTypes /\ "unsolicited" \in QueueTypes
      /\ "stale" \in QueueTypes /\ "fifo" \in QueueTypes
  BY DEF QueueTypes
<1>5. T = ((members("lru") \union members("unsolicited"))
             \union members("stale")) \union members("fifo")
  BY <1>3 DEF QueueTypes
<1> DEFINE A == members("lru") \union members("unsolicited")
           B == A \union members("stale")
<1> HIDE DEF members
<1>6. /\ IsFiniteSet(A)
      /\ Cardinality(A) = Len(Q["lru"]) + Len(Q["unsolicited"])
  <2>1. members("lru") \intersect members("unsolicited") = {}
    BY <1>2, <1>4
  <2>2. IsFiniteSet(members("lru")) /\ IsFiniteSet(members("unsolicited"))
    BY <1>1, <1>4
  <2>3. Cardinality(A) = Cardinality(members("lru"))
                           + Cardinality(members("unsolicited"))
    BY <2>1, <2>2, DisjointSize
  <2>4. IsFiniteSet(A)
    BY <2>1, <2>2, DisjointSize
  <2> QED
    BY <1>1, <1>4, <2>3, <2>4
<1>7. /\ IsFiniteSet(B)
      /\ Cardinality(B) = Cardinality(A) + Len(Q["stale"])
  <2>1. A \intersect members("stale") = {}
    BY <1>2, <1>4
  <2>2. /\ IsFiniteSet(members("stale"))
        /\ Cardinality(members("stale")) = Len(Q["stale"])
    BY <1>1, <1>4
  <2> HIDE DEF A
  <2> QED
    BY <1>6, <2>1, <2>2, DisjointSize
<1>8. /\ IsFiniteSet(T)
      /\ Cardinality(T) = Cardinality(B) + Len(Q["fifo"])
  <2>1. B \intersect members("fifo") = {}
    BY <1>2, <1>4
  <2>2. T = B \union members("fifo")
    BY <1>5
  <2> HIDE DEF B
  <2> QED
    BY <1>1, <1>4, <1>7, <2>1, <2>2, DisjointSize
<1> QED
  BY <1>1, <1>4, <1>6, <1>7, <1>8 DEF Places

\* The number of places when k[q] of them are taken from every queue q.
LEMMA PlacesDrop ==
  ASSUME NEW Q \in Queues, NEW R \in Queues, NEW k \in [QueueTypes -> Nat],
         \A q \in QueueTypes : Len(R[q]) = Len(Q[q]) - k[q]
  PROVE  /\ Places(Q) \in Nat
         /\ Places(R) = Places(Q) - (k["lru"] + k["unsolicited"]
                                       + k["stale"] + k["fifo"])
<1>1. \A q \in QueueTypes : Len(Q[q]) \in Nat /\ k[q] \in Nat
  BY DEF Queues
<1>2. /\ "lru" \in QueueTypes /\ "unsolicited" \in QueueTypes
      /\ "stale" \in QueueTypes /\ "fifo" \in QueueTypes
  BY DEF QueueTypes
<1>3. /\ Len(Q["lru"]) \in Nat /\ Len(Q["unsolicited"]) \in Nat
      /\ Len(Q["stale"]) \in Nat /\ Len(Q["fifo"]) \in Nat
      /\ k["lru"] \in Nat /\ k["unsolicited"] \in Nat
      /\ k["stale"] \in Nat /\ k["fifo"] \in Nat
  BY <1>1, <1>2
<1>4. /\ Len(R["lru"]) = Len(Q["lru"]) - k["lru"]
      /\ Len(R["unsolicited"]) = Len(Q["unsolicited"]) - k["unsolicited"]
      /\ Len(R["stale"]) = Len(Q["stale"]) - k["stale"]
      /\ Len(R["fifo"]) = Len(Q["fifo"]) - k["fifo"]
  BY <1>2
<1>5. Places(R) = (Len(Q["lru"]) - k["lru"])
                    + (Len(Q["unsolicited"]) - k["unsolicited"])
                    + (Len(Q["stale"]) - k["stale"])
                    + (Len(Q["fifo"]) - k["fifo"])
  BY <1>4, Zenon DEF Places
<1>6. Places(Q) = Len(Q["lru"]) + Len(Q["unsolicited"]) + Len(Q["stale"])
                    + Len(Q["fifo"])
  BY DEF Places
<1> DEFINE a == Len(Q["lru"])
           b == Len(Q["unsolicited"])
           c == Len(Q["stale"])
           e == Len(Q["fifo"])
           w == k["lru"]
           x == k["unsolicited"]
           y == k["stale"]
           z == k["fifo"]
<1>7. /\ a \in Nat /\ b \in Nat /\ c \in Nat /\ e \in Nat
      /\ w \in Nat /\ x \in Nat /\ y \in Nat /\ z \in Nat
      /\ Places(R) = (a - w) + (b - x) + (c - y) + (e - z)
      /\ Places(Q) = a + b + c + e
  BY <1>3, <1>5, <1>6
<1> SUFFICES Places(Q) \in Nat /\ Places(R) = Places(Q) - (w + x + y + z)
  OBVIOUS
<1> HIDE DEF a, b, c, e, w, x, y, z
<1> QED
  BY <1>7

-----------------------------------------------------------------------------
(* The steps of the policies keep the cleanup index consistent. *)

\* The LRU policy uses the queue "lru" and no other, the FIFO policy the others.
LEMMA UnusedQueues ==
  ASSUME NEW ix, NEW T \in SUBSET Data, NEW uns, NEW stales,
         NEW p \in {"lru", "fifo"}, NEW time,
         Consistent(ix, T, uns, stales, p, time)
  PROVE  /\ p = "lru" => /\ Len(ix.queues["unsolicited"]) = 0
                         /\ Len(ix.queues["stale"]) = 0
                         /\ Len(ix.queues["fifo"]) = 0
         /\ p = "fifo" => Len(ix.queues["lru"]) = 0
<1>1. \A q \in QueueTypes : /\ ix.queues[q] \in Seq(Data)
                            /\ Len(ix.queues[q]) \in Nat
                            /\ DOMAIN ix.queues[q] = 1 .. Len(ix.queues[q])
  BY DEF Consistent, Queues
<1>2. ASSUME NEW q \in QueueTypes, Len(ix.queues[q]) # 0
      PROVE  1 \in DOMAIN ix.queues[q]
  BY <1>1, <1>2
<1>3. ASSUME NEW q \in QueueTypes, p = "lru", q # "lru"
      PROVE  Len(ix.queues[q]) = 0
  BY <1>2, <1>3 DEF Consistent, InItsQueue
<1>4. ASSUME p = "fifo" PROVE Len(ix.queues["lru"]) = 0
  <2> SUFFICES ASSUME 1 \in DOMAIN ix.queues["lru"] PROVE FALSE
    BY <1>2 DEF QueueTypes
  <2> DEFINE d == ix.queues["lru"][1]
  <2>1. "lru" \in QueueTypes
    BY DEF QueueTypes
  <2>2. d \in T
    BY <2>1 DEF Consistent, Placed
  <2>3. d \in DOMAIN ix.queueType
    BY <1>4, <2>2 DEF Consistent, Timed
  <2>4. ix.queueType[d] = "lru"
    BY <1>4, <2>1 DEF Consistent, InItsQueue
  <2>5. ix.queueType[d] \in {"unsolicited", "stale", "fifo"}
    BY <2>3 DEF Consistent
  <2> QED
    BY <2>4, <2>5
<1> QED
  BY <1>3, <1>4 DEF QueueTypes

\* evictEntries takes exactly as many entries as it has to.
LEMMA TakenSum ==
  ASSUME NEW ix, ix.queues \in Queues, NEW n \in Int,
         \/ /\ Len(ix.queues["unsolicited"]) = 0
            /\ Len(ix.queues["stale"]) = 0
            /\ Len(ix.queues["fifo"]) = 0
         \/ Len(ix.queues["lru"]) = 0,
         n <= Places(ix.queues)
  PROVE  /\ taken(ix, n) \in [QueueTypes -> Nat]
         /\ \A q \in QueueTypes : taken(ix, n)[q] <= Len(ix.queues[q])
         /\ taken(ix, n)["lru"] + taken(ix, n)["unsolicited"]
              + taken(ix, n)["stale"] + taken(ix, n)["fifo"]
              = IF n < 0 THEN 0 ELSE n
<1> DEFINE l == Len(ix.queues["lru"])
           u == Len(ix.queues["unsolicited"])
           s == Len(ix.queues["stale"])
           f == Len(ix.queues["fifo"])
<1>1. l \in Nat /\ u \in Nat /\ s \in Nat /\ f \in Nat
  BY DEF Queues, QueueTypes
<1>2. /\ taken(ix, n) = [q \in QueueTypes |-> taken(ix, n)[q]]
      /\ taken(ix, n)["lru"] = Clip(n, l)
      /\ taken(ix, n)["unsolicited"] = Clip(n, u)
      /\ taken(ix, n)["stale"] = Clip(n - u, s)
      /\ taken(ix, n)["fifo"] = Clip(n - u - s, f)
  BY DEF taken, QueueTypes
<1> HIDE DEF l, u, s, f
<1>3. (u = 0 /\ s = 0 /\ f = 0) \/ l = 0
  BY DEF l, u, s, f
<1>4. n <= l + u + s + f
  BY DEF l, u, s, f, Places
<1>5. /\ Clip(n, l) \in Nat /\ Clip(n, l) <= l
      /\ Clip(n, u) \in Nat /\ Clip(n, u) <= u
      /\ Clip(n - u, s) \in Nat /\ Clip(n - u, s) <= s
      /\ Clip(n - u - s, f) \in Nat /\ Clip(n - u - s, f) <= f
  BY <1>1 DEF Clip
<1>6. Clip(n, l) + Clip(n, u) + Clip(n - u, s) + Clip(n - u - s, f)
        = IF n < 0 THEN 0 ELSE n
  BY <1>1, <1>3, <1>4 DEF Clip
<1>7. ASSUME NEW q \in QueueTypes
      PROVE  taken(ix, n)[q] \in Nat /\ taken(ix, n)[q] <= Len(ix.queues[q])
  BY <1>2, <1>5 DEF QueueTypes, l, u, s, f
<1>8. taken(ix, n) \in [QueueTypes -> Nat]
  BY <1>2, <1>7
<1> QED
  BY <1>2, <1>6, <1>7, <1>8

(* S is as large as T, or as the limit allows. *)
Shrunk(S, T, lim) ==
  Cardinality(S) = IF Cardinality(T) > lim THEN lim ELSE Cardinality(T)

\* What is left of the index and of the table after evictEntries.
LEMMA EvictKeeps ==
  ASSUME NEW ix, NEW T \in SUBSET Data, NEW uns \in SUBSET T, NEW stales,
         NEW p \in {"lru", "fifo"}, NEW time, NEW lim \in Nat,
         Consistent(ix, T, uns, stales, p, time)
  PROVE  LET n    == Cardinality(T) - lim
             gone == victims(ix, n)
             jx   == [queues    |-> [q \in QueueTypes |->
                                       SubSeq(ix.queues[q],
                                              taken(ix, n)[q] + 1,
                                              Len(ix.queues[q]))],
                      queueType |-> Only(ix.queueType,
                                         DOMAIN ix.queueType \ gone),
                      timers    |-> canceled(ix, gone)]
         IN  /\ Consistent(jx, T \ gone, uns \ gone, stales, p, time)
             /\ Cardinality(T \ gone) <= lim
             /\ Shrunk(T \ gone, T, lim)
<1> DEFINE n == Cardinality(T) - lim
           k == taken(ix, n)
           gone == victims(ix, n)
           Q == ix.queues
           R == [q \in QueueTypes |-> SubSeq(Q[q], k[q] + 1, Len(Q[q]))]
           types == Only(ix.queueType, DOMAIN ix.queueType \ gone)
           left == canceled(ix, gone)
           jx == [queues |-> R, queueType |-> types, timers |-> left]
<1>0. jx.queues = R /\ jx.queueType = types /\ jx.timers = left
  OBVIOUS
<1>1. Q \in Queues /\ Placed(Q, T)
  BY DEF Consistent
<1>2. Cardinality(T) = Places(Q)
  BY <1>1, PlacedSize
<1>3. Places(Q) \in Nat
  BY <1>1, <1>2, PlacedSize, FS_CardinalityType
<1>4. n \in Int /\ n <= Places(Q)
  BY <1>2, <1>3
<1>5. /\ k \in [QueueTypes -> Nat]
      /\ \A q \in QueueTypes : k[q] <= Len(Q[q])
      /\ k["lru"] + k["unsolicited"] + k["stale"] + k["fifo"]
           = IF n < 0 THEN 0 ELSE n
  <2>1. \/ /\ Len(Q["unsolicited"]) = 0
           /\ Len(Q["stale"]) = 0
           /\ Len(Q["fifo"]) = 0
        \/ Len(Q["lru"]) = 0
    BY UnusedQueues
  <2> HIDE DEF n
  <2> QED
    BY <1>1, <1>4, <2>1, TakenSum
<1>7. gone = UNION {{Q[q][i] : i \in 1 .. k[q]} : q \in QueueTypes}
  BY DEF victims
<1>6. /\ types = Only(ix.queueType, DOMAIN ix.queueType \ gone)
      /\ left = canceled(ix, gone)
  OBVIOUS
<1>8. /\ R \in Queues
      /\ Placed(R, T \ gone)
      /\ \A q \in QueueTypes : Len(R[q]) = Len(Q[q]) - k[q]
      /\ \A q \in QueueTypes : \A i \in DOMAIN R[q] :
           \E j \in DOMAIN Q[q] : R[q][i] = Q[q][j]
  <2> DEFINE front == UNION {{Q[q][i] : i \in 1 .. k[q]} : q \in QueueTypes}
  <2>1. /\ R \in Queues
        /\ Placed(R, T \ front)
        /\ \A q \in QueueTypes : Len(R[q]) = Len(Q[q]) - k[q]
        /\ \A q \in QueueTypes : \A i \in DOMAIN R[q] :
             \E j \in DOMAIN Q[q] : R[q][i] = Q[q][j]
    <3> HIDE DEF Q, k
    <3> QED
      BY <1>1, <1>5, DropPlaced
  <2>2. gone = front
    BY <1>7
  <2> HIDE DEF Q, R, k, gone, front
  <2> QED
    BY <2>1, <2>2
<1> HIDE DEF gone, R, k, left, types
<1>9. /\ Cardinality(T \ gone) <= lim
      /\ Shrunk(T \ gone, T, lim)
  <2>1. Cardinality(T \ gone) = Places(R)
    BY <1>8, PlacedSize
  <2>2. Places(R) = Places(Q) - (IF n < 0 THEN 0 ELSE n)
    BY <1>1, <1>5, <1>8, PlacesDrop, ZenonT(60)
  <2> QED
    BY <1>2, <1>3, <2>1, <2>2 DEF Shrunk
<1>10. InItsQueue(R, types, p)
  <2> SUFFICES ASSUME NEW q \in QueueTypes, NEW i \in DOMAIN R[q]
               PROVE  IF p = "lru" THEN q = "lru"
                                   ELSE q = types[R[q][i]]
    BY DEF InItsQueue
  <2>1. PICK j \in DOMAIN Q[q] : R[q][i] = Q[q][j]
    BY <1>8
  <2>2. IF p = "lru" THEN q = "lru" ELSE q = ix.queueType[Q[q][j]]
    BY DEF Consistent, InItsQueue
  <2>3. R[q][i] \in T \ gone
    BY <1>8 DEF Placed
  <2>4. p = "fifo" => R[q][i] \in DOMAIN ix.queueType \ gone
    BY <2>3 DEF Consistent, Timed
  <2>5. p = "fifo" => types[R[q][i]] = ix.queueType[R[q][i]]
    BY <1>6, <2>4 DEF Only
  <2> QED
    BY <2>1, <2>2, <2>5
<1>11. /\ DOMAIN types = DOMAIN ix.queueType \ gone
       /\ \A d \in DOMAIN ix.queueType \ gone :
            types[d] = ix.queueType[d]
  BY <1>6 DEF Only
<1>12. Timed(types, left, T \ gone, uns \ gone, stales, p, time)
  <2>1. DOMAIN types = IF p = "lru" THEN {} ELSE T \ gone
    BY <1>11 DEF Consistent, Timed
  <2>2. ix.timers = {<<d, stales[d]>> : d \in
           {e \in DOMAIN ix.queueType : ix.queueType[e] = "fifo"
                                          /\ stales[e] # Never}}
    BY DEF Consistent, Timed
  <2>3. left = {<<d, stales[d]>> : d \in
           {e \in DOMAIN types : types[e] = "fifo"
                                          /\ stales[e] # Never}}
    <3>1. left = {t \in ix.timers : ~(t[1] \in gone
                                        /\ ix.queueType[t[1]] = "fifo")}
      BY <1>6 DEF canceled
    <3>2. \A t \in ix.timers : t = <<t[1], stales[t[1]]>>
      BY <2>2
    <3> QED
      BY <1>11, <2>2, <3>1, <3>2
  <2>4. \A d \in DOMAIN types :
          /\ types[d] = "unsolicited" <=> d \in uns \ gone
          /\ types[d] = "fifo" /\ stales[d] # Never
               => stales[d] >= time
    BY <1>11 DEF Consistent, Timed
  <2> QED
    BY <2>1, <2>3, <2>4 DEF Timed
<1>13. \A d \in DOMAIN types :
         types[d] \in {"unsolicited", "stale", "fifo"}
  BY <1>11 DEF Consistent
<1> QED
  BY <1>0, <1>8, <1>9, <1>10, <1>12, <1>13
     DEF Consistent, gone, R, k, left, types

\* attachQueue puts a packet that is in no queue in the one it belongs to,
\* with a timer if its freshness can end.
LEMMA AttachKeeps ==
  ASSUME NEW ix, NEW T \in SUBSET Data, NEW uns, NEW old, NEW stales,
         NEW d \in Data \ T,
         Consistent(ix, T, uns, old, "fifo", now),
         \A e \in T : stales[e] = old[e],
         stales[d] = IF Freshness[d] >= 0 THEN now + Freshness[d] ELSE Never,
         now \in Nat, Freshness[d] \in Int
  PROVE  Consistent(attachQueue(ix, d, uns, stales), T \union {d},
                    uns, stales, "fifo", now)
<1> DEFINE type == queueFor(d, uns, stales[d] # Never /\ stales[d] < now)
           jx == attachQueue(ix, d, uns, stales)
<1>1. type \in {"unsolicited", "stale", "fifo"} /\ type \in QueueTypes
  BY DEF queueFor, QueueTypes
<1>2. stales[d] # Never => stales[d] >= now /\ stales[d] = now + Freshness[d]
  BY DEF Never
<1>3. /\ type = "unsolicited" <=> d \in uns
      /\ type = "fifo" => d \notin uns
  BY DEF queueFor
<1>4. /\ jx.queues = [ix.queues EXCEPT ![type] = Append(@, d)]
      /\ jx.queueType = [e \in DOMAIN ix.queueType \union {d} |->
                           IF e = d THEN type ELSE ix.queueType[e]]
      /\ jx.timers = IF type = "fifo" /\ stales[d] # Never
                       THEN ix.timers \union {<<d, now + Freshness[d]>>}
                       ELSE ix.timers
  BY DEF attachQueue
<1> HIDE DEF jx, type
<1>5. ix.queues \in Queues /\ Placed(ix.queues, T)
  BY DEF Consistent
<1>6. jx.queues \in Queues /\ Placed(jx.queues, T \union {d})
  BY <1>1, <1>4, <1>5, AppendPlaced
<1>7. DOMAIN ix.queueType = T
  BY DEF Consistent, Timed
<1>8. /\ DOMAIN jx.queueType = T \union {d}
      /\ jx.queueType[d] = type
      /\ \A e \in T : jx.queueType[e] = ix.queueType[e]
  BY <1>4, <1>7
<1>9. InItsQueue(jx.queues, jx.queueType, "fifo")
  <2> SUFFICES ASSUME NEW q \in QueueTypes, NEW i \in DOMAIN jx.queues[q]
               PROVE  q = jx.queueType[jx.queues[q][i]]
    BY DEF InItsQueue
  <2>1. \A r \in QueueTypes : ix.queues[r] \in Seq(Data)
    BY <1>5 DEF Queues
  <2>2. CASE q # type
    <3>1. jx.queues[q] = ix.queues[q]
      BY <1>4, <1>5, <2>2 DEF Queues
    <3>2. q = ix.queueType[ix.queues[q][i]] /\ ix.queues[q][i] \in T
      BY <3>1, <1>5 DEF Consistent, InItsQueue, Placed
    <3> QED
      BY <1>8, <3>1, <3>2
  <2>3. CASE q = type
    <3>1. jx.queues[q] = Append(ix.queues[q], d)
      BY <1>4, <1>5, <2>3 DEF Queues
    <3>2. \/ i \in DOMAIN ix.queues[q] /\ jx.queues[q][i] = ix.queues[q][i]
          \/ jx.queues[q][i] = d
      BY <2>1, <3>1
    <3>3. CASE i \in DOMAIN ix.queues[q] /\ jx.queues[q][i] = ix.queues[q][i]
      <4>1. q = ix.queueType[ix.queues[q][i]] /\ ix.queues[q][i] \in T
        BY <3>3, <1>5 DEF Consistent, InItsQueue, Placed
      <4> QED
        BY <1>8, <3>3, <4>1
    <3> QED
      BY <1>8, <2>3, <3>2, <3>3
  <2> QED
    BY <2>2, <2>3
<1>10. Timed(jx.queueType, jx.timers, T \union {d}, uns, stales, "fifo", now)
  <2>1. ix.timers = {<<e, old[e]>> : e \in
           {g \in T : ix.queueType[g] = "fifo" /\ old[g] # Never}}
    BY <1>7 DEF Consistent, Timed
  <2>2. jx.timers = {<<e, stales[e]>> : e \in
           {g \in T \union {d} : jx.queueType[g] = "fifo"
                                   /\ stales[g] # Never}}
    BY <1>2, <1>4, <1>8, <2>1
  <2>3. \A e \in T \union {d} :
          /\ jx.queueType[e] = "unsolicited" <=> e \in uns
          /\ jx.queueType[e] = "fifo" /\ stales[e] # Never
               => stales[e] >= now
    BY <1>2, <1>3, <1>7, <1>8 DEF Consistent, Timed
  <2> QED
    BY <1>8, <2>2, <2>3 DEF Timed
<1>11. \A e \in DOMAIN jx.queueType :
         jx.queueType[e] \in {"unsolicited", "stale", "fifo"}
  BY <1>1, <1>7, <1>8 DEF Consistent
<1> QED
  BY <1>6, <1>9, <1>10, <1>11 DEF Consistent, jx

\* detachQueue takes a packet out of its queue and cancels its timer.
LEMMA DetachKeeps ==
  ASSUME NEW ix, NEW T \in SUBSET Data, NEW uns, NEW stales, NEW time,
         NEW d \in T, Consistent(ix, T, uns, stales, "fifo", time)
  PROVE  Consistent(detachQueue(ix, d), T \ {d}, uns, stales, "fifo", time)
<1> DEFINE jx == detachQueue(ix, d)
           Q == ix.queues
<1>1. /\ jx.queues = [Q EXCEPT ![ix.queueType[d]] = Without(@, d)]
      /\ jx.queueType = Only(ix.queueType, DOMAIN ix.queueType \ {d})
      /\ jx.timers = canceled(ix, {d})
  BY DEF detachQueue
<1>2. Q \in Queues /\ Placed(Q, T)
  BY DEF Consistent
<1>3. DOMAIN ix.queueType = T
  BY DEF Consistent, Timed
<1>4. PICK q0 \in QueueTypes : \E i \in DOMAIN Q[q0] : Q[q0][i] = d
  BY <1>2 DEF Placed
<1>5. PICK k \in DOMAIN Q[q0] : Q[q0][k] = d
  BY <1>4
<1>6. q0 = ix.queueType[d]
  BY <1>5 DEF Consistent, InItsQueue
<1> HIDE DEF jx
<1>7. /\ jx.queues \in Queues
      /\ Placed(jx.queues, T \ {d})
      /\ \A q \in QueueTypes : \A i \in DOMAIN jx.queues[q] :
           \E j \in DOMAIN Q[q] : jx.queues[q][i] = Q[q][j]
  <2>1. jx.queues = [Q EXCEPT ![q0] = Without(@, d)]
    BY <1>1, <1>6
  <2> DEFINE R == jx.queues
  <2>2. /\ R = [q \in QueueTypes |-> R[q]]
        /\ R[q0] = Without(Q[q0], d)
        /\ \A q \in QueueTypes \ {q0} : R[q] = Q[q]
    BY <1>2, <2>1 DEF Queues
  <2> HIDE DEF Q, R
  <2>3. /\ R \in Queues
        /\ Placed(R, T \ {d})
        /\ \A q \in QueueTypes : \A i \in DOMAIN R[q] :
             \E j \in DOMAIN Q[q] : R[q][i] = Q[q][j]
    BY <1>2, <1>5, <2>2, WithoutPlaced
  <2> QED
    BY <2>3 DEF R
<1>8. /\ DOMAIN jx.queueType = T \ {d}
      /\ \A e \in T \ {d} : jx.queueType[e] = ix.queueType[e]
  BY <1>1, <1>3 DEF Only
<1>9. InItsQueue(jx.queues, jx.queueType, "fifo")
  <2> SUFFICES ASSUME NEW q \in QueueTypes, NEW i \in DOMAIN jx.queues[q]
               PROVE  q = jx.queueType[jx.queues[q][i]]
    BY DEF InItsQueue
  <2>1. PICK j \in DOMAIN Q[q] : jx.queues[q][i] = Q[q][j]
    BY <1>7
  <2>2. q = ix.queueType[Q[q][j]]
    BY DEF Consistent, InItsQueue
  <2>3. jx.queues[q][i] \in T \ {d}
    BY <1>7 DEF Placed
  <2> QED
    BY <1>8, <2>1, <2>2, <2>3
<1>10. Timed(jx.queueType, jx.timers, T \ {d}, uns, stales, "fifo", time)
  <2>1. ix.timers = {<<e, stales[e]>> : e \in
           {g \in T : ix.queueType[g] = "fifo" /\ stales[g] # Never}}
    BY <1>3 DEF Consistent, Timed
  <2>2. jx.timers = {t \in ix.timers : ~(t[1] \in {d}
                                          /\ ix.queueType[t[1]] = "fifo")}
    BY <1>1 DEF canceled
  <2>3. jx.timers = {<<e, stales[e]>> : e \in
           {g \in T \ {d} : jx.queueType[g] = "fifo" /\ stales[g] # Never}}
    BY <1>8, <2>1, <2>2
  <2>4. \A e \in T \ {d} :
          /\ jx.queueType[e] = "unsolicited" <=> e \in uns
          /\ jx.queueType[e] = "fifo" /\ stales[e] # Never
               => stales[e] >= time
    BY <1>3, <1>8 DEF Consistent, Timed
  <2> QED
    BY <1>8, <2>3, <2>4 DEF Timed
<1>11. \A e \in DOMAIN jx.queueType :
         jx.queueType[e] \in {"unsolicited", "stale", "fifo"}
  BY <1>3, <1>8 DEF Consistent
<1> QED
  BY <1>7, <1>9, <1>10, <1>11 DEF Consistent, jx

\* The LRU policy keeps no entry infos and no timers, so its index is
\* consistent for any stale times and any clock.
LEMMA LruIndex ==
  ASSUME NEW ix, NEW T, NEW uns, NEW stales, NEW time
  PROVE  Consistent(ix, T, uns, stales, "lru", time) <=>
           /\ ix.queues \in Queues /\ Placed(ix.queues, T)
           /\ \A q \in QueueTypes \ {"lru"} : DOMAIN ix.queues[q] = {}
           /\ DOMAIN ix.queueType = {} /\ ix.timers = {}
  BY DEF Consistent, InItsQueue, Timed

\* insertToQueue of the LRU policy, for a new packet.
LEMMA LruNewKeeps ==
  ASSUME NEW ix, ix = [queues |-> ix.queues, queueType |-> ix.queueType,
                       timers |-> ix.timers],
         NEW T \in SUBSET Data, NEW uns, NEW stales, NEW time,
         NEW uns2, NEW stales2, NEW d \in Data \ T,
         Consistent(ix, T, uns, stales, "lru", time)
  PROVE  Consistent(insertToQueue(ix, d, TRUE), T \union {d}, uns2, stales2,
                    "lru", time)
<1> DEFINE jx == insertToQueue(ix, d, TRUE)
           Q == ix.queues
<1>1. /\ Q \in Queues /\ Placed(Q, T)
      /\ \A q \in QueueTypes \ {"lru"} : DOMAIN Q[q] = {}
      /\ DOMAIN ix.queueType = {} /\ ix.timers = {}
  BY LruIndex
<1>2. "lru" \in QueueTypes
  BY DEF QueueTypes
<1>3. /\ jx.queues = [Q EXCEPT !["lru"] = Append(@, d)]
      /\ jx.queueType = ix.queueType /\ jx.timers = ix.timers
  BY DEF insertToQueue
<1> HIDE DEF jx, Q
<1>4. jx.queues \in Queues /\ Placed(jx.queues, T \union {d})
  BY <1>1, <1>2, <1>3, AppendPlaced
<1>5. \A q \in QueueTypes \ {"lru"} : jx.queues[q] = Q[q]
  BY <1>1, <1>3 DEF Queues
<1> QED
  BY <1>1, <1>3, <1>4, <1>5, LruIndex DEF jx

\* insertToQueue of the LRU policy, for a packet that is relocated.
LEMMA LruRelocateKeeps ==
  ASSUME NEW ix, ix = [queues |-> ix.queues, queueType |-> ix.queueType,
                       timers |-> ix.timers],
         NEW T \in SUBSET Data, NEW uns, NEW stales, NEW time,
         NEW uns2, NEW stales2, NEW d \in T,
         Consistent(ix, T, uns, stales, "lru", time)
  PROVE  Consistent(insertToQueue(ix, d, FALSE), T, uns2, stales2,
                    "lru", time)
<1> DEFINE jx == insertToQueue(ix, d, FALSE)
           Q == ix.queues
           W == [Q EXCEPT !["lru"] = Without(@, d)]
<1>1. /\ Q \in Queues /\ Placed(Q, T)
      /\ \A q \in QueueTypes \ {"lru"} : DOMAIN Q[q] = {}
      /\ DOMAIN ix.queueType = {} /\ ix.timers = {}
  BY LruIndex
<1>2. "lru" \in QueueTypes
  BY DEF QueueTypes
<1>3. /\ jx.queues = [Q EXCEPT !["lru"] = Append(Without(@, d), d)]
      /\ jx.queueType = ix.queueType /\ jx.timers = ix.timers
  BY DEF insertToQueue
<1>4. PICK k \in DOMAIN Q["lru"] : Q["lru"][k] = d
  <2>1. PICK q \in QueueTypes : \E i \in DOMAIN Q[q] : Q[q][i] = d
    BY <1>1 DEF Placed
  <2> QED
    BY <1>1, <2>1
<1> HIDE DEF jx, Q
<1>5. W \in Queues /\ Placed(W, T \ {d})
  <2>1. /\ W = [q \in QueueTypes |-> W[q]]
        /\ W["lru"] = Without(Q["lru"], d)
        /\ \A q \in QueueTypes \ {"lru"} : W[q] = Q[q]
    BY <1>1, <1>2 DEF Queues
  <2> HIDE DEF W
  <2> QED
    BY <1>1, <1>2, <1>4, <2>1, WithoutPlaced
<1>6. jx.queues = [W EXCEPT !["lru"] = Append(@, d)]
  BY <1>1, <1>2, <1>3 DEF Queues
<1>7. \A q \in QueueTypes \ {"lru"} : jx.queues[q] = Q[q]
  BY <1>1, <1>3 DEF Queues
<1> HIDE DEF W
<1>8. jx.queues \in Queues /\ Placed(jx.queues, (T \ {d}) \union {d})
  BY <1>2, <1>5, <1>6, AppendPlaced
<1>9. (T \ {d}) \union {d} = T
  OBVIOUS
<1>10. jx.queues \in Queues /\ Placed(jx.queues, T)
  BY <1>8, <1>9
<1> QED
  BY <1>1, <1>3, <1>7, <1>10, LruIndex DEF jx

-----------------------------------------------------------------------------
(* The inductive invariant: TypeOK and IndexConsistent together.  Neither  *)
(* is inductive alone: the size of the table is kept because evictEntries  *)
(* finds in the queues as many entries as the table has too many.          *)

Rest ==
  /\ table \subseteq Data /\ unsolicited \subseteq table
  /\ staleTime \in [Data -> Nat \union {Never}]
  /\ policy \in Policies /\ limit \in Limits /\ now \in 0 .. MaxTime
  /\ Cardinality(table) <= limit

Inv == Rest /\ Consistent(index, table, unsolicited, staleTime, policy, now)

\* The fields of the record that stands for the cleanup index.
LEMMA IndexFields ==
  /\ index.queues = queues
  /\ index.queueType = queueType
  /\ index.timers = timers
  /\ index = [queues |-> index.queues, queueType |-> index.queueType,
              timers |-> index.timers]
  BY DEF index

\* Inv implies the two invariants.
LEMMA InvImplies == Inv => TypeOK /\ IndexConsistent
<1> SUFFICES ASSUME Inv PROVE TypeOK /\ IndexConsistent
  OBVIOUS
<1>1. IndexConsistent
  BY IndexFields DEF Inv, Consistent, IndexConsistent
<1>2. DOMAIN queueType \subseteq Data
  BY IndexFields DEF Inv, Rest, Consistent, Timed
<1>3. timers \subseteq Data \X Nat
  <2>1. timers = {<<d, staleTime[d]>> : d \in
                    {e \in DOMAIN queueType : queueType[e] = "fifo"
                                                /\ staleTime[e] # Never}}
    BY IndexFields DEF Inv, Consistent, Timed
  <2>2. staleTime \in [Data -> Nat \union {Never}]
    BY DEF Inv, Rest
  <2> QED
    BY <1>2, <2>1, <2>2
<1>4. queues \in [QueueTypes -> Seq(Data)]
  BY IndexFields DEF Inv, Consistent, Queues
<1>5. \A d \in DOMAIN queueType : queueType[d] \in QueueTypes \ {"lru"}
  BY IndexFields DEF Inv, Consistent, QueueTypes
<1> QED
  BY <1>1, <1>2, <1>3, <1>4, <1>5 DEF Inv, Rest, TypeOK

\* An empty store with empty queues is consistent.
LEMMA EmptyConsistent ==
  ASSUME NEW ix, ix.queues = [q \in QueueTypes |-> <<>>],
         ix.queueType = [d \in {} |-> "fifo"], ix.timers = {},
         NEW stales, NEW p, NEW time
  PROVE  Consistent(ix, {}, {}, stales, p, time)
<1>1. ix.queues \in Queues /\ \A q \in QueueTypes : DOMAIN ix.queues[q] = {}
  BY DEF Queues
<1>2. DOMAIN ix.queueType = {}
  OBVIOUS
<1> QED
  BY <1>1, <1>2 DEF Consistent, Placed, InItsQueue, Timed

\* A new store, with either policy, is empty and consistent.
LEMMA InitInv == Init => Inv
<1> SUFFICES ASSUME Init PROVE Inv
  OBVIOUS
<1>1. Consistent(index, table, unsolicited, staleTime, policy, now)
  BY IndexFields, EmptyConsistent DEF Init
<1>2. Cardinality(table) = 0 /\ limit \in Nat
  BY FS_EmptySet, ContentStoreAssumption DEF Init
<1>3. Rest
  BY <1>2, ContentStoreAssumption DEF Init, Rest, Never
<1> QED
  BY <1>1, <1>3 DEF Inv

\* updateStaleTime changes the stale time of one packet.
LEMMA StaleTimes ==
  ASSUME Inv, NEW d \in Data
  PROVE  /\ updateStaleTime(d) \in [Data -> Nat \union {Never}]
         /\ \A e \in Data \ {d} : updateStaleTime(d)[e] = staleTime[e]
         /\ updateStaleTime(d)[d] = IF Freshness[d] >= 0
                                      THEN now + Freshness[d] ELSE Never
         /\ now \in Nat /\ Freshness[d] \in Int
<1>1. now \in Nat /\ Freshness[d] \in Int
  BY ContentStoreAssumption DEF Inv, Rest
<1>2. staleTime \in [Data -> Nat \union {Never}]
  BY DEF Inv, Rest
<1>3. Freshness[d] >= 0 => now + Freshness[d] \in Nat
  BY <1>1
<1> QED
  BY <1>1, <1>2, <1>3 DEF updateStaleTime

\* The index the policy has after it took in a new packet.
LEMMA TakeIn ==
  ASSUME Inv, NEW d \in Data \ table, NEW uns,
         uns = unsolicited \/ uns = unsolicited \union {d}
  PROVE  Consistent(IF policy = "lru" THEN insertToQueue(index, d, TRUE)
                    ELSE attachQueue(index, d, uns, updateStaleTime(d)),
                    table \union {d}, uns, updateStaleTime(d), policy, now)
<1>1. /\ table \in SUBSET Data /\ policy \in {"lru", "fifo"}
      /\ Consistent(index, table, unsolicited, staleTime, policy, now)
  BY ContentStoreAssumption DEF Inv, Rest
<1>2. CASE policy = "lru"
  BY <1>1, <1>2, IndexFields, LruNewKeeps
<1>3. CASE policy = "fifo"
  <2>1. Consistent(index, table, uns, staleTime, "fifo", now)
    BY <1>1, <1>3 DEF Consistent, Timed
  <2>2. \A e \in table : updateStaleTime(d)[e] = staleTime[e]
    BY <1>1, StaleTimes
  <2>3. Consistent(attachQueue(index, d, uns, updateStaleTime(d)),
                   table \union {d}, uns, updateStaleTime(d), "fifo", now)
    BY <1>1, <2>1, <2>2, StaleTimes, AttachKeeps
  <2> QED
    BY <1>3, <2>3
<1> QED
  BY <1>1, <1>2, <1>3

\* evictEntries leaves a table within its limit and a consistent index.
LEMMA EvictStep ==
  ASSUME NEW ix, NEW T \in SUBSET Data, NEW uns \in SUBSET T,
         NEW stales \in [Data -> Nat \union {Never}],
         NEW lim \in Limits, NEW order, policy \in Policies,
         now \in 0 .. MaxTime,
         Consistent(ix, T, uns, stales, policy, now),
         evictEntries(ix, T, uns, lim, order),
         staleTime' = stales, policy' = policy, limit' = lim, now' = now
  PROVE  Inv'
<1> DEFINE n    == Cardinality(T) - lim
           gone == victims(ix, n)
           jx   == [queues    |-> [q \in QueueTypes |->
                                     SubSeq(ix.queues[q],
                                            taken(ix, n)[q] + 1,
                                            Len(ix.queues[q]))],
                    queueType |-> Only(ix.queueType,
                                       DOMAIN ix.queueType \ gone),
                    timers    |-> canceled(ix, gone)]
<1>1. lim \in Nat /\ policy \in {"lru", "fifo"}
  BY ContentStoreAssumption
<1>2. /\ Consistent(jx, T \ gone, uns \ gone, stales, policy, now)
      /\ Cardinality(T \ gone) <= lim
      /\ Shrunk(T \ gone, T, lim)
  BY <1>1, EvictKeeps, ZenonT(60)
<1>3. /\ table' = T \ gone /\ unsolicited' = uns \ gone
      /\ queues' = jx.queues /\ queueType' = jx.queueType
      /\ timers' = jx.timers
  BY DEF evictEntries
<1>4. index' = jx
  BY <1>3 DEF index
<1>5. Consistent(index', table', unsolicited', staleTime', policy', now')
  BY <1>2, <1>3, <1>4
<1>6. Rest'
  <2> HIDE DEF gone, jx
  <2> QED
    BY <1>2, <1>3 DEF Rest
<1> QED
  BY <1>5, <1>6 DEF Inv

\* Cs::insert of a packet that is not in the table, with the eviction that follows it.
LEMMA InsertNewInv ==
  ASSUME Inv, NEW d \in Data, NEW isUnsolicited \in BOOLEAN,
         InsertNew(d, isUnsolicited)
  PROVE  Inv'
<1> DEFINE uns == IF isUnsolicited THEN unsolicited \union {d} ELSE unsolicited
           ix == IF policy = "lru" THEN insertToQueue(index, d, TRUE)
                 ELSE attachQueue(index, d, uns, updateStaleTime(d))
<1>1. /\ d \notin table
      /\ staleTime' = updateStaleTime(d)
      /\ evictEntries(ix, table \union {d}, uns, limit, Renewed(d))
      /\ policy' = policy /\ limit' = limit /\ now' = now
  BY DEF InsertNew
<1>2. /\ table \union {d} \in SUBSET Data /\ uns \in SUBSET (table \union {d})
      /\ limit \in Limits /\ policy \in Policies /\ now \in 0 .. MaxTime
  BY DEF Inv, Rest
<1>3. uns = unsolicited \/ uns = unsolicited \union {d}
  OBVIOUS
<1>4. Consistent(ix, table \union {d}, uns, updateStaleTime(d), policy, now)
  <2> HIDE DEF uns
  <2> QED
    BY <1>1, <1>3, TakeIn
<1>5. updateStaleTime(d) \in [Data -> Nat \union {Never}]
  BY StaleTimes
<1> HIDE DEF uns, ix
<1> QED
  BY <1>1, <1>2, <1>4, <1>5, EvictStep

\* Cs::insert of a packet that is in the table: the policy moves it to the queue it now belongs to.
LEMMA RefreshInv ==
  ASSUME Inv, NEW d \in Data, NEW isUnsolicited \in BOOLEAN,
         Refresh(d, isUnsolicited)
  PROVE  Inv'
<1> DEFINE uns == IF isUnsolicited THEN unsolicited ELSE unsolicited \ {d}
           stales == updateStaleTime(d)
           ix == IF policy = "lru" THEN insertToQueue(index, d, FALSE)
                 ELSE attachQueue(detachQueue(index, d), d, uns, stales)
<1>1. /\ d \in table /\ table' = table
      /\ staleTime' = stales /\ unsolicited' = uns
      /\ queues' = ix.queues /\ queueType' = ix.queueType
      /\ timers' = ix.timers
      /\ policy' = policy /\ limit' = limit /\ now' = now
  BY DEF Refresh
<1>2. /\ table \in SUBSET Data /\ policy \in {"lru", "fifo"}
      /\ Consistent(index, table, unsolicited, staleTime, policy, now)
  BY ContentStoreAssumption DEF Inv, Rest
<1>3. /\ stales \in [Data -> Nat \union {Never}]
      /\ \A e \in Data \ {d} : stales[e] = staleTime[e]
      /\ stales[d] = IF Freshness[d] >= 0 THEN now + Freshness[d] ELSE Never
      /\ now \in Nat /\ Freshness[d] \in Int
  BY StaleTimes
<1>4. Consistent(ix, table, uns, stales, policy, now)
  <2>1. CASE policy = "lru"
    <3>1. ix = insertToQueue(index, d, FALSE)
      BY <2>1
    <3> HIDE DEF ix, uns, stales
    <3> QED
      BY <1>1, <1>2, <2>1, <3>1, IndexFields, LruRelocateKeeps
  <2>2. CASE policy = "fifo"
    <3> DEFINE jx == detachQueue(index, d)
    <3>1. ix = attachQueue(jx, d, uns, stales)
      BY <2>2
    <3>2. Consistent(jx, table \ {d}, unsolicited, staleTime, "fifo", now)
      BY <1>1, <1>2, <2>2, DetachKeeps
    <3>3. \A e \in table \ {d} : e \in uns <=> e \in unsolicited
      OBVIOUS
    <3> HIDE DEF jx, ix, uns, stales
    <3>4. DOMAIN jx.queueType = table \ {d}
      BY <3>2 DEF Consistent, Timed
    <3>5. Consistent(jx, table \ {d}, uns, staleTime, "fifo", now)
      BY <3>2, <3>3, <3>4 DEF Consistent, Timed
    <3>6. table \ {d} \in SUBSET Data /\ d \in Data \ (table \ {d})
      BY <1>2
    <3>7. \A e \in table \ {d} : stales[e] = staleTime[e]
      BY <1>2, <1>3
    <3>8. Consistent(ix, (table \ {d}) \union {d}, uns, stales, "fifo", now)
      BY <1>3, <3>1, <3>5, <3>6, <3>7, AttachKeeps
    <3>9. (table \ {d}) \union {d} = table
      BY <1>1
    <3> QED
      BY <2>2, <3>8, <3>9
  <2> QED
    BY <1>2, <2>1, <2>2
<1>5. Consistent(index', table', unsolicited', staleTime', policy', now')
  <2>1. /\ index'.queues = ix.queues
        /\ index'.queueType = ix.queueType
        /\ index'.timers = ix.timers
    BY <1>1 DEF index
  <2> HIDE DEF ix, uns, stales
  <2> QED
    BY <1>1, <1>4, <2>1 DEF Consistent
<1>6. Rest'
  BY <1>1, <1>3 DEF Inv, Rest
<1> QED
  BY <1>5, <1>6 DEF Inv

\* Cs::find changes at most the place of the packet it hits (beforeUse).
LEMMA FindInv ==
  ASSUME Inv, NEW i \in Interests, Find(i)
  PROVE  Inv'
<1>1. PICK d \in table :
        IF policy = "lru" THEN queues' = insertToQueue(index, d, FALSE).queues
                          ELSE queues' = queues
  BY DEF Find
<1>2. /\ table' = table /\ unsolicited' = unsolicited
      /\ staleTime' = staleTime /\ policy' = policy /\ limit' = limit
      /\ queueType' = queueType /\ timers' = timers /\ now' = now
  BY DEF Find
<1>3. /\ table \in SUBSET Data
      /\ Consistent(index, table, unsolicited, staleTime, policy, now)
  BY DEF Inv, Rest
<1>4. Rest'
  BY <1>2 DEF Inv, Rest
<1>5. CASE policy = "lru"
  <2> DEFINE ix == insertToQueue(index, d, FALSE)
  <2>0. Consistent(index, table, unsolicited, staleTime, "lru", now)
    BY <1>3, <1>5
  <2>1. /\ Consistent(ix, table, unsolicited, staleTime, "lru", now)
        /\ ix.queueType = index.queueType
        /\ ix.timers = index.timers
    <3>1. Consistent(insertToQueue(index, d, FALSE), table, unsolicited,
                     staleTime, "lru", now)
      BY <1>3, <2>0, IndexFields, LruRelocateKeeps
    <3>2. /\ insertToQueue(index, d, FALSE).queueType = index.queueType
          /\ insertToQueue(index, d, FALSE).timers = index.timers
      BY DEF insertToQueue, index
    <3> QED
      BY <3>1, <3>2
  <2>2. /\ index'.queues = ix.queues
        /\ index'.queueType = ix.queueType
        /\ index'.timers = ix.timers
    BY <1>1, <1>2, <1>5, <2>1 DEF index
  <2> HIDE DEF ix
  <2> QED
    BY <1>2, <1>4, <1>5, <2>1, <2>2 DEF Inv, Consistent
<1>6. CASE policy # "lru"
  <2>1. index' = index
    BY <1>1, <1>2, <1>6 DEF index
  <2> QED
    BY <1>2, <1>3, <1>4, <2>1 DEF Inv
<1> QED
  BY <1>5, <1>6

\* Policy::setLimit evicts what exceeds the new limit.
LEMMA SetLimitInv ==
  ASSUME Inv, NEW nMaxPackets \in Limits, setLimit(nMaxPackets)
  PROVE  Inv'
<1>1. /\ evictEntries(index, table, unsolicited, nMaxPackets, recency)
      /\ staleTime' = staleTime /\ policy' = policy /\ now' = now
      /\ limit' = nMaxPackets
  BY DEF setLimit
<1>2. /\ table \in SUBSET Data /\ unsolicited \in SUBSET table
      /\ staleTime \in [Data -> Nat \union {Never}]
      /\ policy \in Policies /\ now \in 0 .. MaxTime
      /\ Consistent(index, table, unsolicited, staleTime, policy, now)
  BY DEF Inv, Rest
<1> QED
  BY <1>1, <1>2, EvictStep

\* Cs::setPolicy gives an empty store an empty index.
LEMMA SetPolicyInv ==
  ASSUME Inv, NEW p \in Policies, setPolicy(p)
  PROVE  Inv'
<1>1. /\ table = {} /\ unsolicited = {}
      /\ Consistent(index, table, unsolicited, staleTime, policy, now)
  BY DEF Inv, Rest, setPolicy
<1>2. timers = {}
  <2>1. DOMAIN queueType = {}
    BY <1>1, IndexFields DEF Consistent, Timed
  <2> QED
    BY <1>1, <2>1, IndexFields DEF Consistent, Timed
<1>3. /\ index'.queues = [q \in QueueTypes |-> <<>>]
      /\ index'.queueType = [d \in {} |-> "fifo"]
      /\ index'.timers = {}
  BY <1>2 DEF setPolicy, index
<1>4. Consistent(index', {}, {}, staleTime', policy', now')
  BY <1>3, EmptyConsistent
<1>5. table' = {} /\ unsolicited' = {}
  BY <1>1 DEF setPolicy
<1>6. Rest'
  BY DEF Inv, Rest, setPolicy
<1> QED
  BY <1>4, <1>5, <1>6 DEF Inv

\* Time passes only while no timer is due, and every timer keeps pace with its stale time.
LEMMA TickInv ==
  ASSUME Inv, Tick
  PROVE  Inv'
<1>1. /\ table' = table /\ unsolicited' = unsolicited
      /\ staleTime' = staleTime /\ policy' = policy /\ limit' = limit
      /\ index' = index /\ now' = now + 1 /\ now < MaxTime
  BY DEF Tick, index
<1>2. now \in Nat /\ now' \in 0 .. MaxTime
  BY <1>1, ContentStoreAssumption DEF Inv, Rest
<1>3. Rest'
  BY <1>1, <1>2 DEF Inv, Rest
<1>4. Timed(index.queueType, index.timers, table, unsolicited, staleTime,
            policy, now)
  BY DEF Inv, Consistent
<1>5. ASSUME NEW d \in DOMAIN index.queueType,
             index.queueType[d] = "fifo", staleTime[d] # Never
      PROVE  staleTime[d] >= now'
  <2>1. <<d, staleTime[d]>> \in timers
    BY <1>4, <1>5, IndexFields DEF Timed
  <2>2. staleTime[d] > now
    BY <2>1 DEF Tick
  <2>3. d \in Data
    BY <1>4 DEF Timed, Inv, Rest
  <2>4. staleTime[d] \in Nat
    BY <1>5, <2>3 DEF Inv, Rest
  <2> QED
    BY <1>1, <1>2, <2>2, <2>4
<1>6. Timed(index.queueType, index.timers, table, unsolicited, staleTime,
            policy, now')
  BY <1>4, <1>5 DEF Timed
<1> QED
  BY <1>1, <1>3, <1>6 DEF Inv, Consistent

\* A timer fires: its packet is in the FIFO queue, and moves to the stale one.
LEMMA MoveToStaleInv ==
  ASSUME Inv, NEW t \in timers, moveToStaleQueue(t)
  PROVE  Inv'
<1> DEFINE d == t[1]
           W == [queues EXCEPT !["fifo"] = Without(@, d)]
<1>1. /\ queues \in Queues /\ Placed(queues, table)
      /\ InItsQueue(queues, queueType, policy)
      /\ Timed(queueType, timers, table, unsolicited, staleTime, policy, now)
      /\ \A e \in DOMAIN queueType :
           queueType[e] \in {"unsolicited", "stale", "fifo"}
      /\ table \in SUBSET Data /\ policy \in {"lru", "fifo"}
  BY IndexFields, ContentStoreAssumption DEF Inv, Rest, Consistent
<1>2. /\ d \in DOMAIN queueType /\ queueType[d] = "fifo"
      /\ staleTime[d] # Never /\ t = <<d, staleTime[d]>>
  BY <1>1 DEF Timed
<1>3. policy = "fifo" /\ DOMAIN queueType = table /\ d \in table
  BY <1>1, <1>2 DEF Timed
<1>4. "fifo" \in QueueTypes /\ "stale" \in QueueTypes
  BY DEF QueueTypes
<1>5. PICK k \in DOMAIN queues["fifo"] : queues["fifo"][k] = d
  <2>1. PICK q \in QueueTypes : \E i \in DOMAIN queues[q] : queues[q][i] = d
    BY <1>1, <1>3 DEF Placed
  <2>2. q = "fifo"
    BY <1>1, <1>2, <1>3, <2>1 DEF InItsQueue
  <2> QED
    BY <2>1, <2>2
<1>6. /\ table' = table /\ unsolicited' = unsolicited
      /\ staleTime' = staleTime /\ policy' = policy /\ limit' = limit
      /\ now' = now /\ timers' = timers \ {t}
      /\ queueType' = [queueType EXCEPT ![d] = "stale"]
      /\ queues' = [queues EXCEPT !["fifo"] = Without(@, d),
                                  !["stale"] = Append(@, d)]
  BY DEF moveToStaleQueue
<1> HIDE DEF d
<1>7. /\ W \in Queues /\ Placed(W, table \ {d})
      /\ \A q \in QueueTypes : \A i \in DOMAIN W[q] :
           \E j \in DOMAIN queues[q] : W[q][i] = queues[q][j]
  <2>1. /\ W = [q \in QueueTypes |-> W[q]]
        /\ W["fifo"] = Without(queues["fifo"], d)
        /\ \A q \in QueueTypes \ {"fifo"} : W[q] = queues[q]
    BY <1>1, <1>4 DEF Queues
  <2> HIDE DEF W
  <2> QED
    BY <1>1, <1>4, <1>5, <2>1, WithoutPlaced
<1>8. queues' = [W EXCEPT !["stale"] = Append(@, d)]
  BY <1>1, <1>4, <1>6 DEF Queues
<1> HIDE DEF W
<1>9. queues' \in Queues /\ Placed(queues', table)
  <2>1. d \in Data \ (table \ {d}) /\ table \ {d} \in SUBSET Data
    BY <1>1, <1>3
  <2>2. queues' \in Queues /\ Placed(queues', (table \ {d}) \union {d})
    BY <1>4, <1>7, <1>8, <2>1, AppendPlaced
  <2>3. (table \ {d}) \union {d} = table
    BY <1>3
  <2> QED
    BY <2>2, <2>3
<1>10. /\ DOMAIN queueType' = table /\ queueType'[d] = "stale"
       /\ \A e \in table \ {d} : queueType'[e] = queueType[e]
  BY <1>3, <1>6
<1>11. InItsQueue(queues', queueType', policy')
  <2> SUFFICES ASSUME NEW q \in QueueTypes, NEW i \in DOMAIN queues'[q]
               PROVE  q = queueType'[queues'[q][i]]
    BY <1>3, <1>6 DEF InItsQueue
  <2>1. ASSUME NEW j \in DOMAIN W[q] PROVE q = queueType'[W[q][j]]
    <3>1. PICK l \in DOMAIN queues[q] : W[q][j] = queues[q][l]
      BY <1>7
    <3>2. q = queueType[queues[q][l]]
      BY <1>1, <1>3 DEF InItsQueue
    <3>3. W[q][j] \in table \ {d}
      BY <1>7 DEF Placed
    <3> QED
      BY <1>10, <3>1, <3>2, <3>3
  <2>2. W[q] \in Seq(Data)
    BY <1>7 DEF Queues
  <2>3. CASE q # "stale"
    <3>1. queues'[q] = W[q]
      BY <1>7, <1>8, <2>3 DEF Queues
    <3> QED
      BY <2>1, <3>1
  <2>4. CASE q = "stale"
    <3>1. queues'[q] = Append(W[q], d)
      BY <1>7, <1>8, <2>4 DEF Queues
    <3>2. \/ i \in DOMAIN W[q] /\ queues'[q][i] = W[q][i]
          \/ queues'[q][i] = d
      BY <2>2, <3>1
    <3> QED
      BY <1>10, <2>1, <2>4, <3>2
  <2> QED
    BY <2>3, <2>4
<1>12. Timed(queueType', timers', table', unsolicited', staleTime', policy',
             now')
  <2>1. timers = {<<e, staleTime[e]>> : e \in
           {g \in table : queueType[g] = "fifo" /\ staleTime[g] # Never}}
    BY <1>1, <1>3 DEF Timed
  <2>2. timers' = {<<e, staleTime[e]>> : e \in
           {g \in table : queueType'[g] = "fifo" /\ staleTime[g] # Never}}
    BY <1>2, <1>6, <1>10, <2>1
  <2>3. ASSUME NEW e \in table
        PROVE  /\ queueType'[e] = "unsolicited" <=> e \in unsolicited
               /\ queueType'[e] = "fifo" /\ staleTime[e] # Never
                    => staleTime[e] >= now
    <3>1. CASE e = d
      BY <1>1, <1>2, <1>3, <1>10, <3>1 DEF Timed
    <3>2. CASE e # d
      BY <1>1, <1>3, <1>10, <3>2 DEF Timed
    <3> QED
      BY <3>1, <3>2
  <2> QED
    BY <1>3, <1>6, <1>10, <2>2, <2>3 DEF Timed
<1>13. \A e \in DOMAIN queueType' :
         queueType'[e] \in {"unsolicited", "stale", "fifo"}
  BY <1>1, <1>3, <1>10
<1>14. Rest'
  BY <1>6 DEF Inv, Rest
<1>15. /\ index'.queues = queues' /\ index'.queueType = queueType'
       /\ index'.timers = timers'
  BY DEF index
<1> QED
  BY <1>6, <1>9, <1>11, <1>12, <1>13, <1>14, <1>15 DEF Inv, Consistent

\* Every step keeps the invariant.
LEMMA NextInv == Inv /\ [Next]_vars => Inv'
<1> SUFFICES ASSUME Inv, [Next]_vars PROVE Inv'
  OBVIOUS
<1>1. ASSUME NEW d \in Data, NEW u \in BOOLEAN, InsertNew(d, u) PROVE Inv'
  BY <1>1, InsertNewInv
<1>2. ASSUME NEW d \in Data, NEW u \in BOOLEAN, Refresh(d, u) PROVE Inv'
  BY <1>2, RefreshInv
<1>3. ASSUME NEW i \in Interests, Find(i) PROVE Inv'
  BY <1>3, FindInv
<1>4. ASSUME NEW l \in Limits, setLimit(l) PROVE Inv'
  BY <1>4, SetLimitInv
<1>5. ASSUME NEW p \in Policies, setPolicy(p) PROVE Inv'
  BY <1>5, SetPolicyInv
<1>6. ASSUME NEW t \in timers, moveToStaleQueue(t) PROVE Inv'
  BY <1>6, MoveToStaleInv
<1>7. CASE Tick
  BY <1>7, TickInv
<1>8. CASE UNCHANGED vars
  <2>1. /\ table' = table /\ unsolicited' = unsolicited
        /\ staleTime' = staleTime /\ policy' = policy /\ limit' = limit
        /\ index' = index /\ now' = now
    BY <1>8 DEF vars, index
  <2> QED
    BY <2>1 DEF Inv, Rest
<1> QED
  BY <1>1, <1>2, <1>3, <1>4, <1>5, <1>6, <1>7, <1>8 DEF Next

\* The store never holds more Data than its limit, with either policy and
\* however often the limit is changed (Policy::setLimit, Policy::afterInsert).
THEOREM TypeCorrect == Spec => []TypeOK
<1>1. Spec => []Inv
  BY InitInv, NextInv, PTL DEF Spec
<1> QED
  BY <1>1, InvImplies, PTL

\* The table and the policy's cleanup index always agree: no assertion of
\* cs-policy-lru.cpp or cs-policy-priority-fifo.cpp can fail, and no timer
\* fires for a packet that is evicted, refreshed or already stale.
THEOREM IndexAlwaysConsistent == Spec => []IndexConsistent
<1>1. Spec => []Inv
  BY InitInv, NextInv, PTL DEF Spec
<1> QED
  BY <1>1, InvImplies, PTL

-----------------------------------------------------------------------------
(* Cs::find: the packet that a lookup finds.  The loop of findRightmost is *)
(* followed from right to left: what it returns is right for the packets   *)
(* below its right end.                                                    *)

\* The packets are numbered from 1.
LEMMA DataNumbers ==
  /\ Cardinality(Data) \in Nat
  /\ \A d \in Data : d \in Nat \ {0} /\ d \in 1 .. Cardinality(Data)
<1> DEFINE K == Cardinality(Data)
<1>1. K \in Nat /\ Data = 1 .. K
  BY ContentStoreAssumption, FS_CardinalityType
<1> HIDE DEF K
<1>2. K \in Nat /\ \A d \in Data : d \in Nat \ {0} /\ d \in 1 .. K
  BY <1>1
<1> QED
  BY <1>2 DEF K

\* The first and the last of some packets.
LEMMA MinIs ==
  ASSUME NEW S \in SUBSET Data, S # {}
  PROVE  Min(S) \in S /\ \A e \in S : Min(S) <= e
<1>1. S \in SUBSET Nat
  BY DataNumbers
<1>2. \E x \in S : \A y \in S : x <= y
  BY <1>1, SmallestExists
<1> QED
  BY <1>2 DEF Min

LEMMA MaxIs ==
  ASSUME NEW S \in SUBSET Data, S # {}
  PROVE  Max(S) \in S /\ \A e \in S : e <= Max(S)
<1> DEFINE K == Cardinality(Data)
           D == {K - d : d \in S}
<1>1. K \in Nat
  BY DataNumbers
<1>2. \A d \in S : d \in 1 .. K
  BY DataNumbers
<1> HIDE DEF K
<1>3. D \in SUBSET Nat /\ D # {}
  <2>1. \A d \in S : K - d \in Nat
    BY <1>1, <1>2
  <2> QED
    BY <2>1
<1>4. PICK x \in D : \A y \in D : x <= y
  <2> HIDE DEF D
  <2> QED
    BY <1>3, SmallestExists
<1>5. PICK m \in S : x = K - m
  BY <1>4
<1>6. ASSUME NEW e \in S PROVE e <= m
  <2>1. K - e \in D
    OBVIOUS
  <2>2. K - m <= K - e
    BY <1>4, <1>5, <2>1
  <2>3. e \in 1 .. K /\ m \in 1 .. K
    BY <1>2, <1>5
  <2> QED
    BY <1>1, <2>2, <2>3
<1>7. \E y \in S : \A e \in S : y >= e
  BY <1>1, <1>2, <1>6
<1>8. Max(S) \in S /\ \A e \in S : Max(S) >= e
  BY <1>7 DEF Max
<1> QED
  BY <1>1, <1>2, <1>8

\* What Interests say of the packets of the table.
LEMMA ChildFacts ==
  ASSUME NEW i \in Interests, table \subseteq Data
  PROVE  /\ under(i) \in SUBSET Data /\ answers(i) \subseteq under(i)
         /\ i.rightmost \in BOOLEAN
         /\ \A d \in under(i) : i.child[d] \in Nat /\ d \in Nat \ {0}
         /\ \A d, e \in under(i) : d <= e => i.child[d] <= i.child[e]
<1>1. i.child \in [Data -> Nat \union {-1}]
  BY InterestAssumption
<1>2. ASSUME NEW d \in under(i) PROVE d \in Data /\ i.child[d] \in Nat
  <2>1. d \in Data /\ i.child[d] \in Nat \union {-1} /\ i.child[d] >= 0
    BY <1>1 DEF under
  <2> QED
    BY <2>1
<1>3. \A d \in Data : d \in Nat \ {0}
  BY DataNumbers
<1>4. \A d, e \in Data :
        0 <= i.child[d] /\ 0 <= i.child[e] /\ d <= e => i.child[d] <= i.child[e]
  BY InterestAssumption
<1> QED
  BY <1>2, <1>3, <1>4, InterestAssumption DEF answers

\* findLeftmost returns the first packet of the range that can satisfy the Interest.
LEMMA LeftmostIs ==
  ASSUME NEW i, NEW S \in SUBSET Data
  PROVE  LET m == findLeftmost(i, S)
         IN  /\ m = NoMatch <=> \A d \in S : ~canSatisfy(i, d)
             /\ m # NoMatch => /\ m \in S /\ canSatisfy(i, m)
                               /\ \A d \in S : canSatisfy(i, d) => m <= d
<1> DEFINE sat == {d \in S : canSatisfy(i, d)}
<1>1. findLeftmost(i, S) = IF sat = {} THEN NoMatch ELSE Min(sat)
  BY DEF findLeftmost
<1>2. sat # {} => Min(sat) \in sat /\ \A e \in sat : Min(sat) <= e
  <2>1. sat \in SUBSET Data
    OBVIOUS
  <2> HIDE DEF sat
  <2> QED
    BY <2>1, MinIs
<1>3. sat # {} => Min(sat) # NoMatch
  BY <1>2, DataNumbers DEF NoMatch
<1> QED
  BY <1>1, <1>2, <1>3

\* findRightmostAmongExact returns the last one.
LEMMA RightmostExactIs ==
  ASSUME NEW i, NEW S \in SUBSET Data
  PROVE  LET m == findRightmostAmongExact(i, S)
         IN  /\ m = NoMatch <=> \A d \in S : ~canSatisfy(i, d)
             /\ m # NoMatch => /\ m \in S /\ canSatisfy(i, m)
                               /\ \A d \in S : canSatisfy(i, d) => d <= m
<1> DEFINE sat == {d \in S : canSatisfy(i, d)}
<1>1. findRightmostAmongExact(i, S) = IF sat = {} THEN NoMatch ELSE Max(sat)
  BY DEF findRightmostAmongExact
<1>2. sat # {} => Max(sat) \in sat /\ \A e \in sat : e <= Max(sat)
  <2>1. sat \in SUBSET Data
    OBVIOUS
  <2> HIDE DEF sat
  <2> QED
    BY <2>1, MaxIs
<1>3. sat # {} => Max(sat) # NoMatch
  BY <1>2, DataNumbers DEF NoMatch
<1> QED
  BY <1>1, <1>2, <1>3

(* A turn of the loop with the right end r: the packets that are left,     *)
(* whether the loop ends, with which result, and where it goes on.         *)
Left(i, r) == {d \in under(i) : d < r}
Turn(i, r) == subNamespace(i, Left(i, r))
NextRight(i, r) == Min(Turn(i, r))
Ends(i, r) ==
  \/ Left(i, r) = {} \/ i.child[Max(Left(i, r))] = 0
  \/ findLeftmost(i, Turn(i, r)) # NoMatch
  \/ NextRight(i, r) \notin Left(i, r)
Result(i, r) ==
  IF Left(i, r) = {} THEN NoMatch
  ELSE IF i.child[Max(Left(i, r))] = 0 THEN findRightmostAmongExact(i, Left(i, r))
  ELSE IF findLeftmost(i, Turn(i, r)) # NoMatch THEN findLeftmost(i, Turn(i, r))
  ELSE Outside

\* The packets of the turn, and the first of them.
LEMMA TurnIs ==
  ASSUME NEW i \in Interests, table \subseteq Data, NEW r \in Nat, Left(i, r) # {}
  PROVE  /\ Left(i, r) \in SUBSET under(i) /\ Max(Left(i, r)) \in Left(i, r)
         /\ \A d \in Left(i, r) : d <= Max(Left(i, r))
         /\ Turn(i, r) \in SUBSET Data /\ Max(Left(i, r)) \in Turn(i, r)
         /\ NextRight(i, r) \in Turn(i, r)
         /\ \A d \in Turn(i, r) : NextRight(i, r) <= d
         /\ NextRight(i, r) \in 1 .. (r - 1)
         /\ ~i.full => Turn(i, r) \in SUBSET Left(i, r)
<1> DEFINE L == Left(i, r)
           C == Turn(i, r)
<1>1. L \in SUBSET under(i) /\ L \in SUBSET Data /\ L \in SUBSET table
  BY ChildFacts DEF Left, under
<1>2. Max(L) \in L /\ \A d \in L : d <= Max(L)
  BY <1>1, MaxIs
<1>3. Max(L) \in Data /\ Max(L) \in Nat
  BY <1>1, <1>2, DataNumbers
<1>4. C \in SUBSET Data /\ Max(L) \in C /\ (~i.full => C \in SUBSET L)
  BY <1>1, <1>2, <1>3 DEF Turn, subNamespace
<1>5. Min(C) \in C /\ \A d \in C : Min(C) <= d
  <2> HIDE DEF C, L
  <2> QED
    BY <1>4, MinIs
<1>6. Min(C) <= Max(L) /\ Max(L) < r /\ Min(C) \in Nat \ {0}
  <2>1. Max(L) < r
    BY <1>2 DEF Left
  <2> HIDE DEF C, L
  <2> QED
    BY <1>4, <1>5, <2>1, DataNumbers
<1>7. Min(C) \in 1 .. (r - 1)
  <2> HIDE DEF C, L
  <2> QED
    BY <1>3, <1>6
<1> QED
  BY <1>1, <1>2, <1>4, <1>5, <1>7 DEF NextRight

\* The loop of findRightmost ends: its right end moves to the left.
LEMMA RightmostLoop ==
  ASSUME NEW i \in Interests, table \subseteq Data
  PROVE  \E W : /\ findRightmost(i) = W[Cardinality(Data) + 1]
                /\ \A r \in 1 .. (Cardinality(Data) + 1) :
                     W[r] = IF Ends(i, r) THEN Result(i, r) ELSE W[NextRight(i, r)]
<1> DEFINE k == Cardinality(Data) + 1
           W == CHOOSE w : w = [r \in 1 .. k |->
             IF {d \in under(i) : d < r} = {} THEN NoMatch
             ELSE IF i.child[Max({d \in under(i) : d < r})] = 0
               THEN findRightmostAmongExact(i, {d \in under(i) : d < r})
             ELSE IF findLeftmost(i, subNamespace(i, {d \in under(i) : d < r})) # NoMatch
               THEN findLeftmost(i, subNamespace(i, {d \in under(i) : d < r}))
             ELSE IF Min(subNamespace(i, {d \in under(i) : d < r}))
                       \notin {d \in under(i) : d < r} THEN Outside
             ELSE w[Min(subNamespace(i, {d \in under(i) : d < r}))]]
           stop == [r \in 1 .. k |-> Ends(i, r)]
           val == [r \in 1 .. k |-> Result(i, r)]
           next == [r \in 1 .. k |-> NextRight(i, r)]
<1>1. findRightmost(i) = W[k]
  BY Zenon DEF findRightmost
<1>2. k \in Nat
  BY DataNumbers
<1> HIDE DEF k
<1>3. \A r \in 1 .. k : ~stop[r] => next[r] \in 1 .. (r - 1)
  <2> SUFFICES ASSUME NEW r \in 1 .. k, ~Ends(i, r)
               PROVE  NextRight(i, r) \in 1 .. (r - 1)
    OBVIOUS
  <2>1. r \in Nat /\ Left(i, r) # {}
    BY DEF Ends
  <2> QED
    BY <2>1, TurnIs
<1>4. PICK g : Jumps(g, stop, val, next, k)
  <2> HIDE DEF stop, val, next
  <2> QED
    BY <1>2, <1>3, JumpRecursion
<1>5. g = [r \in 1 .. k |-> IF Ends(i, r) THEN Result(i, r) ELSE g[NextRight(i, r)]]
  BY <1>4 DEF Jumps
<1>6. ASSUME NEW w, NEW r
      PROVE  (IF Ends(i, r) THEN Result(i, r) ELSE w[NextRight(i, r)])
             =
             IF {d \in under(i) : d < r} = {} THEN NoMatch
             ELSE IF i.child[Max({d \in under(i) : d < r})] = 0
               THEN findRightmostAmongExact(i, {d \in under(i) : d < r})
             ELSE IF findLeftmost(i, subNamespace(i, {d \in under(i) : d < r})) # NoMatch
               THEN findLeftmost(i, subNamespace(i, {d \in under(i) : d < r}))
             ELSE IF Min(subNamespace(i, {d \in under(i) : d < r}))
                       \notin {d \in under(i) : d < r} THEN Outside
             ELSE w[Min(subNamespace(i, {d \in under(i) : d < r}))]
  BY ZenonT(60) DEF Ends, Result, NextRight, Turn, Left
<1>7. g = [r \in 1 .. k |->
             IF {d \in under(i) : d < r} = {} THEN NoMatch
             ELSE IF i.child[Max({d \in under(i) : d < r})] = 0
               THEN findRightmostAmongExact(i, {d \in under(i) : d < r})
             ELSE IF findLeftmost(i, subNamespace(i, {d \in under(i) : d < r})) # NoMatch
               THEN findLeftmost(i, subNamespace(i, {d \in under(i) : d < r}))
             ELSE IF Min(subNamespace(i, {d \in under(i) : d < r}))
                       \notin {d \in under(i) : d < r} THEN Outside
             ELSE g[Min(subNamespace(i, {d \in under(i) : d < r}))]]
  BY <1>5, <1>6, ZenonT(60)
<1>8. W = [r \in 1 .. k |->
             IF {d \in under(i) : d < r} = {} THEN NoMatch
             ELSE IF i.child[Max({d \in under(i) : d < r})] = 0
               THEN findRightmostAmongExact(i, {d \in under(i) : d < r})
             ELSE IF findLeftmost(i, subNamespace(i, {d \in under(i) : d < r})) # NoMatch
               THEN findLeftmost(i, subNamespace(i, {d \in under(i) : d < r}))
             ELSE IF Min(subNamespace(i, {d \in under(i) : d < r}))
                       \notin {d \in under(i) : d < r} THEN Outside
             ELSE W[Min(subNamespace(i, {d \in under(i) : d < r}))]]
  BY <1>7, ZenonT(60)
<1> HIDE DEF W
<1>9. \A r \in 1 .. k :
        W[r] = IF Ends(i, r) THEN Result(i, r) ELSE W[NextRight(i, r)]
  BY <1>6, <1>8, ZenonT(60)
<1> QED
  BY <1>1, <1>9, Zenon DEF k

(* m is what a lookup from the right should find among the packets below r. *)
RightAnswer(i, r, m) ==
  /\ m = NoMatch <=> \A d \in answers(i) : ~(d < r)
  /\ m # NoMatch =>
       /\ m \in answers(i)
       /\ \A d \in answers(i) : d < r =>
            /\ i.child[d] <= i.child[m]
            /\ i.child[d] = i.child[m] => IF i.child[d] = 0 THEN d <= m ELSE m <= d

\* The loop ends with the right answer, unless the Name is a full one.
LEMMA ResultIsRight ==
  ASSUME NEW i \in Interests, ~i.full, table \subseteq Data, NEW r \in Nat, Ends(i, r)
  PROVE  RightAnswer(i, r, Result(i, r))
<1> DEFINE L == Left(i, r)
           C == Turn(i, r)
           m == Result(i, r)
<1>1. \A d \in answers(i) : d < r <=> d \in L /\ canSatisfy(i, d)
  BY DEF answers, Left
<1>2. \A d \in L : d \in under(i) /\ d < r
  BY DEF Left
<1>3. \A d \in L : canSatisfy(i, d) => d \in answers(i) /\ d < r
  BY <1>2 DEF answers
<1>4. CASE L = {}
  BY <1>1, <1>4 DEF Result, RightAnswer
<1>5. CASE L # {} /\ i.child[Max(L)] = 0
  <2>1. m = findRightmostAmongExact(i, L)
    BY <1>5 DEF Result
  <2>2. L \in SUBSET Data /\ \A d \in L : i.child[d] = 0
    <3>1. Max(L) \in L /\ \A d \in L : d <= Max(L)
      BY <1>5, TurnIs
    <3>2. \A d \in L : i.child[d] \in Nat /\ i.child[d] <= i.child[Max(L)]
      BY <1>2, <3>1, ChildFacts
    <3>3. \A d \in L : i.child[d] = 0
      BY <1>5, <3>2
    <3> QED
      BY <1>2, <3>3, ChildFacts
  <2>3. /\ m = NoMatch <=> \A d \in L : ~canSatisfy(i, d)
        /\ m # NoMatch => /\ m \in L /\ canSatisfy(i, m)
                          /\ \A d \in L : canSatisfy(i, d) => d <= m
    BY <2>1, <2>2, RightmostExactIs
  <2> HIDE DEF m, L
  <2>4. m = NoMatch <=> \A d \in answers(i) : ~(d < r)
    BY <1>1, <1>3, <2>3
  <2>5. ASSUME m # NoMatch, NEW d \in answers(i), d < r
        PROVE  i.child[d] = 0 /\ i.child[m] = 0 /\ d <= m
    BY <1>1, <2>2, <2>3, <2>5
  <2>6. m # NoMatch => m \in answers(i)
    BY <1>3, <2>3
  <2>7. RightAnswer(i, r, m)
    BY <2>4, <2>5, <2>6 DEF RightAnswer
  <2> QED
    BY <2>7 DEF m
<1>6. CASE L # {} /\ i.child[Max(L)] # 0
  <2>1. m = findLeftmost(i, C) /\ m # NoMatch
    BY <1>6, TurnIs DEF Result, Ends
  <2>2. /\ C \in SUBSET L /\ Max(L) \in L /\ \A d \in L : d <= Max(L)
        /\ C \in SUBSET Data
    BY <1>2, <1>6, TurnIs, ChildFacts
  <2>3. /\ m \in C /\ canSatisfy(i, m)
        /\ \A d \in C : canSatisfy(i, d) => m <= d
    <3> HIDE DEF C, m
    <3> QED
      BY <2>1, <2>2, LeftmostIs
  <2>4. \A d \in C : i.child[d] = i.child[Max(L)]
    BY DEF Turn, subNamespace
  <2>5. \A d \in L : i.child[d] = i.child[Max(L)] => d \in C
    BY DEF Turn, subNamespace
  <2>6. \A d \in L : i.child[d] <= i.child[Max(L)]
    BY <1>2, <2>2, ChildFacts
  <2> HIDE DEF m, L, C
  <2>7. m \in answers(i) /\ m < r /\ i.child[m] = i.child[Max(L)]
    BY <1>3, <2>2, <2>3, <2>4
  <2>8. ASSUME NEW d \in answers(i), d < r
        PROVE  /\ i.child[d] <= i.child[m]
               /\ i.child[d] = i.child[m] => i.child[d] # 0 /\ m <= d
    BY <1>1, <1>6, <2>3, <2>5, <2>6, <2>7, <2>8
  <2>9. RightAnswer(i, r, m)
    BY <2>1, <2>7, <2>8 DEF RightAnswer
  <2> QED
    BY <2>9 DEF m
<1> QED
  BY <1>4, <1>5, <1>6

\* A child without an answer is skipped, and nothing else.
LEMMA SkipIsRight ==
  ASSUME NEW i \in Interests, ~i.full, table \subseteq Data, NEW r \in Nat, ~Ends(i, r),
         NEW m, RightAnswer(i, NextRight(i, r), m)
  PROVE  RightAnswer(i, r, m)
<1> DEFINE L == Left(i, r)
           C == Turn(i, r)
           x == NextRight(i, r)
<1>1. L # {} /\ findLeftmost(i, C) = NoMatch
  BY DEF Ends
<1>2. /\ C \in SUBSET L /\ L \in SUBSET under(i) /\ \A d \in L : d <= Max(L)
      /\ Max(L) \in L /\ x \in C /\ x \in 1 .. (r - 1)
  BY <1>1, TurnIs
<1>3. \A d \in C : ~canSatisfy(i, d)
  <2>1. C \in SUBSET Data
    BY <1>2, ChildFacts
  <2> HIDE DEF C
  <2> QED
    BY <1>1, <2>1, LeftmostIs
<1>4. ASSUME NEW d \in answers(i), d < r PROVE d < x
  <2>1. d \in L /\ canSatisfy(i, d)
    BY <1>4 DEF answers, Left
  <2>2. i.child[d] # i.child[Max(L)] /\ i.child[x] = i.child[Max(L)]
    BY <1>2, <1>3, <2>1 DEF Turn, subNamespace
  <2> HIDE DEF L, C, x
  <2>3. d \in under(i) /\ x \in under(i) /\ Max(L) \in under(i) /\ d <= Max(L)
    BY <1>2, <2>1
  <2>4. i.child[d] <= i.child[Max(L)] /\ (x <= d => i.child[x] <= i.child[d])
    BY <2>3, ChildFacts
  <2>5. i.child[d] \in Nat /\ i.child[x] \in Nat /\ d \in Nat /\ x \in Nat
    BY <2>3, ChildFacts
  <2> QED
    BY <2>2, <2>4, <2>5
<1>5. ASSUME NEW d \in answers(i), d < x PROVE d < r
  <2>1. d \in Nat
    BY ChildFacts
  <2> QED
    BY <1>2, <1>5, <2>1
<1>6. RightAnswer(i, x, m)
  OBVIOUS
<1> HIDE DEF x
<1> QED
  BY <1>4, <1>5, <1>6 DEF RightAnswer

\* findRightmost returns the right answer of all packets, unless the Name
\* is a full one.
LEMMA RightmostIsRight ==
  ASSUME NEW i \in Interests, ~i.full, table \subseteq Data
  PROVE  RightAnswer(i, Cardinality(Data) + 1, findRightmost(i))
<1> DEFINE k == Cardinality(Data) + 1
<1>1. k \in Nat /\ 1 <= k
  BY DataNumbers
<1> HIDE DEF k
<1>2. PICK W : /\ findRightmost(i) = W[k]
               /\ \A r \in 1 .. k :
                    W[r] = IF Ends(i, r) THEN Result(i, r) ELSE W[NextRight(i, r)]
  BY RightmostLoop DEF k
<1> DEFINE S == {j \in 0 .. k : \A r \in 1 .. j : RightAnswer(i, r, W[r])}
<1>3. 0 \in S
  BY <1>1
<1>4. ASSUME NEW j \in 1 .. k, j - 1 \in S PROVE j \in S
  <2>1. \A r \in 1 .. (j - 1) : RightAnswer(i, r, W[r])
    BY <1>4
  <2>2. RightAnswer(i, j, W[j])
    <3>1. W[j] = IF Ends(i, j) THEN Result(i, j) ELSE W[NextRight(i, j)]
      BY <1>2
    <3>2. j \in Nat
      OBVIOUS
    <3>3. CASE Ends(i, j)
      BY <3>1, <3>2, <3>3, ResultIsRight
    <3>4. CASE ~Ends(i, j)
      <4>1. Left(i, j) # {}
        BY <3>4 DEF Ends
      <4>2. NextRight(i, j) \in 1 .. (j - 1)
        BY <3>2, <4>1, TurnIs
      <4>3. RightAnswer(i, NextRight(i, j), W[NextRight(i, j)])
        BY <2>1, <4>2
      <4> QED
        BY <3>1, <3>2, <3>4, <4>3, SkipIsRight
    <3> QED
      BY <3>3, <3>4
  <2>3. \A r \in 1 .. j : r = j \/ r \in 1 .. (j - 1)
    OBVIOUS
  <2>4. j \in 0 .. k
    OBVIOUS
  <2> QED
    BY <2>1, <2>2, <2>3, <2>4
<1> HIDE DEF S
<1>5. \A j \in 0 .. k : j \in S
  BY <1>1, <1>3, <1>4, BoundedInduction
<1>6. k \in S
  BY <1>1, <1>5
<1>7. RightAnswer(i, k, W[k])
  BY <1>1, <1>6 DEF S
<1> QED
  BY <1>2, <1>7 DEF k

\* A search by a full Name finds that packet, nothing, or leaves the packets under
\* the Name, and this if and only if the lookup strays.
LEMMA FullNameIsRight ==
  ASSUME NEW i \in Interests, i.full, i.rightmost, table \subseteq Data
  PROVE  IF Strays(i) THEN findRightmost(i) = Outside
         ELSE RightAnswer(i, Cardinality(Data) + 1, findRightmost(i))
<1> DEFINE k == Cardinality(Data) + 1
           L == Left(i, k)
           C == Turn(i, k)
<1>1. k \in Nat /\ 1 <= k /\ \A d \in Data : d < k
  BY DataNumbers
<1>2. PICK W : /\ findRightmost(i) = W[k]
               /\ \A r \in 1 .. k :
                    W[r] = IF Ends(i, r) THEN Result(i, r) ELSE W[NextRight(i, r)]
  BY RightmostLoop
<1> HIDE DEF k
<1>3. W[k] = IF Ends(i, k) THEN Result(i, k) ELSE W[NextRight(i, k)]
  BY <1>1, <1>2
<1>4. under(i) \in SUBSET Data /\ L = under(i)
  BY <1>1, ChildFacts DEF Left
<1>5. CASE L = {}
  <2>1. W[k] = NoMatch
    BY <1>3, <1>5 DEF Ends, Result
  <2>2. answers(i) = {} /\ ~Strays(i)
    BY <1>4, <1>5 DEF answers, Strays
  <2> QED
    BY <1>2, <2>1, <2>2 DEF RightAnswer, k
<1>6. CASE L # {}
  <2> DEFINE e == Max(L)
             m == findLeftmost(i, C)
  <2>1. /\ e \in L /\ e \in C /\ C \in SUBSET Data
        /\ NextRight(i, k) \in C /\ NextRight(i, k) \in 1 .. (k - 1)
        /\ \A d \in C : NextRight(i, k) <= d
    BY <1>1, <1>6, TurnIs
  <2>2. e \in Data /\ i.child[e] > 0 /\ \A d \in under(i) : d = e
    <3>1. \A d \in under(i) : d \in Data /\ i.child[d] >= 0
      BY <1>4 DEF under
    <3>2. e \in under(i)
      BY <1>4, <2>1
    <3>3. \A d, f \in Data :
            i.child[d] >= 0 /\ i.child[f] >= 0 => d = f /\ i.child[d] > 0
      BY InterestAssumption
    <3> HIDE DEF e
    <3> QED
      BY <3>1, <3>2, <3>3
  <2>3. e \in Nat /\ NextRight(i, k) \in Nat
    BY <2>1, <2>2, DataNumbers
  <2>4. \A d \in C : d \in table /\ NameOf[d] = NameOf[e] /\ d <= e
    BY DEF Turn, subNamespace
  <2>5. \A d \in table : NameOf[d] = NameOf[e] /\ d <= e => d \in C
    BY DEF Turn, subNamespace
  <2>6. \A d \in C : canSatisfy(i, d) => d = e
    <3>1. \A d \in C : canSatisfy(i, d) => i.child[d] >= 0
      BY <2>1, InterestAssumption DEF canSatisfy
    <3>2. \A d \in C : canSatisfy(i, d) => d \in under(i)
      BY <2>4, <3>1 DEF under
    <3> HIDE DEF C, e
    <3> QED
      BY <2>2, <3>2
  <2>7. /\ m = NoMatch <=> \A d \in C : ~canSatisfy(i, d)
        /\ m # NoMatch => m \in C /\ canSatisfy(i, m)
    <3> HIDE DEF C
    <3> QED
      BY <2>1, LeftmostIs
  <2>8. answers(i) = IF canSatisfy(i, e) THEN {e} ELSE {}
    BY <1>4, <2>1, <2>2 DEF answers
  <2>9. Strays(i) <=> ~canSatisfy(i, e) /\ \E d \in table : NameOf[d] = NameOf[e] /\ d < e
    <3>1. Strays(i) <=> /\ answers(i) = {}
                        /\ \E d \in under(i), f \in table : NameOf[f] = NameOf[d] /\ f < d
      BY DEF Strays
    <3>2. e \in under(i)
      BY <1>4, <2>1
    <3> HIDE DEF e
    <3> QED
      BY <2>2, <2>8, <3>1, <3>2
  <2>10. i.child[e] # 0
    BY <2>2
  <2>11. CASE canSatisfy(i, e)
    <3>1. m = e /\ m # NoMatch
      <4> HIDE DEF m, e, C
      <4> QED
        BY <2>1, <2>6, <2>7, <2>11
    <3>2. W[k] = e
      BY <1>3, <1>6, <2>10, <3>1 DEF Ends, Result
    <3>3. ~Strays(i) /\ answers(i) = {e} /\ e # NoMatch
      BY <2>8, <2>9, <2>11, <3>1
    <3>4. e < k /\ i.child[e] \in Nat
      BY <1>1, <1>4, <2>1, <2>2, ChildFacts
    <3> HIDE DEF e
    <3>5. RightAnswer(i, k, e)
      BY <2>3, <2>10, <3>3, <3>4 DEF RightAnswer
    <3> QED
      BY <1>2, <3>2, <3>3, <3>5 DEF k
  <2>12. CASE ~canSatisfy(i, e)
    <3>1. m = NoMatch
      <4> HIDE DEF m, C, e
      <4> QED
        BY <2>6, <2>7, <2>12
    <3>2. answers(i) = {}
      BY <2>8, <2>12
    <3>3. CASE NextRight(i, k) \in L
      <4>1. ~Ends(i, k) /\ NextRight(i, k) = e
        BY <1>4, <1>6, <2>2, <2>10, <3>1, <3>3 DEF Ends
      <4>2. W[k] = W[e] /\ e \in 1 .. k
        BY <1>1, <1>3, <2>1, <4>1
      <4>3. Left(i, e) = {}
        <5> HIDE DEF e
        <5> QED
          BY <2>2, <2>3 DEF Left
      <4>4. W[e] = NoMatch
        <5>1. W[e] = IF Ends(i, e) THEN Result(i, e) ELSE W[NextRight(i, e)]
          BY <1>2, <4>2
        <5> QED
          BY <4>3, <5>1 DEF Ends, Result
      <4>5. ~Strays(i)
        <5>1. \A d \in table : NameOf[d] = NameOf[e] /\ d <= e => e <= d
          <6> HIDE DEF e, C
          <6> QED
            BY <2>1, <2>5, <4>1
        <5>2. \A d \in table : d \in Nat
          BY DataNumbers
        <5> HIDE DEF e
        <5> QED
          BY <2>3, <2>9, <5>1, <5>2
      <4>6. RightAnswer(i, k, NoMatch)
        BY <3>2 DEF RightAnswer
      <4> QED
        BY <1>2, <4>2, <4>4, <4>5, <4>6 DEF k
    <3>4. CASE NextRight(i, k) \notin L
      <4>1. W[k] = Outside
        BY <1>3, <1>6, <2>10, <3>1, <3>4 DEF Ends, Result
      <4>2. NextRight(i, k) # e
        BY <2>1, <3>4
      <4>3. NextRight(i, k) \in table /\ NameOf[NextRight(i, k)] = NameOf[e]
            /\ NextRight(i, k) <= e
        BY <2>1, <2>4
      <4>4. NextRight(i, k) < e
        <5> HIDE DEF e
        <5> QED
          BY <2>3, <4>2, <4>3
      <4>5. Strays(i)
        BY <2>9, <2>12, <4>3, <4>4
      <4> QED
        BY <1>2, <4>1, <4>5
    <3> QED
      BY <3>3, <3>4
  <2> QED
    BY <2>11, <2>12
<1> QED
  BY <1>5, <1>6

\* A lookup finds an answer, the right one, in any table, unless it strays.
LEMMA LookupAnswers == table \subseteq Data => FindAnswers
<1> SUFFICES ASSUME table \subseteq Data, NEW i \in Interests
             PROVE  IF Strays(i) THEN find(i) = Outside ELSE
                    /\ find(i) = NoMatch <=> answers(i) = {}
                    /\ find(i) # NoMatch =>
                         /\ find(i) \in answers(i)
                         /\ \A d \in answers(i) :
                              IF i.rightmost
                                THEN /\ i.child[d] <= i.child[find(i)]
                                     /\ i.child[d] = i.child[find(i)] =>
                                          IF i.child[d] = 0 THEN d <= find(i)
                                                            ELSE find(i) <= d
                                ELSE find(i) <= d
  BY DEF FindAnswers
<1>1. CASE i.rightmost
  <2>1. find(i) = findRightmost(i)
    BY <1>1 DEF find
  <2>2. \A d \in answers(i) : d < Cardinality(Data) + 1
    <3>1. \A d \in answers(i) : d \in Data
      BY ChildFacts
    <3> QED
      BY <3>1, DataNumbers
  <2>3. IF Strays(i) THEN find(i) = Outside
        ELSE RightAnswer(i, Cardinality(Data) + 1, find(i))
    <3>1. CASE i.full
      BY <1>1, <2>1, <3>1, FullNameIsRight
    <3>2. CASE ~i.full
      <4>1. ~Strays(i)
        BY <3>2 DEF Strays
      <4> QED
        BY <2>1, <3>2, <4>1, RightmostIsRight
    <3> QED
      BY <3>1, <3>2
  <2>4. CASE Strays(i)
    BY <2>3, <2>4
  <2>5. CASE ~Strays(i)
    <3>1. RightAnswer(i, Cardinality(Data) + 1, find(i))
      BY <2>3, <2>5
    <3> QED
      BY <1>1, <2>2, <2>5, <3>1 DEF RightAnswer
  <2> QED
    BY <2>4, <2>5
<1>2. CASE ~i.rightmost
  <2>1. find(i) = findLeftmost(i, under(i))
    BY <1>2 DEF find
  <2>2. under(i) \in SUBSET Data
    BY ChildFacts
  <2>3. /\ find(i) = NoMatch <=> \A d \in under(i) : ~canSatisfy(i, d)
        /\ find(i) # NoMatch =>
             /\ find(i) \in under(i) /\ canSatisfy(i, find(i))
             /\ \A d \in under(i) : canSatisfy(i, d) => find(i) <= d
    BY <2>1, <2>2, LeftmostIs
  <2>4. ~Strays(i)
    BY <1>2 DEF Strays
  <2> QED
    BY <1>2, <2>3, <2>4 DEF answers
<1> QED
  BY <1>1, <1>2

\* Cs::find misses only if no cached packet can satisfy the Interest, and otherwise
\* hits the packet that the ChildSelector asks for, whatever is cached and stale: the
\* loop of findRightmost ends, skips the children without an answer and no others,
\* and leaves the packets under the Interest's Name for the lookups that stray
\* (Strays: by a full Name, from the right) and for no other.
THEOREM LookupsAnswered == Spec => []FindAnswers
<1>1. Spec => []TypeOK
  BY TypeCorrect
<1>2. TypeOK => FindAnswers
  BY LookupAnswers DEF TypeOK
<1> QED
  BY <1>1, <1>2, PTL

-----------------------------------------------------------------------------
(* The store implements BoundedCache.  The policies evict from the front   *)
(* of their queues; that the front is what has to go first is the rest of  *)
(* the inductive invariant: the order of every queue but the stale one     *)
(* agrees with recency, and what is in the stale queue has expired.        *)

OrderedSeq(q, order) ==
  \A i, j \in DOMAIN q : <<q[i], q[j]>> \in order => i < j
Ordered(Q, order) ==
  \A q \in {"lru", "unsolicited", "fifo"} : OrderedSeq(Q[q], order)
Expiring(types, stales, time) ==
  \A d \in DOMAIN types :
    types[d] = "stale" => stales[d] # Never /\ stales[d] <= time

OrderInv ==
  /\ recency \subseteq table \X table
  /\ Ordered(queues, recency)
  /\ Expiring(queueType, staleTime, now)

\* Without a packet, the others are in the order in which they were.
LEMMA WithoutOrdered ==
  ASSUME NEW q \in Seq(Data), NEW k \in DOMAIN q, NEW order,
         \A i, j \in DOMAIN q : q[i] = q[j] => i = j, OrderedSeq(q, order)
  PROVE  /\ OrderedSeq(Without(q, q[k]), order)
         /\ \A i \in DOMAIN Without(q, q[k]) : Without(q, q[k])[i] # q[k]
<1> DEFINE w == Without(q, q[k])
           at(i) == IF i < k THEN i ELSE i + 1
<1>1. /\ w \in Seq(Data) /\ Len(w) = Len(q) - 1
      /\ \A i \in 1 .. Len(q) - 1 : w[i] = IF i < k THEN q[i] ELSE q[i + 1]
  BY WithoutAt
<1>2. k \in 1 .. Len(q) /\ Len(q) \in Nat /\ DOMAIN q = 1 .. Len(q)
  OBVIOUS
<1> HIDE DEF w
<1>3. DOMAIN w = 1 .. Len(q) - 1
  BY <1>1
<1>4. ASSUME NEW i \in DOMAIN w
      PROVE  w[i] = q[at(i)] /\ at(i) \in DOMAIN q /\ at(i) # k /\ i \in Int
  BY <1>1, <1>2, <1>3
<1>5. ASSUME NEW i \in DOMAIN w, NEW j \in DOMAIN w, <<w[i], w[j]>> \in order
      PROVE  i < j
  <2>1. at(i) < at(j)
    <3> HIDE DEF at
    <3> QED
      BY <1>4, <1>5 DEF OrderedSeq
  <2> QED
    BY <1>2, <1>4, <2>1
<1>6. ASSUME NEW i \in DOMAIN w PROVE w[i] # q[k]
  <2> HIDE DEF at
  <2> QED
    BY <1>4
<1> QED
  BY <1>5, <1>6 DEF OrderedSeq, w

\* The first packets are dropped.
LEMMA DropOrdered ==
  ASSUME NEW q \in Seq(Data), NEW k \in 0 .. Len(q), NEW order, OrderedSeq(q, order)
  PROVE  OrderedSeq(SubSeq(q, k + 1, Len(q)), order)
<1> DEFINE w == SubSeq(q, k + 1, Len(q))
<1>1. DOMAIN w = 1 .. Len(q) - k /\ \A i \in DOMAIN w : w[i] = q[k + i]
  OBVIOUS
<1> HIDE DEF w
<1>2. ASSUME NEW i \in DOMAIN w, NEW j \in DOMAIN w, <<w[i], w[j]>> \in order
      PROVE  i < j
  <2>1. k + i \in DOMAIN q /\ k + j \in DOMAIN q /\ i \in Int /\ j \in Int /\ k \in Int
    BY <1>1
  <2>2. k + i < k + j
    BY <1>1, <1>2, <2>1 DEF OrderedSeq
  <2> QED
    BY <2>1, <2>2
<1> QED
  BY <1>2 DEF OrderedSeq, w

(* d has become the last in order; nothing else has changed. *)
MadeLast(order, old, d) ==
  /\ \A e : <<d, e>> \notin order
  /\ \A x, y : x # d /\ y # d /\ <<x, y>> \in order => <<x, y>> \in old

\* The packet is appended that has become the last in order.
LEMMA AppendOrdered ==
  ASSUME NEW q \in Seq(Data), NEW d \in Data, NEW old, NEW order,
         MadeLast(order, old, d), OrderedSeq(q, old), \A i \in DOMAIN q : q[i] # d
  PROVE  OrderedSeq(q, order) /\ OrderedSeq(Append(q, d), order)
<1>1. OrderedSeq(q, order)
  BY DEF OrderedSeq, MadeLast
<1> DEFINE w == Append(q, d)
<1>2. /\ Len(q) \in Nat /\ DOMAIN q = 1 .. Len(q) /\ DOMAIN w = 1 .. Len(q) + 1
      /\ w[Len(q) + 1] = d /\ \A i \in 1 .. Len(q) : w[i] = q[i]
  OBVIOUS
<1> HIDE DEF w
<1>3. ASSUME NEW i \in DOMAIN w, NEW j \in DOMAIN w, <<w[i], w[j]>> \in order
      PROVE  i < j
  <2>1. i # Len(q) + 1
    BY <1>2, <1>3 DEF MadeLast
  <2>2. i \in DOMAIN q /\ w[i] = q[i]
    BY <1>2, <2>1
  <2>3. CASE j = Len(q) + 1
    BY <1>2, <2>2, <2>3
  <2>4. CASE j # Len(q) + 1
    <3>1. j \in DOMAIN q /\ w[j] = q[j]
      BY <1>2, <2>4
    <3> QED
      BY <1>1, <1>3, <2>2, <3>1 DEF OrderedSeq
  <2> QED
    BY <2>3, <2>4
<1> QED
  BY <1>1, <1>3 DEF OrderedSeq, w

\* Renewed makes a packet the last one.
LEMMA RenewedIs ==
  ASSUME NEW d, recency \subseteq table \X table
  PROVE  /\ MadeLast(Renewed(d), recency, d)
         /\ Renewed(d) \subseteq (table \union {d}) \X (table \union {d})
<1>1. \A p \in recency : p = <<p[1], p[2]>> /\ p[1] \in table /\ p[2] \in table
  OBVIOUS
<1>2. ASSUME NEW x, NEW y
      PROVE  <<x, y>> \in Renewed(d) <=>
               \/ <<x, y>> \in recency /\ x # d /\ y # d
               \/ x \in table \ {d} /\ y = d
  BY DEF Renewed
<1>3. MadeLast(Renewed(d), recency, d)
  BY <1>2 DEF MadeLast
<1> QED
  BY <1>1, <1>3 DEF Renewed

\* A packet of the queue type is appended there, to queues that do not hold it.
LEMMA AttachedOrdered ==
  ASSUME NEW Q \in Queues, NEW R, NEW d \in Data, NEW type \in QueueTypes,
         R = [Q EXCEPT ![type] = Append(@, d)],
         NEW old, NEW order, MadeLast(order, old, d), Ordered(Q, old),
         \A q \in QueueTypes : \A i \in DOMAIN Q[q] : Q[q][i] # d
  PROVE  Ordered(R, order)
<1> SUFFICES ASSUME NEW q \in {"lru", "unsolicited", "fifo"}
             PROVE  OrderedSeq(R[q], order)
  BY DEF Ordered
<1>1. q \in QueueTypes /\ Q[q] \in Seq(Data) /\ OrderedSeq(Q[q], old)
  BY DEF Ordered, Queues, QueueTypes
<1>2. OrderedSeq(Q[q], order) /\ OrderedSeq(Append(Q[q], d), order)
  BY <1>1, AppendOrdered
<1>3. R[q] = IF q = type THEN Append(Q[q], d) ELSE Q[q]
  BY <1>1 DEF Queues
<1> QED
  BY <1>2, <1>3

\* The packet at place k of the queue type is taken out.
LEMMA DetachedOrdered ==
  ASSUME NEW Q \in Queues, NEW T \in SUBSET Data, Placed(Q, T), NEW R,
         NEW type \in QueueTypes, NEW k \in DOMAIN Q[type], NEW d, d = Q[type][k],
         R = [Q EXCEPT ![type] = Without(@, d)], NEW order, Ordered(Q, order)
  PROVE  /\ Ordered(R, order)
         /\ R \in Queues
         /\ \A q \in QueueTypes : \A i \in DOMAIN R[q] : R[q][i] # d
<1>1. ASSUME NEW q \in QueueTypes
      PROVE  /\ Q[q] \in Seq(Data)
             /\ \A i, j \in DOMAIN Q[q] : Q[q][i] = Q[q][j] => i = j
             /\ R[q] = IF q = type THEN Without(Q[q], d) ELSE Q[q]
             /\ q # type => \A i \in DOMAIN Q[q] : Q[q][i] # d
  BY DEF Queues, Placed
<1>2. /\ Without(Q[type], d) \in Seq(Data)
      /\ \A i \in DOMAIN Without(Q[type], d) : Without(Q[type], d)[i] # d
      /\ type \in {"lru", "unsolicited", "fifo"}
           => OrderedSeq(Without(Q[type], d), order)
  <2>1. Without(Q[type], d) \in Seq(Data)
    BY <1>1, WithoutAt
  <2>2. OrderedSeq(Q[type], {})
    BY DEF OrderedSeq
  <2>3. \A i \in DOMAIN Without(Q[type], d) : Without(Q[type], d)[i] # d
    BY <1>1, <2>2, WithoutOrdered
  <2>4. CASE type \in {"lru", "unsolicited", "fifo"}
    <3>1. OrderedSeq(Q[type], order)
      BY <2>4 DEF Ordered
    <3> QED
      BY <1>1, <2>1, <2>3, <3>1, WithoutOrdered
  <2> QED
    BY <2>1, <2>3, <2>4
<1>3. Ordered(R, order)
  <2> SUFFICES ASSUME NEW q \in {"lru", "unsolicited", "fifo"}
               PROVE  OrderedSeq(R[q], order)
    BY DEF Ordered
  <2>1. q \in QueueTypes /\ OrderedSeq(Q[q], order)
    BY DEF Ordered, QueueTypes
  <2> QED
    BY <1>1, <1>2, <2>1
<1>4. R \in Queues
  <2>1. \A q \in QueueTypes : R[q] \in Seq(Data)
    BY <1>1, <1>2
  <2>2. R = [q \in QueueTypes |-> R[q]]
    BY DEF Queues
  <2> QED
    BY <2>1, <2>2 DEF Queues
<1> QED
  BY <1>1, <1>2, <1>3, <1>4

-----------------------------------------------------------------------------
(* evictEntries shrinks the store as BoundedCache says. *)

\* A queue is emptied before the next one is begun.
LEMMA TakenInTurn ==
  ASSUME NEW ix, ix.queues \in Queues, NEW n \in Int
  PROVE  /\ \A q \in QueueTypes : taken(ix, n)[q] \in 0 .. Len(ix.queues[q])
         /\ taken(ix, n)["unsolicited"] < Len(ix.queues["unsolicited"])
              => taken(ix, n)["stale"] = 0 /\ taken(ix, n)["fifo"] = 0
         /\ taken(ix, n)["stale"] < Len(ix.queues["stale"])
              => taken(ix, n)["fifo"] = 0
<1> DEFINE l == Len(ix.queues["lru"])
           u == Len(ix.queues["unsolicited"])
           s == Len(ix.queues["stale"])
           f == Len(ix.queues["fifo"])
<1>1. l \in Nat /\ u \in Nat /\ s \in Nat /\ f \in Nat
  BY DEF Queues, QueueTypes
<1>2. /\ taken(ix, n)["lru"] = Clip(n, l)
      /\ taken(ix, n)["unsolicited"] = Clip(n, u)
      /\ taken(ix, n)["stale"] = Clip(n - u, s)
      /\ taken(ix, n)["fifo"] = Clip(n - u - s, f)
  BY DEF taken, QueueTypes
<1> HIDE DEF l, u, s, f
<1>3. /\ Clip(n, l) \in 0 .. l /\ Clip(n, u) \in 0 .. u
      /\ Clip(n - u, s) \in 0 .. s /\ Clip(n - u - s, f) \in 0 .. f
  BY <1>1 DEF Clip
<1>4. /\ Clip(n, u) < u => Clip(n - u, s) = 0 /\ Clip(n - u - s, f) = 0
      /\ Clip(n - u, s) < s => Clip(n - u - s, f) = 0
  BY <1>1 DEF Clip
<1>5. \A q \in QueueTypes : taken(ix, n)[q] \in 0 .. Len(ix.queues[q])
  BY <1>2, <1>3 DEF QueueTypes, l, u, s, f
<1> QED
  BY <1>2, <1>4, <1>5 DEF u, s

(* The n packets that evictEntries takes go before the others. *)
GoFirst(gone, T, uns, stales, order) ==
  \A lost \in gone, kept \in T \ gone :
    ~Cache!GoesFirst(kept, lost, uns, stales, order)

\* The place of a packet: a lost one is at the front of its queue, a kept one is behind.
LEMMA PlaceOf ==
  ASSUME NEW ix, NEW T \in SUBSET Data, ix.queues \in Queues, Placed(ix.queues, T),
         NEW n \in Int, NEW d \in T
  PROVE  \E q \in QueueTypes : \E i \in DOMAIN ix.queues[q] :
           /\ ix.queues[q][i] = d /\ i \in Nat \ {0}
           /\ i <= Len(ix.queues[q])
           /\ d \in victims(ix, n) => i <= taken(ix, n)[q]
           /\ d \notin victims(ix, n) => taken(ix, n)[q] < i
<1> DEFINE Q == ix.queues
           k == taken(ix, n)
<1>1. PICK q \in QueueTypes : \E i \in DOMAIN Q[q] : Q[q][i] = d
  BY DEF Placed
<1>2. PICK i \in DOMAIN Q[q] : Q[q][i] = d
  BY <1>1
<1>3. i \in Nat \ {0} /\ i <= Len(Q[q]) /\ DOMAIN Q[q] = 1 .. Len(Q[q])
  BY DEF Queues
<1>4. k[q] \in 0 .. Len(Q[q])
  BY TakenInTurn
<1>5. victims(ix, n) = UNION {{Q[r][j] : j \in 1 .. k[r]} : r \in QueueTypes}
  BY DEF victims
<1>6. ASSUME d \notin victims(ix, n) PROVE k[q] < i
  <2>1. i \notin 1 .. k[q]
    BY <1>2, <1>5, <1>6
  <2> HIDE DEF k
  <2> QED
    BY <1>3, <1>4, <2>1
<1>7. ASSUME d \in victims(ix, n) PROVE i <= k[q]
  <2>1. PICK r \in QueueTypes : \E j \in 1 .. k[r] : Q[r][j] = d
    BY <1>5, <1>7
  <2>2. PICK j \in 1 .. k[r] : Q[r][j] = d
    BY <2>1
  <2>3. k[r] \in 0 .. Len(Q[r]) /\ DOMAIN Q[r] = 1 .. Len(Q[r])
    BY TakenInTurn DEF Queues
  <2>4. j \in DOMAIN Q[r]
    <3> HIDE DEF k
    <3> QED
      BY <2>2, <2>3
  <2>5. r = q /\ j = i
    BY <1>2, <2>2, <2>4 DEF Placed
  <2> HIDE DEF k
  <2> QED
    BY <1>4, <2>2, <2>5
<1> QED
  BY <1>2, <1>3, <1>6, <1>7

\* What evictEntries takes has to go first.
LEMMA EvictsFirst ==
  ASSUME NEW ix, NEW T \in SUBSET Data, NEW uns,
         NEW stales \in [Data -> Nat \union {Never}], now \in Nat,
         policy \in {"lru", "fifo"}, NEW n \in Int, NEW order,
         Consistent(ix, T, uns, stales, policy, now),
         Ordered(ix.queues, order), Expiring(ix.queueType, stales, now)
  PROVE  GoFirst(victims(ix, n) \intersect T, T, uns, stales, order)
<1> DEFINE Q == ix.queues
           k == taken(ix, n)
<1> SUFFICES ASSUME NEW lost \in victims(ix, n) \intersect T,
                    NEW kept \in T \ victims(ix, n),
                    Cache!GoesFirst(kept, lost, uns, stales, order)
             PROVE  FALSE
  BY DEF GoFirst
<1>1. Q \in Queues /\ Placed(Q, T) /\ InItsQueue(Q, ix.queueType, policy)
  BY DEF Consistent
<1>2. PICK q \in QueueTypes : \E i \in DOMAIN Q[q] :
           Q[q][i] = lost /\ i \in Nat \ {0} /\ i <= Len(Q[q]) /\ i <= k[q]
  BY <1>1, PlaceOf
<1>3. PICK a \in DOMAIN Q[q] :
           Q[q][a] = lost /\ a \in Nat \ {0} /\ a <= Len(Q[q]) /\ a <= k[q]
  BY <1>2
<1>4. PICK r \in QueueTypes : \E i \in DOMAIN Q[r] :
           Q[r][i] = kept /\ i \in Nat \ {0} /\ i <= Len(Q[r]) /\ k[r] < i
  BY <1>1, PlaceOf
<1>5. PICK b \in DOMAIN Q[r] :
           Q[r][b] = kept /\ b \in Nat \ {0} /\ b <= Len(Q[r]) /\ k[r] < b
  BY <1>4
<1>6. /\ k[q] \in 0 .. Len(Q[q]) /\ k[r] \in 0 .. Len(Q[r])
      /\ k["unsolicited"] < Len(Q["unsolicited"]) => k["stale"] = 0 /\ k["fifo"] = 0
      /\ k["stale"] < Len(Q["stale"]) => k["fifo"] = 0
  BY <1>1, TakenInTurn
<1>7. Len(Q[q]) \in Nat /\ Len(Q[r]) \in Nat
  BY <1>1 DEF Queues
<1> HIDE DEF k
<1>8. k[q] # 0 /\ k[r] < Len(Q[r])
  BY <1>3, <1>5, <1>6, <1>7
<1>9. ASSUME q = r, q \in {"lru", "unsolicited", "fifo"} PROVE <<kept, lost>> \notin order
  <2>1. a < b
    BY <1>3, <1>5, <1>6, <1>7, <1>9
  <2>2. <<Q[q][b], Q[q][a]>> \in order => b < a
    BY <1>3, <1>5, <1>9 DEF Ordered, OrderedSeq
  <2> QED
    BY <1>3, <1>5, <1>9, <2>1, <2>2
<1>10. CASE policy = "lru"
  <2>1. q = "lru" /\ r = "lru"
    BY <1>1, <1>3, <1>5, <1>10 DEF InItsQueue
  <2>2. <<kept, lost>> \in order
    BY <1>10 DEF Cache!GoesFirst
  <2> QED
    BY <1>9, <2>1, <2>2
<1>11. CASE policy = "fifo"
  <2>1. /\ q = ix.queueType[lost] /\ r = ix.queueType[kept]
        /\ lost \in DOMAIN ix.queueType /\ kept \in DOMAIN ix.queueType
    BY <1>1, <1>3, <1>5, <1>11 DEF InItsQueue, Consistent, Timed
  <2>2. /\ q \in {"unsolicited", "stale", "fifo"} /\ r \in {"unsolicited", "stale", "fifo"}
        /\ q = "unsolicited" <=> lost \in uns
        /\ r = "unsolicited" <=> kept \in uns
        /\ r = "fifo" /\ stales[kept] # Never => stales[kept] >= now
        /\ q = "stale" => stales[lost] # Never /\ stales[lost] <= now
        /\ r = "stale" => stales[kept] # Never /\ stales[kept] <= now
    BY <1>11, <2>1 DEF Consistent, Timed, Expiring
  <2>3. /\ stales[kept] \in Nat \union {Never} /\ stales[lost] \in Nat \union {Never}
    OBVIOUS
  <2>4. CASE kept \in uns /\ lost \notin uns
    BY <1>6, <1>8, <2>2, <2>4
  <2>5. CASE kept \in uns /\ lost \in uns /\ <<kept, lost>> \in order
    BY <1>9, <2>2, <2>5
  <2>6. CASE kept \notin uns /\ lost \notin uns /\ Cache!Expired(stales, kept)
               /\ Cache!Fresh(stales, lost)
    <3>1. r # "fifo"
      BY <2>2, <2>3, <2>6 DEF Cache!Expired, Cache!Never, Never
    <3>2. q # "stale"
      BY <2>2, <2>3, <2>6 DEF Cache!Fresh, Cache!Never, Never
    <3>3. r = "stale" /\ q = "fifo"
      BY <2>2, <2>6, <3>1, <3>2
    <3> QED
      BY <1>6, <1>8, <3>3
  <2>7. CASE kept \notin uns /\ lost \notin uns /\ Cache!Fresh(stales, kept)
               /\ Cache!Fresh(stales, lost) /\ <<kept, lost>> \in order
    <3>1. q # "stale"
      BY <2>2, <2>3, <2>7 DEF Cache!Fresh, Cache!Never, Never
    <3>2. r # "stale"
      BY <2>2, <2>3, <2>7 DEF Cache!Fresh, Cache!Never, Never
    <3> QED
      BY <1>9, <2>2, <2>7, <3>1, <3>2
  <2> QED
    BY <1>11, <2>4, <2>5, <2>6, <2>7 DEF Cache!GoesFirst
<1> QED
  BY <1>10, <1>11

\* BoundedCache counts packets as ContentStore does.
LEMMA SameSize == ASSUME NEW S PROVE Cache!Cardinality(S) = Cardinality(S)
  BY Zenon DEF Cardinality, Cache!Cardinality

\* evictEntries shrinks the store, and leaves the queues in order.
LEMMA EvictRefines ==
  ASSUME NEW ix, NEW T \in SUBSET Data, NEW uns \in SUBSET T,
         NEW stales \in [Data -> Nat \union {Never}], NEW lim \in Limits,
         NEW order \in SUBSET (T \X T), policy \in Policies, now \in 0 .. MaxTime,
         Consistent(ix, T, uns, stales, policy, now),
         Ordered(ix.queues, order), Expiring(ix.queueType, stales, now),
         evictEntries(ix, T, uns, lim, order), staleTime' = stales, now' = now
  PROVE  Cache!Shrinks(T, lim, uns, stales, order) /\ OrderInv'
<1> DEFINE n    == Cardinality(T) - lim
           gone == victims(ix, n)
           k    == taken(ix, n)
           Q    == ix.queues
<1>1. /\ lim \in Nat /\ policy \in {"lru", "fifo"} /\ now \in Nat
      /\ Q \in Queues /\ Placed(Q, T)
  BY ContentStoreAssumption DEF Consistent
<1>2. n \in Int
  <2>1. IsFiniteSet(T)
    BY <1>1, PlacedSize
  <2>2. Cardinality(T) \in Nat
    BY <2>1, FS_CardinalityType
  <2> QED
    BY <1>1, <2>2
<1>3. \A q \in QueueTypes : k[q] \in 0 .. Len(Q[q])
  BY <1>1, <1>2, TakenInTurn
<1>4. /\ table' = T \ gone /\ unsolicited' = uns \ gone
      /\ queues' = [q \in QueueTypes |-> SubSeq(Q[q], k[q] + 1, Len(Q[q]))]
      /\ queueType' = Only(ix.queueType, DOMAIN ix.queueType \ gone)
      /\ recency' = order \intersect (table' \X table')
  BY DEF evictEntries
<1>5. Cardinality(T \ gone) = IF Cardinality(T) > lim THEN lim ELSE Cardinality(T)
  <2> DEFINE jx == [queues    |-> [q \in QueueTypes |->
                                     SubSeq(ix.queues[q],
                                            taken(ix, n)[q] + 1,
                                            Len(ix.queues[q]))],
                    queueType |-> Only(ix.queueType,
                                       DOMAIN ix.queueType \ gone),
                    timers    |-> canceled(ix, gone)]
  <2>1. /\ Consistent(jx, T \ gone, uns \ gone, stales, policy, now)
        /\ Cardinality(T \ gone) <= lim
        /\ Shrunk(T \ gone, T, lim)
    BY <1>1, EvictKeeps, ZenonT(60)
  <2> QED
    BY <2>1 DEF Shrunk
<1>6. GoFirst(gone \intersect T, T, uns, stales, order)
  <2> HIDE DEF n
  <2> QED
    BY <1>1, <1>2, EvictsFirst
<1> HIDE DEF gone, k, Q, n
<1>7. Cache!Shrinks(T, lim, uns, stales, order)
  <2>1. \A lost \in T \ table', kept \in table' :
          ~Cache!GoesFirst(kept, lost, uns, stales, order)
    <3> SUFFICES ASSUME NEW lost \in T \ table', NEW kept \in table'
                 PROVE  ~Cache!GoesFirst(kept, lost, uns, stales, order)
      OBVIOUS
    <3>1. lost \in gone \intersect T /\ kept \in T \ (gone \intersect T)
      BY <1>4
    <3> QED
      BY <1>6, <3>1 DEF GoFirst
  <2>2. /\ table' \subseteq T /\ unsolicited' = uns \intersect table'
        /\ Cardinality(table') = IF Cardinality(T) > lim THEN lim ELSE Cardinality(T)
    BY <1>4, <1>5
  <2> QED
    BY <1>4, <2>1, <2>2, SameSize DEF Cache!Shrinks
<1>8. Ordered(queues', recency')
  <2> SUFFICES ASSUME NEW q \in {"lru", "unsolicited", "fifo"}
               PROVE  OrderedSeq(queues'[q], recency')
    BY DEF Ordered
  <2>1. q \in QueueTypes /\ Q[q] \in Seq(Data) /\ OrderedSeq(Q[q], order)
    BY <1>1 DEF Ordered, Queues, QueueTypes, Q
  <2>2. OrderedSeq(SubSeq(Q[q], k[q] + 1, Len(Q[q])), order)
    BY <1>3, <2>1, DropOrdered
  <2>3. queues'[q] = SubSeq(Q[q], k[q] + 1, Len(Q[q])) /\ recency' \subseteq order
    BY <1>4, <2>1
  <2>4. OrderedSeq(queues'[q], order)
    BY <2>2, <2>3
  <2> QED
    BY <2>3, <2>4 DEF OrderedSeq
<1>9. Expiring(queueType', staleTime', now')
  BY <1>4 DEF Only, Expiring
<1>10. recency' \subseteq table' \X table'
  BY <1>4
<1> QED
  BY <1>7, <1>8, <1>9, <1>10 DEF OrderInv

\* The entry infos after attachQueue: a packet that arrives is not stale.
LEMMA AttachExpiring ==
  ASSUME NEW ix, NEW d, NEW uns, NEW old, NEW stales,
         Expiring(ix.queueType, old, now),
         \A e \in DOMAIN ix.queueType : e # d => stales[e] = old[e],
         stales[d] = IF Freshness[d] >= 0 THEN now + Freshness[d] ELSE Never,
         now \in Nat, Freshness[d] \in Int
  PROVE  Expiring(attachQueue(ix, d, uns, stales).queueType, stales, now)
<1> DEFINE type == queueFor(d, uns, stales[d] # Never /\ stales[d] < now)
           types == attachQueue(ix, d, uns, stales).queueType
<1>1. types = [e \in DOMAIN ix.queueType \union {d} |->
                 IF e = d THEN type ELSE ix.queueType[e]]
  BY DEF attachQueue
<1>2. type # "stale"
  <2>1. ~(stales[d] # Never /\ stales[d] < now)
    BY DEF Never
  <2> QED
    BY <2>1 DEF queueFor
<1> HIDE DEF type, types
<1>3. Expiring(types, stales, now)
  BY <1>1, <1>2 DEF Expiring
<1> QED
  BY <1>3 DEF types

\* The queues and infos after a new packet was taken in, before the eviction.
LEMMA TakeInOrdered ==
  ASSUME Inv, OrderInv, NEW d \in Data \ table, NEW uns
  PROVE  LET ix == IF policy = "lru" THEN insertToQueue(index, d, TRUE)
                   ELSE attachQueue(index, d, uns, updateStaleTime(d))
         IN  /\ Ordered(ix.queues, Renewed(d))
             /\ Expiring(ix.queueType, updateStaleTime(d), now)
<1> DEFINE ix == IF policy = "lru" THEN insertToQueue(index, d, TRUE)
                 ELSE attachQueue(index, d, uns, updateStaleTime(d))
           type == IF policy = "lru" THEN "lru"
                   ELSE queueFor(d, uns, updateStaleTime(d)[d] # Never
                                           /\ updateStaleTime(d)[d] < now)
<1>1. /\ queues \in Queues /\ Placed(queues, table) /\ d \in Data
      /\ table \subseteq Data
      /\ DOMAIN queueType = IF policy = "lru" THEN {} ELSE table
  BY IndexFields DEF Inv, Rest, Consistent, Timed
<1>2. type \in QueueTypes
  BY DEF queueFor, QueueTypes
<1>3. ix.queues = [queues EXCEPT ![type] = Append(@, d)]
  BY DEF insertToQueue, attachQueue, index
<1>4. \A q \in QueueTypes : \A i \in DOMAIN queues[q] : queues[q][i] # d
  BY <1>1 DEF Placed
<1>5. MadeLast(Renewed(d), recency, d) /\ Ordered(queues, recency)
  BY RenewedIs DEF OrderInv
<1>6. Ordered(ix.queues, Renewed(d))
  <2> HIDE DEF ix, type
  <2> QED
    BY <1>1, <1>2, <1>3, <1>4, <1>5, AttachedOrdered
<1>7. /\ \A e \in Data \ {d} : updateStaleTime(d)[e] = staleTime[e]
      /\ updateStaleTime(d)[d] = IF Freshness[d] >= 0 THEN now + Freshness[d] ELSE Never
      /\ now \in Nat /\ Freshness[d] \in Int
  BY StaleTimes
<1>8. Expiring(ix.queueType, updateStaleTime(d), now)
  <2>1. CASE policy = "lru"
    <3>1. ix.queueType = queueType
      BY <2>1 DEF insertToQueue, index
    <3> HIDE DEF ix
    <3> QED
      BY <1>1, <2>1, <3>1 DEF Expiring
  <2>2. CASE policy # "lru"
    <3>1. ix = attachQueue(index, d, uns, updateStaleTime(d))
      BY <2>2
    <3>2. Expiring(index.queueType, staleTime, now)
      BY IndexFields DEF OrderInv
    <3>3. \A e \in DOMAIN index.queueType : e # d => updateStaleTime(d)[e] = staleTime[e]
      BY <1>1, <1>7, <2>2, IndexFields
    <3> HIDE DEF ix
    <3> QED
      BY <1>7, <3>1, <3>2, <3>3, AttachExpiring
  <2> QED
    BY <2>1, <2>2
<1> QED
  BY <1>6, <1>8

\* A new packet arrives, and others may have to go.
LEMMA InsertNewRefines ==
  ASSUME Inv, OrderInv, NEW d \in Data, NEW isUnsolicited \in BOOLEAN,
         InsertNew(d, isUnsolicited)
  PROVE  OrderInv' /\ Cache!Arrive(d, isUnsolicited)
<1> DEFINE uns == IF isUnsolicited THEN unsolicited \union {d} ELSE unsolicited
           ix == IF policy = "lru" THEN insertToQueue(index, d, TRUE)
                 ELSE attachQueue(index, d, uns, updateStaleTime(d))
<1>1. /\ d \notin table
      /\ staleTime' = updateStaleTime(d)
      /\ evictEntries(ix, table \union {d}, uns, limit, Renewed(d))
      /\ policy' = policy /\ limit' = limit /\ now' = now
  BY DEF InsertNew
<1>2. /\ table \union {d} \in SUBSET Data /\ uns \in SUBSET (table \union {d})
      /\ limit \in Limits /\ policy \in Policies /\ now \in 0 .. MaxTime
      /\ unsolicited \subseteq table
  BY DEF Inv, Rest
<1>3. uns = unsolicited \/ uns = unsolicited \union {d}
  OBVIOUS
<1>4. /\ Consistent(ix, table \union {d}, uns, updateStaleTime(d), policy, now)
      /\ Ordered(ix.queues, Renewed(d))
      /\ Expiring(ix.queueType, updateStaleTime(d), now)
  <2> HIDE DEF uns
  <2>1. Consistent(ix, table \union {d}, uns, updateStaleTime(d), policy, now)
    BY <1>1, <1>3, TakeIn
  <2>2. /\ Ordered(ix.queues, Renewed(d))
        /\ Expiring(ix.queueType, updateStaleTime(d), now)
    BY <1>1, TakeInOrdered
  <2> QED
    BY <2>1, <2>2
<1>5. updateStaleTime(d) \in [Data -> Nat \union {Never}]
  BY StaleTimes
<1>6. Renewed(d) \in SUBSET ((table \union {d}) \X (table \union {d}))
  BY RenewedIs DEF OrderInv
<1>7. /\ Cache!Shrinks(table \union {d}, limit, uns, updateStaleTime(d), Renewed(d))
      /\ OrderInv'
  <2> HIDE DEF uns, ix
  <2> QED
    BY <1>1, <1>2, <1>4, <1>5, <1>6, EvictRefines
<1>8. uns = IF isUnsolicited /\ d \notin table THEN unsolicited \union {d}
            ELSE IF isUnsolicited THEN unsolicited ELSE unsolicited \ {d}
  BY <1>1, <1>2
<1>9. /\ Renewed(d) = Cache!Renewed(d)
      /\ updateStaleTime(d) = [staleTime EXCEPT ![d] = IF Freshness[d] >= 0
                                       THEN now + Freshness[d] ELSE Cache!Never]
  BY DEF Renewed, Cache!Renewed, updateStaleTime, Never, Cache!Never
<1> HIDE DEF uns
<1> QED
  BY <1>1, <1>7, <1>8, <1>9 DEF Cache!Arrive

\* A packet is moved to the end of a queue.
LEMMA RelocatedOrdered ==
  ASSUME Inv, OrderInv, NEW d \in table, NEW from \in QueueTypes,
         \E i \in DOMAIN queues[from] : queues[from][i] = d,
         NEW to \in QueueTypes, NEW R,
         R = [[queues EXCEPT ![from] = Without(@, d)] EXCEPT ![to] = Append(@, d)]
  PROVE  Ordered(R, Renewed(d))
<1> DEFINE W == [queues EXCEPT ![from] = Without(@, d)]
<1>1. queues \in Queues /\ Placed(queues, table) /\ table \in SUBSET Data /\ d \in Data
  BY IndexFields DEF Inv, Rest, Consistent
<1>2. MadeLast(Renewed(d), recency, d) /\ Ordered(queues, recency)
  BY RenewedIs DEF OrderInv
<1>3. PICK k \in DOMAIN queues[from] : d = queues[from][k]
  OBVIOUS
<1>4. /\ Ordered(W, recency) /\ W \in Queues
      /\ \A q \in QueueTypes : \A i \in DOMAIN W[q] : W[q][i] # d
  <2>1. W = [queues EXCEPT ![from] = Without(@, d)]
    OBVIOUS
  <2> HIDE DEF W
  <2> QED
    BY ONLY <1>1, <1>2, <1>3, <2>1, DetachedOrdered, from \in QueueTypes, ZenonT(60)
<1>5. R = [W EXCEPT ![to] = Append(@, d)]
  OBVIOUS
<1> HIDE DEF W
<1> QED
  BY ONLY <1>1, <1>2, <1>4, <1>5, to \in QueueTypes, AttachedOrdered, ZenonT(60)

\* A packet is in the queue of its policy or of its entry info.
LEMMA QueueOf ==
  ASSUME Inv, NEW d \in table
  PROVE  LET q == IF policy = "lru" THEN "lru" ELSE queueType[d]
         IN  q \in QueueTypes /\ \E i \in DOMAIN queues[q] : queues[q][i] = d
<1>1. Placed(queues, table) /\ InItsQueue(queues, queueType, policy)
  BY IndexFields DEF Inv, Consistent
<1>2. PICK q \in QueueTypes : \E i \in DOMAIN queues[q] : queues[q][i] = d
  BY <1>1 DEF Placed
<1>3. q = IF policy = "lru" THEN "lru" ELSE queueType[d]
  BY <1>1, <1>2 DEF InItsQueue
<1> QED
  BY <1>2, <1>3

\* insertToQueue moves a packet of the LRU queue to its end.
LEMMA UsedOrdered ==
  ASSUME Inv, OrderInv, NEW d \in table, policy = "lru"
  PROVE  Ordered(insertToQueue(index, d, FALSE).queues, Renewed(d))
<1> DEFINE W == [queues EXCEPT !["lru"] = Without(@, d)]
           R == insertToQueue(index, d, FALSE).queues
<1>1. "lru" \in QueueTypes /\ \E i \in DOMAIN queues["lru"] : queues["lru"][i] = d
  BY QueueOf
<1>2. queues \in Queues
  BY IndexFields DEF Inv, Consistent
<1>3. R = [queues EXCEPT !["lru"] = Append(Without(@, d), d)]
  BY DEF insertToQueue, index
<1>4. R = [W EXCEPT !["lru"] = Append(@, d)]
  BY <1>1, <1>2, <1>3 DEF Queues
<1> HIDE DEF R
<1>5. Ordered(R, Renewed(d))
  BY <1>1, <1>4, RelocatedOrdered
<1> QED
  BY <1>5 DEF R

\* A cached packet arrives again: it is renewed, and none has to go.
LEMMA RefreshRefines ==
  ASSUME Inv, OrderInv, NEW d \in Data, NEW isUnsolicited \in BOOLEAN,
         Refresh(d, isUnsolicited)
  PROVE  OrderInv' /\ Cache!Arrive(d, isUnsolicited)
<1> DEFINE uns == IF isUnsolicited THEN unsolicited ELSE unsolicited \ {d}
           stales == updateStaleTime(d)
           ix == IF policy = "lru" THEN insertToQueue(index, d, FALSE)
                 ELSE attachQueue(detachQueue(index, d), d, uns, stales)
<1>1. /\ d \in table /\ table' = table
      /\ staleTime' = stales /\ unsolicited' = uns
      /\ queues' = ix.queues /\ queueType' = ix.queueType
      /\ recency' = Renewed(d)
      /\ policy' = policy /\ limit' = limit /\ now' = now
  BY DEF Refresh
<1>2. /\ table \subseteq Data /\ unsolicited \subseteq table
      /\ queues \in Queues
      /\ DOMAIN queueType = IF policy = "lru" THEN {} ELSE table
  BY IndexFields DEF Inv, Rest, Consistent, Timed
<1>3. /\ \A e \in Data \ {d} : stales[e] = staleTime[e]
      /\ stales[d] = IF Freshness[d] >= 0 THEN now + Freshness[d] ELSE Never
      /\ now \in Nat /\ Freshness[d] \in Int
  BY StaleTimes
<1>4. Renewed(d) \subseteq table \X table
  <2>1. table \union {d} = table
    BY <1>1
  <2> QED
    BY <2>1, RenewedIs DEF OrderInv
<1>5. Ordered(ix.queues, Renewed(d)) /\ Expiring(ix.queueType, stales, now)
  <2>1. CASE policy = "lru"
    <3>1. ix = insertToQueue(index, d, FALSE)
      BY <2>1
    <3>2. ix.queueType = queueType
      BY <3>1 DEF insertToQueue, index
    <3> HIDE DEF ix, stales
    <3> QED
      BY <1>1, <1>2, <2>1, <3>1, <3>2, UsedOrdered DEF Expiring
  <2>2. CASE policy # "lru"
    <3> DEFINE jx == detachQueue(index, d)
               type == queueFor(d, uns, stales[d] # Never /\ stales[d] < now)
               from == queueType[d]
    <3>1. ix = attachQueue(jx, d, uns, stales)
      BY <2>2
    <3>2. ix.queues = [jx.queues EXCEPT ![type] = Append(@, d)]
      <4> HIDE DEF ix, jx, stales, uns
      <4> QED
        BY <3>1 DEF attachQueue
    <3>3. /\ jx.queues = [queues EXCEPT ![from] = Without(@, d)]
          /\ jx.queueType = Only(queueType, DOMAIN queueType \ {d})
      BY DEF detachQueue, index
    <3>4. from \in QueueTypes /\ \E i \in DOMAIN queues[from] : queues[from][i] = d
      BY <1>1, <2>2, QueueOf
    <3>5. type \in QueueTypes
      BY DEF queueFor, QueueTypes
    <3> HIDE DEF ix, jx, type, from, stales, uns
    <3>6. Ordered(ix.queues, Renewed(d))
      <4>1. ix.queues = [[queues EXCEPT ![from] = Without(@, d)]
                          EXCEPT ![type] = Append(@, d)]
        BY <3>2, <3>3
      <4> QED
        BY ONLY Inv, OrderInv, <1>1, <3>4, <3>5, <4>1, RelocatedOrdered, ZenonT(60)
    <3>7. DOMAIN jx.queueType = table \ {d} /\ Expiring(jx.queueType, staleTime, now)
      BY <1>2, <2>2, <3>3 DEF OrderInv, Expiring, Only
    <3>8. \A e \in DOMAIN jx.queueType : e # d => stales[e] = staleTime[e]
      BY <1>2, <1>3, <3>7
    <3>9. Expiring(ix.queueType, stales, now)
      BY <1>3, <3>1, <3>7, <3>8, AttachExpiring
    <3> QED
      BY <3>6, <3>9
  <2> QED
    BY <2>1, <2>2
<1>6. OrderInv'
  <2> HIDE DEF ix, stales
  <2> QED
    BY <1>1, <1>4, <1>5 DEF OrderInv
<1>7. Cache!Shrinks(table, limit, uns, stales, Renewed(d))
  <2>1. Cardinality(table) = IF Cardinality(table) > limit THEN limit ELSE Cardinality(table)
    <3>1. Cardinality(table) \in Nat /\ limit \in Nat /\ Cardinality(table) <= limit
      <4>1. IsFiniteSet(table)
        BY <1>2, ContentStoreAssumption, FS_Subset
      <4> QED
        BY <4>1, FS_CardinalityType, ContentStoreAssumption DEF Inv, Rest
    <3> QED
      BY <3>1
  <2>2. uns = uns \intersect table' /\ Renewed(d) = Renewed(d) \intersect (table' \X table')
    BY <1>1, <1>2, <1>4
  <2> HIDE DEF uns, stales
  <2> QED
    BY <1>1, <2>1, <2>2, SameSize DEF Cache!Shrinks
<1>8. /\ Renewed(d) = Cache!Renewed(d)
      /\ stales = [staleTime EXCEPT ![d] = IF Freshness[d] >= 0
                                       THEN now + Freshness[d] ELSE Cache!Never]
  BY DEF Renewed, Cache!Renewed, updateStaleTime, Never, Cache!Never
<1>9. /\ uns = IF isUnsolicited /\ d \notin table THEN unsolicited \union {d}
               ELSE IF isUnsolicited THEN unsolicited ELSE unsolicited \ {d}
      /\ table \union {d} = table
  BY <1>1
<1> HIDE DEF uns, stales
<1>10. Cache!Arrive(d, isUnsolicited)
  BY <1>1, <1>7, <1>8, <1>9 DEF Cache!Arrive
<1> QED
  BY <1>6, <1>10

\* A lookup uses the packet it hits.
LEMMA FindRefines ==
  ASSUME Inv, OrderInv, NEW i \in Interests, Find(i)
  PROVE  OrderInv' /\ \E d \in Data : Cache!Use(d)
<1>1. PICK d \in table :
        IF policy = "lru" THEN /\ queues' = insertToQueue(index, d, FALSE).queues
                               /\ recency' = Renewed(d)
                          ELSE queues' = queues /\ recency' = recency
  BY DEF Find
<1>2. /\ table' = table /\ unsolicited' = unsolicited
      /\ staleTime' = staleTime /\ policy' = policy /\ limit' = limit
      /\ queueType' = queueType /\ now' = now
  BY DEF Find
<1>3. d \in Data
  BY DEF Inv, Rest
<1>4. Renewed(d) = Cache!Renewed(d)
  BY DEF Renewed, Cache!Renewed
<1>5. Cache!Use(d)
  BY <1>1, <1>2, <1>4 DEF Cache!Use
<1>6. recency' \subseteq table' \X table'
  <2>1. table \union {d} = table
    OBVIOUS
  <2> QED
    BY <1>1, <1>2, <2>1, RenewedIs DEF OrderInv
<1>7. Ordered(queues', recency')
  BY <1>1, UsedOrdered DEF OrderInv
<1>8. OrderInv'
  BY <1>2, <1>6, <1>7 DEF OrderInv
<1> QED
  BY <1>3, <1>5, <1>8

\* The capacity is changed.
LEMMA SetLimitRefines ==
  ASSUME Inv, OrderInv, NEW nMaxPackets \in Limits, setLimit(nMaxPackets)
  PROVE  OrderInv' /\ Cache!Resize(nMaxPackets)
<1>1. /\ evictEntries(index, table, unsolicited, nMaxPackets, recency)
      /\ staleTime' = staleTime /\ policy' = policy /\ now' = now
      /\ limit' = nMaxPackets
  BY DEF setLimit
<1>2. /\ table \in SUBSET Data /\ unsolicited \in SUBSET table
      /\ staleTime \in [Data -> Nat \union {Never}]
      /\ policy \in Policies /\ now \in 0 .. MaxTime
      /\ Consistent(index, table, unsolicited, staleTime, policy, now)
  BY DEF Inv, Rest
<1>3. /\ recency \in SUBSET (table \X table) /\ Ordered(index.queues, recency)
      /\ Expiring(index.queueType, staleTime, now)
  BY IndexFields DEF OrderInv
<1>4. Cache!Shrinks(table, nMaxPackets, unsolicited, staleTime, recency) /\ OrderInv'
  BY <1>1, <1>2, <1>3, EvictRefines
<1> QED
  BY <1>1, <1>4 DEF Cache!Resize

\* An empty store is given a policy.
LEMMA SetPolicyRefines ==
  ASSUME Inv, OrderInv, NEW p \in Policies, setPolicy(p)
  PROVE  OrderInv' /\ Cache!ChangePolicy(p)
<1>1. Cache!ChangePolicy(p)
  BY DEF setPolicy, Cache!ChangePolicy
<1>2. /\ \A q \in QueueTypes : queues'[q] = <<>>
      /\ DOMAIN queueType' = {} /\ recency' = recency /\ table' = table
  BY DEF setPolicy
<1>3. Ordered(queues', recency')
  BY <1>2 DEF Ordered, OrderedSeq, QueueTypes
<1> QED
  BY <1>1, <1>2, <1>3 DEF OrderInv, Expiring

\* Time passes.
LEMMA TickRefines ==
  ASSUME Inv, OrderInv, Tick
  PROVE  OrderInv' /\ Cache!Elapse
<1>1. Cache!Elapse
  BY DEF Tick, Cache!Elapse
<1>2. now \in Nat /\ now' = now + 1 /\ staleTime \in [Data -> Nat \union {Never}]
  BY DEF Inv, Rest, Tick
<1>3. DOMAIN queueType \subseteq Data
  BY InvImplies DEF TypeOK
<1>4. queueType' = queueType /\ staleTime' = staleTime
  BY DEF Tick
<1>5. ASSUME NEW d \in DOMAIN queueType, queueType[d] = "stale"
      PROVE  staleTime[d] # Never /\ staleTime[d] <= now + 1
  <2>1. staleTime[d] # Never /\ staleTime[d] <= now /\ staleTime[d] \in Nat
    BY <1>2, <1>3, <1>5 DEF OrderInv, Expiring
  <2> QED
    BY <1>2, <2>1
<1>6. Expiring(queueType', staleTime', now')
  BY <1>2, <1>4, <1>5 DEF Expiring
<1> QED
  BY <1>1, <1>6 DEF OrderInv, Tick

\* A timer fires: BoundedCache does not see it.
LEMMA MoveToStaleRefines ==
  ASSUME Inv, OrderInv, NEW t \in timers, moveToStaleQueue(t)
  PROVE  OrderInv' /\ UNCHANGED Cache!vars
<1> DEFINE d == t[1]
           W == [queues EXCEPT !["fifo"] = Without(@, d)]
<1>1. /\ queues \in Queues /\ Placed(queues, table) /\ table \in SUBSET Data
      /\ Timed(queueType, timers, table, unsolicited, staleTime, policy, now)
      /\ now \in Nat
  BY IndexFields DEF Inv, Rest, Consistent
<1>2. /\ d \in DOMAIN queueType /\ queueType[d] = "fifo"
      /\ staleTime[d] # Never /\ t = <<d, staleTime[d]>>
  BY <1>1 DEF Timed
<1>3. policy # "lru" /\ d \in table
  BY <1>1, <1>2 DEF Timed
<1>4. "fifo" \in QueueTypes /\ "stale" \in QueueTypes
  BY DEF QueueTypes
<1>5. PICK k \in DOMAIN queues["fifo"] : queues["fifo"][k] = d
  BY <1>2, <1>3, QueueOf
<1>6. /\ table' = table /\ unsolicited' = unsolicited
      /\ staleTime' = staleTime /\ policy' = policy /\ limit' = limit
      /\ now' = now /\ recency' = recency
      /\ queueType' = [queueType EXCEPT ![d] = "stale"]
      /\ queues' = [queues EXCEPT !["fifo"] = Without(@, d),
                                  !["stale"] = Append(@, d)]
      /\ t[2] = now
  BY DEF moveToStaleQueue
<1>7. staleTime[d] = now
  BY <1>2, <1>6
<1> HIDE DEF d
<1>8. Ordered(W, recency)
  <2>1. W = [queues EXCEPT !["fifo"] = Without(@, d)]
    OBVIOUS
  <2> HIDE DEF W
  <2> QED
    BY <1>1, <1>4, <1>5, <2>1, DetachedOrdered DEF OrderInv
<1>9. \A q \in {"lru", "unsolicited", "fifo"} : queues'[q] = W[q]
  BY <1>1, <1>6 DEF Queues, QueueTypes
<1>10. Ordered(queues', recency')
  <2> HIDE DEF W
  <2> QED
    BY <1>6, <1>8, <1>9 DEF Ordered
<1>11. Expiring(queueType', staleTime', now')
  BY <1>1, <1>2, <1>6, <1>7 DEF OrderInv, Expiring
<1>12. OrderInv'
  BY <1>6, <1>10, <1>11 DEF OrderInv
<1> QED
  BY <1>6, <1>12 DEF Cache!vars

\* Every step is one of BoundedCache, or changes nothing that it speaks of.
LEMMA NextRefines ==
  Inv /\ OrderInv /\ [Next]_vars => OrderInv' /\ [Cache!Next]_(Cache!vars)
<1> SUFFICES ASSUME Inv, OrderInv, [Next]_vars
             PROVE  OrderInv' /\ [Cache!Next]_(Cache!vars)
  OBVIOUS
<1>1. ASSUME NEW d \in Data, NEW u \in BOOLEAN, InsertNew(d, u) \/ Refresh(d, u)
      PROVE  OrderInv' /\ Cache!Arrive(d, u)
  BY <1>1, InsertNewRefines, RefreshRefines
<1>2. ASSUME NEW i \in Interests, Find(i)
      PROVE  OrderInv' /\ \E d \in Data : Cache!Use(d)
  BY <1>2, FindRefines
<1>3. ASSUME NEW l \in Limits, setLimit(l) PROVE OrderInv' /\ Cache!Resize(l)
  BY <1>3, SetLimitRefines
<1>4. ASSUME NEW p \in Policies, setPolicy(p) PROVE OrderInv' /\ Cache!ChangePolicy(p)
  BY <1>4, SetPolicyRefines
<1>5. ASSUME NEW t \in timers, moveToStaleQueue(t)
      PROVE  OrderInv' /\ UNCHANGED Cache!vars
  BY <1>5, MoveToStaleRefines
<1>6. CASE Tick
  BY <1>6, TickRefines DEF Cache!Next
<1>7. CASE UNCHANGED vars
  BY <1>7 DEF vars, OrderInv, Cache!vars
<1> QED
  BY <1>1, <1>2, <1>3, <1>4, <1>5, <1>6, <1>7 DEF Next, Cache!Next

\* An empty store is in order, and is an empty cache.
LEMMA InitRefines == Init => OrderInv /\ Cache!Init
<1> SUFFICES ASSUME Init PROVE OrderInv /\ Cache!Init
  OBVIOUS
<1>1. Cache!Init
  BY DEF Init, Cache!Init, Never, Cache!Never
<1>2. recency = {} /\ DOMAIN queueType = {}
  BY DEF Init
<1> QED
  BY <1>1, <1>2 DEF OrderInv, Ordered, OrderedSeq, Expiring

\* The Content Store with either policy does what BoundedCache promises: it loses a
\* packet only to make room, and never one that the policy's documentation says has to
\* outlive one that is kept, judged by the clock and by the order of arrival and use.
THEOREM StoreImplementsBoundedCache == Spec => ImplementsBoundedCache
<1>1. Spec => []Inv
  BY InitInv, NextInv, PTL DEF Spec
<1>2. Init => OrderInv /\ Cache!Init
  BY InitRefines
<1>3. Inv /\ OrderInv /\ [Next]_vars => OrderInv' /\ [Cache!Next]_(Cache!vars)
  BY NextRefines
<1> QED
  BY <1>1, <1>2, <1>3, PTL DEF Spec, ImplementsBoundedCache, Cache!Spec
=============================================================================
