--------------------------- MODULE ConsumerProofs ---------------------------
(***************************************************************************)
(* Proofs about Consumer and its RTT estimator, for any number of requests *)
(* and transmissions and any lifetimes and limits of the RTO.              *)
(***************************************************************************)
EXTENDS Consumer, FiniteInduction, FiniteSetTheorems, SequenceTheorems

----------------------------------------------------------------------------
(* Histories                                                               *)

\* A history has at most one record of a sequence number.
Unique(h) == \A i \in 1..Len(h), j \in 1..Len(h) : h[i].seq = h[j].seq => i = j

\* The records of d are records of h, and are one per sequence number if those of h are.
Part(d, h) ==
  /\ \A j \in 1..Len(d) : \E i \in 1..Len(h) : d[j] = h[i]
  /\ Unique(h) => Unique(d)

\* The record of a sequence number is the only one.
LEMMA RecordIs ==
  ASSUME NEW R, NEW h \in Seq(R), Unique(h), NEW i \in 1..Len(h)
  PROVE  Sent(h, h[i].seq) /\ RecordOf(h, h[i].seq) = h[i]
<1> DEFINE s == h[i].seq
           j == CHOOSE k \in DOMAIN h : h[k].seq = s
<1>1. DOMAIN h = 1..Len(h)
  OBVIOUS
<1>2. j \in DOMAIN h /\ h[j].seq = s
  <2>1. \E k \in DOMAIN h : h[k].seq = s
    BY <1>1
  <2> QED
    BY <2>1, Zenon
<1>3. j = i
  BY <1>1, <1>2 DEF Unique
<1>4. RecordOf(h, s) = h[j]
  BY Zenon DEF RecordOf
<1> QED
  BY <1>1, <1>2, <1>3, <1>4 DEF Sent

\* A sequence number that was sent has a record.
LEMMA SentIs ==
  ASSUME NEW R, NEW h \in Seq(R), NEW s, Sent(h, s)
  PROVE  \E i \in 1..Len(h) : h[i].seq = s /\ RecordOf(h, s) = h[i]
<1> DEFINE j == CHOOSE k \in DOMAIN h : h[k].seq = s
<1>1. j \in DOMAIN h /\ h[j].seq = s
  BY Zenon DEF Sent
<1>2. RecordOf(h, s) = h[j]
  BY Zenon DEF RecordOf
<1>3. DOMAIN h = 1..Len(h)
  OBVIOUS
<1> HIDE DEF j
<1> QED
  BY <1>1, <1>2, <1>3

\* DiscardInterestBySeq erases the records of S and no others.
LEMMA DiscardResult ==
  ASSUME NEW R, NEW h \in Seq(R), NEW S
  PROVE  LET d == DiscardInterestBySeq(h, S)
         IN  /\ d \in Seq(R) /\ Part(d, h)
             /\ \A j \in 1..Len(d) : d[j].seq \notin S
             /\ \A i \in 1..Len(h) : h[i].seq \notin S => \E j \in 1..Len(d) : d[j] = h[i]
<1> DEFINE k == Len(h)
           W == CHOOSE w : w = [i \in 0..k |-> IF i = 0 THEN <<>>
                  ELSE IF h[i].seq \in S THEN w[i - 1] ELSE Append(w[i - 1], h[i])]
           step(d, i) == IF h[i].seq \in S THEN d ELSE Append(d, h[i])
           F == [p \in Seq(R) \X (1..k) |-> step(p[1], p[2])]
<1>1. DiscardInterestBySeq(h, S) = W[k]
  BY Zenon DEF DiscardInterestBySeq
<1>2. k \in Nat /\ <<>> \in Seq(R) /\ \A i \in 1..k : h[i] \in R
  OBVIOUS
<1>3. \A d \in Seq(R), i \in 1..k : step(d, i) \in Seq(R)
  BY <1>2
<1>4. F \in [Seq(R) \X (1..k) -> Seq(R)] /\ \A d \in Seq(R), i \in 1..k : F[<<d, i>>] = step(d, i)
  <2> HIDE DEF step
  <2> QED
    BY <1>3
<1> HIDE DEF F
<1>5. PICK g : g \in [0..k -> Seq(R)] /\ g[0] = <<>> /\ \A i \in 1..k : g[i] = F[<<g[i - 1], i>>]
  <2>1. IsStep(F, Seq(R), k)
    BY <1>4 DEF IsStep
  <2>2. \E g : IsRecursive(g, F, Seq(R), <<>>, k)
    BY <1>2, <2>1, BoundedRecursion
  <2> QED
    BY <2>2 DEF IsRecursive
<1>6. g = [i \in 0..k |-> IF i = 0 THEN <<>>
              ELSE IF h[i].seq \in S THEN g[i - 1] ELSE Append(g[i - 1], h[i])]
  <2> SUFFICES ASSUME NEW i \in 0..k
               PROVE  g[i] = IF i = 0 THEN <<>> ELSE step(g[i - 1], i)
    BY <1>5
  <2>1. CASE i = 0
    BY <1>5, <2>1
  <2>2. CASE i # 0
    <3>1. i \in 1..k /\ i - 1 \in 0..k
      BY <2>2
    <3>2. g[i - 1] \in Seq(R) /\ g[i] = F[<<g[i - 1], i>>]
      BY <1>5, <3>1
    <3> HIDE DEF step
    <3> QED
      BY <1>4, <2>2, <3>1, <3>2
  <2> QED
    BY <2>1, <2>2
<1>7. W = [i \in 0..k |-> IF i = 0 THEN <<>>
              ELSE IF h[i].seq \in S THEN W[i - 1] ELSE Append(W[i - 1], h[i])]
  BY <1>6, Zenon
<1> HIDE DEF W
<1> DEFINE
      Kept(d, n) ==
        /\ d \in Seq(R)
        /\ \A j \in 1..Len(d) : \E i \in 1..n : d[j] = h[i] /\ h[i].seq \notin S
        /\ \A i \in 1..n : h[i].seq \notin S => \E j \in 1..Len(d) : d[j] = h[i]
        /\ Unique(h) => Unique(d)
      I == {n \in 0..k : Kept(W[n], n)}
<1>8. 0 \in I
  <2>1. W[0] = <<>>
    BY <1>2, <1>7
  <2>2. Len(<<>>) = 0 /\ 1..0 = {}
    OBVIOUS
  <2>3. Kept(<<>>, 0)
    BY <1>2, <2>2 DEF Unique
  <2> HIDE DEF Kept
  <2> QED
    BY <1>2, <2>1, <2>3
<1>9. ASSUME NEW n \in 1..k, n - 1 \in I PROVE n \in I
  <2>1. n \in 0..k /\ n # 0 /\ n - 1 \in 0..k /\ n \in Nat
    BY <1>2
  <2> DEFINE d == W[n - 1]
  <2>2. Kept(d, n - 1)
    BY <1>9
  <2>3. W[n] = step(d, n)
    BY <1>7, <2>1
  <2> HIDE DEF d
  <2>4. \A i \in 1..n : i = n \/ i \in 1..(n - 1)
    BY <2>1
  <2>5. \A i \in 1..(n - 1) : i \in 1..n /\ i # n
    BY <2>1
  <2>6. CASE h[n].seq \in S
    <3>1. W[n] = d
      BY <2>3, <2>6
    <3>2. Kept(d, n)
      BY <2>2, <2>4, <2>5, <2>6
    <3> QED
      BY <2>1, <3>1, <3>2
  <2>7. CASE h[n].seq \notin S
    <3> DEFINE e == Append(d, h[n])
    <3>1. W[n] = e
      BY <2>3, <2>7
    <3>2. e \in Seq(R) /\ Len(e) = Len(d) + 1 /\ Len(d) \in Nat /\ e[Len(e)] = h[n]
          /\ \A j \in 1..Len(d) : e[j] = d[j]
      BY <1>2, <2>2
    <3>3. \A j \in 1..Len(e) : j = Len(e) \/ j \in 1..Len(d)
      BY <3>2
    <3>4. \A j \in 1..Len(d) : j \in 1..Len(e)
      BY <3>2
    <3>5. Len(e) \in 1..Len(e)
      BY <3>2
    <3> HIDE DEF e
    <3>6. \A j \in 1..Len(e) : \E i \in 1..n : e[j] = h[i] /\ h[i].seq \notin S
      <4> SUFFICES ASSUME NEW j \in 1..Len(e)
                   PROVE  \E i \in 1..n : e[j] = h[i] /\ h[i].seq \notin S
        OBVIOUS
      <4>1. CASE j = Len(e)
        BY <2>1, <2>7, <3>2, <4>1
      <4>2. CASE j \in 1..Len(d)
        <5>1. e[j] = d[j]
          BY <3>2, <4>2
        <5>2. PICK i \in 1..(n - 1) : d[j] = h[i] /\ h[i].seq \notin S
          BY <2>2, <4>2
        <5> QED
          BY <2>5, <5>1, <5>2
      <4> QED
        BY <3>3, <4>1, <4>2
    <3>7. \A i \in 1..n : h[i].seq \notin S => \E j \in 1..Len(e) : e[j] = h[i]
      <4> SUFFICES ASSUME NEW i \in 1..n, h[i].seq \notin S
                   PROVE  \E j \in 1..Len(e) : e[j] = h[i]
        OBVIOUS
      <4>1. CASE i = n
        BY <3>2, <3>5, <4>1
      <4>2. CASE i \in 1..(n - 1)
        <5>1. PICK j \in 1..Len(d) : d[j] = h[i]
          BY <2>2, <4>2
        <5> QED
          BY <3>2, <3>4, <5>1
      <4> QED
        BY <2>4, <4>1, <4>2
    <3>8. ASSUME Unique(h) PROVE Unique(e)
      <4>1. Unique(d)
        BY <2>2, <3>8
      <4>2. ASSUME NEW j \in 1..Len(d) PROVE e[j].seq # h[n].seq
        <5>1. PICK i \in 1..(n - 1) : d[j] = h[i]
          BY <2>2
        <5>2. i \in 1..k /\ i # n
          BY <1>2, <2>1, <2>5
        <5> QED
          BY <3>2, <3>8, <5>1, <5>2 DEF Unique
      <4>3. ASSUME NEW i \in 1..Len(e), NEW j \in 1..Len(e), e[i].seq = e[j].seq PROVE i = j
        <5>1. CASE i = Len(e) \/ j = Len(e)
          BY <3>2, <3>3, <4>2, <4>3, <5>1
        <5>2. CASE i # Len(e) /\ j # Len(e)
          <6>1. i \in 1..Len(d) /\ j \in 1..Len(d)
            BY <3>3, <5>2
          <6> QED
            BY <3>2, <4>1, <4>3, <6>1 DEF Unique
        <5> QED
          BY <5>1, <5>2
      <4> QED
        BY <4>3 DEF Unique
    <3> QED
      BY <2>1, <3>1, <3>2, <3>6, <3>7, <3>8, ZenonT(60)
  <2> QED
    BY <2>6, <2>7
<1>10. k \in I
  <2> HIDE DEF I, k
  <2>1. \A i \in 0..k : i \in I
    BY <1>2, <1>8, <1>9, BoundedInduction
  <2> QED
    BY <1>2, <2>1
<1>11. Kept(W[k], k)
  BY <1>10
<1>12. Part(W[k], h)
  BY <1>11 DEF Part
<1>13. \A j \in 1..Len(W[k]) : W[k][j].seq \notin S
  BY <1>11
<1> QED
  BY <1>1, <1>11, <1>12, <1>13

\* A history without its i-th record.
LEMMA RemoveAtIs ==
  ASSUME NEW R, NEW s \in Seq(R), NEW i \in 1..Len(s)
  PROVE  LET r == RemoveAt(s, i)
         IN  /\ r \in Seq(R) /\ Len(r) = Len(s) - 1
             /\ \A j \in 1..Len(r) : r[j] = s[IF j < i THEN j ELSE j + 1]
<1> DEFINE a == SubSeq(s, 1, i - 1)
           b == SubSeq(s, i + 1, Len(s))
<1>1. Len(s) \in Nat /\ i \in Nat /\ 1 <= i /\ i <= Len(s)
  OBVIOUS
<1>2. a \in Seq(R) /\ Len(a) = i - 1 /\ \A j \in 1..(i - 1) : a[j] = s[j]
  BY <1>1
<1>3. b \in Seq(R) /\ Len(b) = Len(s) - i /\ \A j \in 1..(Len(s) - i) : b[j] = s[i + j]
  BY <1>1
<1>4. RemoveAt(s, i) = a \o b
  BY DEF RemoveAt
<1> HIDE DEF a, b
<1>5. a \o b \in Seq(R) /\ Len(a \o b) = Len(s) - 1
  <2>1. a \o b \in Seq(R) /\ Len(a \o b) = Len(a) + Len(b)
    BY <1>2, <1>3, ConcatProperties
  <2> QED
    BY <1>1, <1>2, <1>3, <2>1
<1>6. ASSUME NEW j \in 1..(Len(s) - 1)
      PROVE  (a \o b)[j] = s[IF j < i THEN j ELSE j + 1]
  <2>1. CASE j < i
    <3>1. j \in 1..(i - 1) /\ j <= Len(a)
      BY <1>1, <1>2, <1>6, <2>1
    <3>2. (a \o b)[j] = a[j]
      BY <1>1, <1>2, <1>3, <1>6, <3>1
    <3> QED
      BY <1>2, <2>1, <3>1, <3>2
  <2>2. CASE ~(j < i)
    <3>1. j - (i - 1) \in 1..(Len(s) - i) /\ j > Len(a) /\ i + (j - (i - 1)) = j + 1
      BY <1>1, <1>2, <1>6, <2>2
    <3>2. (a \o b)[j] = b[j - Len(a)]
      BY <1>1, <1>2, <1>3, <1>6, <3>1
    <3> QED
      BY <1>2, <1>3, <2>2, <3>1, <3>2
  <2> QED
    BY <2>1, <2>2
<1> QED
  BY <1>4, <1>5, <1>6

\* The part of h that a turn of the loop of UpateRttHistory may leave: it has all records
\* within the window.
Purged(d, h) ==
  /\ Part(d, h)
  /\ \A i \in 1..Len(h) : h[i].age <= Window => \E j \in 1..Len(d) : d[j] = h[i]

\* One turn erases at most a record, which is beyond the window.
LEMMA UpdateStepResult ==
  ASSUME NEW R, NEW h \in Seq(R),
         NEW u \in [h : Seq(R), i : Nat \ {0}, past : BOOLEAN], Purged(u.h, h)
  PROVE  /\ UpdateStep(u) \in [h : Seq(R), i : Nat \ {0}, past : BOOLEAN]
         /\ Purged(UpdateStep(u).h, h)
<1>1. u.h \in Seq(R) /\ u.i \in Nat \ {0} /\ Len(u.h) \in Nat
  OBVIOUS
<1>2. CASE u.past \/ u.i > Len(u.h)
  <2>1. UpdateStep(u) = u
    BY <1>2 DEF UpdateStep
  <2> QED
    BY <2>1
<1>3. CASE ~(u.past \/ u.i > Len(u.h)) /\ u.h[u.i].age <= Window
  <2>1. UpdateStep(u) = [u EXCEPT !.i = u.i + 1]
    BY <1>3 DEF UpdateStep
  <2>2. UpdateStep(u).h = u.h /\ UpdateStep(u) \in [h : Seq(R), i : Nat \ {0}, past : BOOLEAN]
    BY <1>1, <2>1
  <2> QED
    BY <2>2
<1>4. CASE ~(u.past \/ u.i > Len(u.h)) /\ ~(u.h[u.i].age <= Window)
  <2> DEFINE d == u.h
             n == u.i
             r == RemoveAt(d, n)
             b == n - 1 >= Len(d) \div 2 /\ n = Len(d)
             m == IF n - 1 < Len(d) \div 2 THEN n ELSE n + 1
  <2>1. UpdateStep(u) = [h |-> r, i |-> m, past |-> b]
    BY <1>4 DEF UpdateStep
  <2>2. n \in 1..Len(d) /\ d \in Seq(R) /\ Len(d) \in Nat
    BY <1>1, <1>4
  <2>3. /\ r \in Seq(R) /\ Len(r) = Len(d) - 1
        /\ \A j \in 1..Len(r) : r[j] = d[IF j < n THEN j ELSE j + 1]
    BY <2>2, RemoveAtIs
  <2>4. m \in Nat \ {0} /\ b \in BOOLEAN
    BY <1>1
  <2>5. ~(d[n].age <= Window) /\ Purged(d, h)
    BY <1>4
  <2> HIDE DEF d, n, r, m, b
  <2>6. UpdateStep(u) \in [h : Seq(R), i : Nat \ {0}, past : BOOLEAN] /\ UpdateStep(u).h = r
    BY <2>1, <2>3, <2>4
  <2>7. \A j \in 1..Len(r) : \E i \in 1..Len(d) : r[j] = d[i]
    <3>1. ASSUME NEW j \in 1..Len(r) PROVE (IF j < n THEN j ELSE j + 1) \in 1..Len(d)
      BY <2>2, <2>3
    <3> QED
      BY <2>3, <3>1
  <2>8. ASSUME NEW i \in 1..Len(d), i # n PROVE \E j \in 1..Len(r) : r[j] = d[i]
    <3>1. CASE i < n
      <4>1. i \in 1..Len(r)
        BY <2>2, <2>3, <3>1
      <4> QED
        BY <2>3, <3>1, <4>1
    <3>2. CASE i > n
      <4>1. i - 1 \in 1..Len(r) /\ ~(i - 1 < n) /\ (i - 1) + 1 = i
        BY <2>2, <2>3, <3>2
      <4> QED
        BY <2>3, <4>1
    <3> QED
      BY <2>2, <2>8, <3>1, <3>2
  <2>9. ASSUME Unique(d) PROVE Unique(r)
    <3>1. ASSUME NEW i \in 1..Len(r), NEW j \in 1..Len(r), r[i].seq = r[j].seq PROVE i = j
      <4> DEFINE x == IF i < n THEN i ELSE i + 1
                 y == IF j < n THEN j ELSE j + 1
      <4>1. x \in 1..Len(d) /\ y \in 1..Len(d) /\ (x = y => i = j)
        BY <2>2, <2>3
      <4>2. r[i] = d[x] /\ r[j] = d[y]
        BY <2>3
      <4> HIDE DEF x, y
      <4> QED
        BY <2>9, <3>1, <4>1, <4>2 DEF Unique
    <3> QED
      BY <3>1 DEF Unique
  <2>10. Part(r, h)
    <3>1. \A j \in 1..Len(r) : \E i \in 1..Len(h) : r[j] = h[i]
      BY <2>5, <2>7 DEF Purged, Part
    <3> QED
      BY <2>5, <2>9, <3>1 DEF Purged, Part
  <2>11. ASSUME NEW i \in 1..Len(h), h[i].age <= Window
         PROVE  \E j \in 1..Len(r) : r[j] = h[i]
    <3>1. PICK k \in 1..Len(d) : d[k] = h[i]
      BY <2>5, <2>11 DEF Purged
    <3>2. k # n
      BY <2>5, <2>11, <3>1
    <3> QED
      BY <2>8, <3>1, <3>2
  <2> QED
    BY <2>6, <2>10, <2>11 DEF Purged
<1> QED
  BY <1>2, <1>3, <1>4

\* UpateRttHistory keeps every record within the window, although it may skip some that
\* are beyond it.
LEMMA UpdateResult ==
  ASSUME NEW R, NEW h \in Seq(R)
  PROVE  UpateRttHistory(h).h \in Seq(R) /\ Purged(UpateRttHistory(h).h, h)
<1> DEFINE k == Len(h)
           t == [h |-> h, i |-> 1, past |-> FALSE]
           W == CHOOSE w : w = [n \in 0..k |-> IF n = 0 THEN t ELSE UpdateStep(w[n - 1])]
           T == {u \in [h : Seq(R), i : Nat \ {0}, past : BOOLEAN] : Purged(u.h, h)}
           F == [p \in T \X (1..k) |-> UpdateStep(p[1])]
<1>1. UpateRttHistory(h) = W[k]
  BY Zenon DEF UpateRttHistory
<1>2. t \in T /\ k \in Nat
  BY DEF Purged, Part
<1>3. \A u \in T : UpdateStep(u) \in T
  BY UpdateStepResult
<1>4. \A u \in T : u.h \in Seq(R) /\ Purged(u.h, h)
  OBVIOUS
<1> HIDE DEF T, t, k
<1>5. F \in [T \X (1..k) -> T] /\ \A u \in T, i \in 1..k : F[<<u, i>>] = UpdateStep(u)
  BY <1>3
<1> HIDE DEF F
<1>6. PICK g : g \in [0..k -> T] /\ g[0] = t /\ \A i \in 1..k : g[i] = F[<<g[i - 1], i>>]
  <2>1. IsStep(F, T, k)
    BY <1>5 DEF IsStep
  <2>2. \E g : IsRecursive(g, F, T, t, k)
    BY <1>2, <2>1, BoundedRecursion
  <2> QED
    BY <2>2 DEF IsRecursive
<1>7. g = [n \in 0..k |-> IF n = 0 THEN t ELSE UpdateStep(g[n - 1])]
  <2> SUFFICES ASSUME NEW i \in 0..k
               PROVE  g[i] = IF i = 0 THEN t ELSE UpdateStep(g[i - 1])
    BY <1>6
  <2>1. CASE i = 0
    BY <1>6, <2>1
  <2>2. CASE i # 0
    <3>1. i \in 1..k /\ i - 1 \in 0..k
      BY <1>2, <2>2
    <3>2. g[i - 1] \in T /\ g[i] = F[<<g[i - 1], i>>]
      BY <1>6, <3>1
    <3> QED
      BY <1>5, <2>2, <3>1, <3>2
  <2> QED
    BY <2>1, <2>2
<1>8. W = [n \in 0..k |-> IF n = 0 THEN t ELSE UpdateStep(W[n - 1])]
  BY <1>7, Zenon
<1> HIDE DEF W
<1> DEFINE I == {i \in 0..k : W[i] \in T}
<1>9. 0 \in I
  <2>1. W[0] = t
    BY <1>2, <1>8
  <2> QED
    BY <1>2, <2>1
<1>10. ASSUME NEW i \in 1..k, i - 1 \in I PROVE i \in I
  <2>1. i \in 0..k /\ i # 0 /\ W[i - 1] \in T
    BY <1>2, <1>10
  <2>2. W[i] = UpdateStep(W[i - 1])
    BY <1>8, <2>1
  <2> QED
    BY <1>3, <2>1, <2>2
<1>11. W[k] \in T
  <2>1. \A i \in 0..k : i \in I
    <3> HIDE DEF I
    <3> QED
      BY <1>2, <1>9, <1>10, BoundedInduction
  <2> QED
    BY <1>2, <2>1
<1> QED
  BY <1>1, <1>4, <1>11

----------------------------------------------------------------------------
(* Numbers                                                                 *)

\* The smaller and the larger of two numbers, and what is between them.
LEMMA MinMax ==
  ASSUME NEW x \in Int, NEW y \in Int
  PROVE  /\ SmallerOf(x, y) \in Int /\ SmallerOf(x, y) <= x /\ SmallerOf(x, y) <= y
         /\ SmallerOf(x, y) \in {x, y}
         /\ LargerOf(x, y) \in Int /\ x <= LargerOf(x, y) /\ y <= LargerOf(x, y)
         /\ LargerOf(x, y) \in {x, y}
BY DEF SmallerOf, LargerOf

\* What is between two numbers of a range is in the range.
LEMMA BetweenIn ==
  ASSUME NEW m \in Int, NEW n \in Int, NEW x \in m..n, NEW y \in m..n,
         NEW v \in Between(x, y)
  PROVE  v \in m..n
BY DEF Between, SmallerOf, LargerOf

\* An RTO is within its limits, and a larger estimate has no smaller RTO.
LEMMA ClampIs ==
  ASSUME NEW x \in Nat, NEW y \in Nat, x <= y
  PROVE  Clamp(x) \in MinRto..MaxRto /\ Clamp(x) <= Clamp(y)
BY RttAssumption DEF Clamp, SmallerOf, LargerOf

\* The first RTO by correlation is within the limits, too.
LEMMA FirstRtoIs == FirstRto \in MinRto..MaxRto
<1>1. LargerOf(InitialRtt, LifeTime) \in Nat
  BY RttAssumption, ConsumerAssumption DEF LargerOf
<1> QED
  BY <1>1, ClampIs DEF FirstRto

\* The longest RTO is doubled with every retransmission.
LEMMA LongestRtoIs ==
  /\ LongestRto \in [0..RetxNum -> MinRto..MaxRto]
  /\ LongestRto[0] = FirstRto
  /\ \A c \in 1..RetxNum : LongestRto[c] = SmallerOf(MaxRto, 2 * LongestRto[c - 1])
<1> DEFINE T == MinRto..MaxRto
           k == RetxNum
           step(x) == SmallerOf(MaxRto, 2 * x)
           F == [p \in T \X (1..k) |-> step(p[1])]
<1>1. k \in Nat /\ FirstRto \in T /\ MinRto \in Nat /\ MaxRto \in Nat
  BY RttAssumption, ConsumerAssumption, FirstRtoIs
<1>2. \A x \in T : step(x) \in T
  BY <1>1 DEF SmallerOf
<1>3. LongestRto = CHOOSE w : w = [c \in 0..k |-> IF c = 0 THEN FirstRto ELSE step(w[c - 1])]
  BY Zenon DEF LongestRto
<1> HIDE DEF T, k, step
<1>4. F \in [T \X (1..k) -> T] /\ \A x \in T, i \in 1..k : F[<<x, i>>] = step(x)
  BY <1>2
<1> HIDE DEF F
<1>5. PICK g : g \in [0..k -> T] /\ g[0] = FirstRto /\ \A i \in 1..k : g[i] = F[<<g[i - 1], i>>]
  <2>1. IsStep(F, T, k)
    BY <1>4 DEF IsStep
  <2>2. \E g : IsRecursive(g, F, T, FirstRto, k)
    BY <1>1, <2>1, BoundedRecursion
  <2> QED
    BY <2>2 DEF IsRecursive
<1>6. \A i \in 1..k : i - 1 \in 0..k /\ g[i - 1] \in T /\ g[i] = step(g[i - 1])
  <2> SUFFICES ASSUME NEW i \in 1..k
               PROVE  i - 1 \in 0..k /\ g[i - 1] \in T /\ g[i] = step(g[i - 1])
    OBVIOUS
  <2>1. i - 1 \in 0..k
    BY <1>1
  <2>2. g[i - 1] \in T
    BY <1>5, <2>1
  <2>3. F[<<g[i - 1], i>>] = step(g[i - 1])
    BY <1>4, <2>2
  <2> QED
    BY <1>5, <2>1, <2>2, <2>3
<1>7. g = [c \in 0..k |-> IF c = 0 THEN FirstRto ELSE step(g[c - 1])]
  <2> SUFFICES ASSUME NEW i \in 0..k
               PROVE  g[i] = IF i = 0 THEN FirstRto ELSE step(g[i - 1])
    BY <1>5
  <2>1. i = 0 \/ i \in 1..k
    BY <1>1
  <2> QED
    BY <1>5, <1>6, <2>1
<1> DEFINE W == LongestRto
<1>8. W = [c \in 0..k |-> IF c = 0 THEN FirstRto ELSE step(W[c - 1])]
  BY <1>3, <1>7, Zenon
<1> HIDE DEF W
<1> DEFINE I == {i \in 0..k : W[i] \in T}
<1>9. 0 \in I /\ W[0] = FirstRto
  BY <1>1, <1>8
<1>10. \A i \in 1..k : i \in 0..k /\ i # 0 /\ W[i] = step(W[i - 1])
  BY <1>1, <1>8
<1>11. ASSUME NEW i \in 1..k, i - 1 \in I PROVE i \in I
  BY <1>2, <1>10, <1>11
<1>12. \A i \in 0..k : i \in I
  <2> HIDE DEF I
  <2> QED
    BY <1>1, <1>9, <1>11, BoundedInduction
<1>13. W \in [0..k -> T]
  BY <1>8, <1>12
<1> QED
  BY <1>9, <1>10, <1>13 DEF W, T, k, step

\* The longest time of the transmissions is the sum of their longest RTOs.
LEMMA LongestTimeIs ==
  /\ LongestTime \in [0..RetxNum -> Nat]
  /\ LongestTime[0] = 0
  /\ \A c \in 1..RetxNum : LongestTime[c] = LongestTime[c - 1] + LongestRto[c - 1]
<1> DEFINE T == Nat
           k == RetxNum
           step(x, i) == x + LongestRto[i - 1]
           F == [p \in T \X (1..k) |-> step(p[1], p[2])]
<1>1. k \in Nat /\ MinRto \in Nat /\ MaxRto \in Nat
  BY RttAssumption, ConsumerAssumption
<1>2. \A x \in T, i \in 1..k : step(x, i) \in T
  <2>1. \A i \in 1..k : i - 1 \in 0..RetxNum /\ LongestRto[i - 1] \in Nat
    BY <1>1, LongestRtoIs
  <2> QED
    BY <2>1
<1>3. LongestTime = CHOOSE w : w = [c \in 0..k |-> IF c = 0 THEN 0 ELSE step(w[c - 1], c)]
  BY Zenon DEF LongestTime
<1> HIDE DEF k, step
<1>4. F \in [T \X (1..k) -> T] /\ \A x \in T, i \in 1..k : F[<<x, i>>] = step(x, i)
  BY <1>2
<1> HIDE DEF F, T
<1>5. PICK g : g \in [0..k -> T] /\ g[0] = 0 /\ \A i \in 1..k : g[i] = F[<<g[i - 1], i>>]
  <2>1. IsStep(F, T, k)
    BY <1>4 DEF IsStep
  <2>2. 0 \in T
    BY DEF T
  <2>3. \E g : IsRecursive(g, F, T, 0, k)
    BY <1>1, <2>1, <2>2, BoundedRecursion
  <2> QED
    BY <2>3 DEF IsRecursive
<1>6. \A i \in 1..k : i - 1 \in 0..k /\ g[i - 1] \in T /\ g[i] = step(g[i - 1], i)
  <2> SUFFICES ASSUME NEW i \in 1..k
               PROVE  i - 1 \in 0..k /\ g[i - 1] \in T /\ g[i] = step(g[i - 1], i)
    OBVIOUS
  <2>1. i - 1 \in 0..k
    BY <1>1
  <2>2. g[i - 1] \in T
    BY <1>5, <2>1
  <2>3. F[<<g[i - 1], i>>] = step(g[i - 1], i)
    BY <1>4, <2>2
  <2> QED
    BY <1>5, <2>1, <2>2, <2>3
<1>7. g = [c \in 0..k |-> IF c = 0 THEN 0 ELSE step(g[c - 1], c)]
  <2> SUFFICES ASSUME NEW i \in 0..k
               PROVE  g[i] = IF i = 0 THEN 0 ELSE step(g[i - 1], i)
    BY <1>5
  <2>1. i = 0 \/ i \in 1..k
    BY <1>1
  <2> QED
    BY <1>5, <1>6, <2>1
<1> DEFINE W == LongestTime
<1>8. W = [c \in 0..k |-> IF c = 0 THEN 0 ELSE step(W[c - 1], c)]
  BY <1>3, <1>7, Zenon
<1> HIDE DEF W
<1> DEFINE I == {i \in 0..k : W[i] \in T}
<1>9. 0 \in I /\ W[0] = 0
  BY <1>1, <1>8 DEF T
<1>10. \A i \in 1..k : i \in 0..k /\ i # 0 /\ W[i] = step(W[i - 1], i)
  BY <1>1, <1>8
<1>11. ASSUME NEW i \in 1..k, i - 1 \in I PROVE i \in I
  BY <1>2, <1>10, <1>11
<1>12. \A i \in 0..k : i \in I
  <2> HIDE DEF I
  <2> QED
    BY <1>1, <1>9, <1>11, BoundedInduction
<1>13. W \in [0..k -> T]
  BY <1>8, <1>12
<1> QED
  BY <1>9, <1>10, <1>13 DEF W, T, k, step

\* Each time-out raises the multiplier up to its limit.
LEMMA RaisedIn ==
  ASSUME multiplier \in 1..MaxMultiplier, NEW S, IsFiniteSet(S)
  PROVE  Raised(S) \in 1..MaxMultiplier
<1> DEFINE T == 1..MaxMultiplier
           k == Cardinality(S)
           m == multiplier
           W == CHOOSE w : w = [n \in 0..k |-> IF n = 0 THEN m ELSE IncreaseMultiplier(w[n - 1])]
           F == [p \in T \X (1..k) |-> IncreaseMultiplier(p[1])]
<1>1. k \in Nat /\ m \in T
  BY FS_CardinalityType
<1>2. \A x \in T : IncreaseMultiplier(x) \in T
  BY RttAssumption DEF IncreaseMultiplier
<1>3. Raised(S) = W[k]
  BY Zenon DEF Raised
<1> HIDE DEF T, k, m
<1>4. F \in [T \X (1..k) -> T] /\ \A x \in T, i \in 1..k : F[<<x, i>>] = IncreaseMultiplier(x)
  BY <1>2
<1> HIDE DEF F
<1>5. PICK g : g \in [0..k -> T] /\ g[0] = m /\ \A i \in 1..k : g[i] = F[<<g[i - 1], i>>]
  <2>1. IsStep(F, T, k)
    BY <1>4 DEF IsStep
  <2>2. \E g : IsRecursive(g, F, T, m, k)
    BY <1>1, <2>1, BoundedRecursion
  <2> QED
    BY <2>2 DEF IsRecursive
<1>6. \A i \in 1..k : i - 1 \in 0..k /\ g[i - 1] \in T /\ g[i] = IncreaseMultiplier(g[i - 1])
  <2> SUFFICES ASSUME NEW i \in 1..k
               PROVE  i - 1 \in 0..k /\ g[i - 1] \in T /\ g[i] = IncreaseMultiplier(g[i - 1])
    OBVIOUS
  <2>1. i - 1 \in 0..k
    BY <1>1
  <2>2. g[i - 1] \in T
    BY <1>5, <2>1
  <2>3. F[<<g[i - 1], i>>] = IncreaseMultiplier(g[i - 1])
    BY <1>4, <2>2
  <2> QED
    BY <1>5, <2>1, <2>2, <2>3
<1>7. g = [n \in 0..k |-> IF n = 0 THEN m ELSE IncreaseMultiplier(g[n - 1])]
  <2> SUFFICES ASSUME NEW i \in 0..k
               PROVE  g[i] = IF i = 0 THEN m ELSE IncreaseMultiplier(g[i - 1])
    BY <1>5
  <2>1. i = 0 \/ i \in 1..k
    BY <1>1
  <2> QED
    BY <1>5, <1>6, <2>1
<1>8. W = [n \in 0..k |-> IF n = 0 THEN m ELSE IncreaseMultiplier(W[n - 1])]
  BY <1>7, Zenon
<1> HIDE DEF W
<1> DEFINE I == {i \in 0..k : W[i] \in T}
<1>9. 0 \in I
  BY <1>1, <1>8
<1>10. ASSUME NEW i \in 1..k, i - 1 \in I PROVE i \in I
  <2>1. i \in 0..k /\ i # 0 /\ W[i] = IncreaseMultiplier(W[i - 1])
    BY <1>1, <1>8
  <2> QED
    BY <1>2, <1>10, <2>1
<1>11. \A i \in 0..k : i \in I
  <2> HIDE DEF I
  <2> QED
    BY <1>1, <1>9, <1>10, BoundedInduction
<1> QED
  BY <1>1, <1>3, <1>11 DEF T

----------------------------------------------------------------------------
(* The inductive invariant                                                 *)

\* The records of a history of n requests.
Records(n) ==
  [seq : 0..n - 1, age : 0..AgeCap, rtt : 0..LifeTime, rto : MinRto..MaxRto, retx : BOOLEAN]

\* An Interest in the node's PIT whose record is not marked was sent as long ago as the
\* record says, so its Data measures an RTT within the lifetime.
Young ==
  \A i \in 1..Len(history) :
    history[i].seq \in DOMAIN pending /\ ~history[i].retx =>
      history[i].age + pending[history[i].seq] <= LifeTime

BasicInv == TypeOK /\ Unique(history) /\ Young

\* Record r of a request that was transmitted c times and has the time t left; same tells
\* how its RTO is computed.
Tracks(r, c, t, same) ==
  /\ r.rtt = 0 /\ (r.retx <=> c > 1) /\ t <= r.rto
  /\ ~same => r.rto <= LongestRto[c - 1] /\ r.age + t <= LongestTime[c]

TrackInv ==
  /\ sameName \in SameNames
  /\ DOMAIN timeouts = DOMAIN counts
  /\ \A s \in DOMAIN counts :
       counts[s] \in 1..RetxNum /\ \E i \in 1..Len(history) : history[i].seq = s
  /\ \A i \in 1..Len(history) :
       LET s == history[i].seq
       IN  /\ s \in DOMAIN pending => s \in DOMAIN counts
           /\ s \in DOMAIN counts => Tracks(history[i], counts[s], timeouts[s], sameName)

----------------------------------------------------------------------------
(* What the actions do to a history                                        *)

\* The fields of a record.
LEMMA RecordType ==
  ASSUME NEW n, NEW r \in Records(n)
  PROVE  /\ r.seq \in 0..n - 1 /\ r.age \in 0..AgeCap /\ r.rtt \in 0..LifeTime
         /\ r.rto \in MinRto..MaxRto /\ r.retx \in BOOLEAN
BY DEF Records

\* A period later.
LEMMA OlderIs ==
  ASSUME NEW n \in Nat, NEW r \in Records(n)
  PROVE  LET m == Older(r)
         IN  /\ m \in Records(n) /\ m.seq = r.seq /\ m.rtt = r.rtt /\ m.age <= r.age + 1
             /\ m.rto = r.rto /\ m.retx = r.retx
<1> DEFINE a == SmallerOf(r.age + 1, AgeCap)
<1>1. a \in 0..AgeCap /\ a <= r.age + 1
  BY RecordType, RttAssumption DEF SmallerOf, AgeCap
<1>2. Older(r) = [r EXCEPT !.age = a]
  BY DEF Older
<1> HIDE DEF a
<1> QED
  BY <1>1, <1>2 DEF Records

\* A record of an Interest that is sent again.
LEMMA MarkIs ==
  ASSUME NEW n \in Nat, NEW r \in Records(n), NEW c \in MinRto..MaxRto
  PROVE  LET m == Marked(r, c)
         IN  /\ m \in Records(n) /\ m.seq = r.seq /\ m.rtt = r.rtt /\ m.age = r.age
             /\ m.rto = c /\ m.retx = TRUE
BY DEF Records, Marked

\* A record with its RTT.
LEMMA MeasuredIs ==
  ASSUME NEW n \in Nat, NEW r \in Records(n), r.age <= LifeTime
  PROVE  Measured(r) \in Records(n) /\ Measured(r).seq = r.seq
<1>1. r.age \in 0..LifeTime /\ 0 \in 0..AgeCap
  BY RecordType, RttAssumption, ConsumerAssumption DEF AgeCap
<1> QED
  BY <1>1 DEF Records, Measured

\* A new record.
LEMMA NewRecordIs ==
  ASSUME NEW n \in Nat, NEW c \in MinRto..MaxRto
  PROVE  newRecord(n, c) \in Records(n + 1)
BY RttAssumption, ConsumerAssumption DEF Records, AgeCap, newRecord

\* The records of n requests are records of n + 1.
LEMMA RecordsGrow ==
  ASSUME NEW n \in Nat, NEW h \in Seq(Records(n))
  PROVE  h \in Seq(Records(n + 1))
<1>1. \A r \in Records(n) : r \in Records(n + 1)
  BY DEF Records
<1> QED
  BY <1>1

\* m has the records of h a period later, those of S sent again with a new RTO.
IsMarked(m, h, S, rto, n) ==
  /\ m \in Seq(Records(n)) /\ Len(m) = Len(h)
  /\ \A i \in 1..Len(h) :
       /\ m[i].seq = h[i].seq /\ m[i].rtt = h[i].rtt /\ m[i].age <= h[i].age + 1
       /\ m[i].seq \in S => m[i].retx = TRUE /\ m[i].rto = rto[m[i].seq]
       /\ m[i].seq \notin S => m[i].retx = h[i].retx /\ m[i].rto = h[i].rto
RtosOf(S, rto) == \A s \in S : rto[s] \in MinRto..MaxRto

\* A period makes every record older, and marks those that are sent again.
LEMMA MarkedIs ==
  ASSUME NEW n \in Nat, NEW h \in Seq(Records(n)), NEW S, NEW rto, RtosOf(S, rto)
  PROVE  IsMarked(SetRetransmitbySeq(AgeHistory(h), S, rto), h, S, rto, n)
<1> DEFINE R == Records(n)
           g == AgeHistory(h)
           m == SetRetransmitbySeq(g, S, rto)
           k == Len(h)
<1>1. k \in Nat /\ DOMAIN h = 1..k /\ \A i \in 1..k : h[i] \in R
  OBVIOUS
<1>2. g = [i \in 1..k |-> Older(h[i])]
  BY <1>1 DEF AgeHistory
<1>3. ASSUME NEW i \in 1..k
      PROVE  /\ g[i] \in R /\ g[i].seq = h[i].seq /\ g[i].rtt = h[i].rtt
             /\ g[i].age <= h[i].age + 1 /\ g[i].rto = h[i].rto /\ g[i].retx = h[i].retx
  BY <1>1, <1>2, OlderIs
<1> HIDE DEF g
<1>4. m = [i \in 1..k |-> IF g[i].seq \in S THEN Marked(g[i], rto[g[i].seq]) ELSE g[i]]
  <2>1. DOMAIN g = 1..k
    BY <1>2
  <2> QED
    BY <2>1 DEF SetRetransmitbySeq
<1> HIDE DEF m
<1>5. ASSUME NEW i \in 1..k
      PROVE  /\ m[i] \in R
             /\ m[i].seq = g[i].seq /\ m[i].rtt = g[i].rtt /\ m[i].age = g[i].age
             /\ m[i].seq \in S => m[i].retx = TRUE /\ m[i].rto = rto[m[i].seq]
             /\ m[i].seq \notin S => m[i].retx = g[i].retx /\ m[i].rto = g[i].rto
  <2>1. g[i] \in R
    BY <1>3
  <2>2. CASE g[i].seq \in S
    <3>1. m[i] = Marked(g[i], rto[g[i].seq]) /\ rto[g[i].seq] \in MinRto..MaxRto
      BY <1>4, <2>2 DEF RtosOf
    <3> DEFINE c == rto[g[i].seq]
    <3>2. g[i] \in Records(n) /\ c \in MinRto..MaxRto
      BY <2>1, <3>1 DEF R
    <3> HIDE DEF c
    <3>3. /\ Marked(g[i], c) \in Records(n) /\ Marked(g[i], c).seq = g[i].seq
          /\ Marked(g[i], c).rtt = g[i].rtt /\ Marked(g[i], c).age = g[i].age
          /\ Marked(g[i], c).rto = c /\ Marked(g[i], c).retx = TRUE
      BY <3>2, MarkIs, ZenonT(60)
    <3>4. m[i] = Marked(g[i], c)
      BY <3>1 DEF c
    <3> QED
      BY <2>2, <3>3, <3>4 DEF c, R
  <2>3. CASE g[i].seq \notin S
    <3>1. m[i] = g[i]
      BY <1>4, <2>3
    <3> QED
      BY <2>1, <2>3, <3>1
  <2> QED
    BY <2>2, <2>3
<1> HIDE DEF R
<1>6. m \in Seq(R) /\ Len(m) = k
  <2>1. m \in [1..k -> R]
    <3>1. DOMAIN m = 1..k /\ m = [i \in 1..k |-> m[i]]
      BY <1>4
    <3>2. \A i \in 1..k : m[i] \in R
      BY <1>5
    <3> QED
      BY <3>1, <3>2
  <2> QED
    BY <1>1, <2>1
<1>7. \A i \in 1..k :
        /\ m[i].seq = h[i].seq /\ m[i].rtt = h[i].rtt /\ m[i].age <= h[i].age + 1
        /\ m[i].seq \in S => m[i].retx = TRUE /\ m[i].rto = rto[m[i].seq]
        /\ m[i].seq \notin S => m[i].retx = h[i].retx /\ m[i].rto = h[i].rto
  BY <1>3, <1>5, Zenon
<1> QED
  BY <1>6, <1>7 DEF m, g, R, k, IsMarked

\* AckSeq changes or erases the record of s only.
LEMMA AckIs ==
  ASSUME NEW n \in Nat, NEW h \in Seq(Records(n)), Unique(h), NEW s,
         \A i \in 1..Len(h) : h[i].seq = s /\ ~h[i].retx => h[i].age <= LifeTime
  PROVE  LET a == AckSeqHistory(h, s)
         IN  /\ a \in Seq(Records(n)) /\ Unique(a)
             /\ \A j \in 1..Len(a) : a[j].seq # s => \E i \in 1..Len(h) : a[j] = h[i]
             /\ \A i \in 1..Len(h) : h[i].seq # s => \E j \in 1..Len(a) : a[j] = h[i]
<1> DEFINE R == Records(n)
           a == AckSeqHistory(h, s)
           k == Len(h)
<1>1. k \in Nat /\ DOMAIN h = 1..k /\ \A i \in 1..k : h[i] \in R
  OBVIOUS
<1>2. CASE Sent(h, s) /\ RecordOf(h, s).retx
  <2> DEFINE d == DiscardInterestBySeq(h, {s})
  <2>1. a = d
    BY <1>2 DEF AckSeqHistory
  <2>2. /\ d \in Seq(R) /\ Part(d, h)
        /\ \A j \in 1..Len(d) : d[j].seq \notin {s}
        /\ \A i \in 1..Len(h) : h[i].seq \notin {s} => \E j \in 1..Len(d) : d[j] = h[i]
    BY DiscardResult
  <2> HIDE DEF d, R
  <2> QED
    BY <2>1, <2>2 DEF Part, R
<1>3. CASE ~(Sent(h, s) /\ RecordOf(h, s).retx)
  <2>1. a = [i \in 1..k |-> IF h[i].seq = s THEN Measured(h[i]) ELSE h[i]]
    BY <1>1, <1>3 DEF AckSeqHistory
  <2>2. ASSUME NEW i \in 1..k, h[i].seq = s PROVE h[i].age <= LifeTime
    <3>1. RecordOf(h, s) = h[i] /\ Sent(h, s)
      BY <2>2, RecordIs
    <3>2. ~h[i].retx
      BY <1>3, <3>1
    <3> QED
      BY <2>2, <3>2
  <2> HIDE DEF a
  <2>3. ASSUME NEW i \in 1..k PROVE a[i] \in R /\ a[i].seq = h[i].seq
    <3>1. CASE h[i].seq = s
      <4>1. a[i] = Measured(h[i]) /\ h[i].age <= LifeTime
        BY <2>1, <2>2, <3>1
      <4> QED
        BY <1>1, <4>1, MeasuredIs
    <3>2. CASE h[i].seq # s
      BY <1>1, <2>1, <3>2
    <3> QED
      BY <3>1, <3>2
  <2>4. \A i \in 1..k : h[i].seq # s => a[i] = h[i]
    BY <2>1
  <2> HIDE DEF R
  <2>5. a \in Seq(R) /\ Len(a) = k
    BY <1>1, <2>1, <2>3
  <2>6. Unique(a)
    BY <2>3, <2>5 DEF Unique
  <2> QED
    BY <2>3, <2>4, <2>5, <2>6 DEF R, a
<1> QED
  BY <1>2, <1>3

----------------------------------------------------------------------------
(* Types, and the age of pending Interests                                 *)

\* A new RTO is within its limits; one by correlation is at most the first.
LEMMA NewRtosIn ==
  ASSUME TypeOK, NEW h \in Seq(Records(seq)), NEW rto \in newRtos(h)
  PROVE  rto \in MinRto..MaxRto /\ (~sameName => rto <= FirstRto)
<1> DEFINE top == LargerOf(InitialRtt, LifeTime)
<1>1. /\ top \in Nat /\ LifeTime <= top /\ LifeTime \in Nat /\ MinRto \in Nat \ {0}
      /\ MaxRto \in Nat /\ MinRto <= MaxRto
      /\ est \in 0..top /\ multiplier \in Nat \ {0} /\ sameName \in BOOLEAN
  BY RttAssumption, ConsumerAssumption DEF TypeOK, LargerOf
<1> HIDE DEF top
<1>2. CASE sameName
  <2>1. newRtos(h) = {RetransmitTimeout(est, multiplier, v) : v \in Margins}
    BY <1>2 DEF newRtos
  <2>2. PICK v \in Margins : rto = RetransmitTimeout(est, multiplier, v)
    BY <2>1
  <2>3. v \in Nat
    BY <2>2, ConsumerAssumption
  <2> DEFINE a == multiplier * MinRto
             b == multiplier * (est + v)
  <2>4. a \in Nat /\ MinRto <= a
    <3>1. multiplier >= 1 /\ multiplier \in Nat
      BY <1>1
    <3> QED
      BY <1>1, <3>1
  <2>5. b \in Int
    BY <1>1, <2>3
  <2>6. rto = SmallerOf(MaxRto, LargerOf(a, b))
    BY <2>2 DEF RetransmitTimeout
  <2> HIDE DEF a, b
  <2> QED
    BY <1>1, <1>2, <2>4, <2>5, <2>6 DEF SmallerOf, LargerOf
<1>3. CASE ~sameName
  <2> DEFINE rtts == {h[i].rtt : i \in {j \in DOMAIN h : h[j].rtt > 0 /\ h[j].age <= Window}}
  <2>1. newRtos(h) = {Clamp(v) : v \in {est} \union UNION {Between(x, y) : x, y \in rtts}}
    BY <1>3 DEF newRtos, CalRTObyCorrelativity
  <2>2. \A x \in rtts : x \in 0..top
    <3> SUFFICES ASSUME NEW i \in DOMAIN h PROVE h[i].rtt \in 0..top
      OBVIOUS
    <3>1. h[i] \in Records(seq)
      OBVIOUS
    <3>2. h[i].rtt \in 0..LifeTime
      BY <3>1, RecordType
    <3> QED
      BY <1>1, <3>2
  <2> HIDE DEF rtts
  <2>3. PICK v \in {est} \union UNION {Between(x, y) : x, y \in rtts} : rto = Clamp(v)
    BY <2>1
  <2>4. v \in 0..top
    <3>1. CASE v = est
      BY <1>1, <3>1
    <3>2. CASE v # est
      <4>1. PICK x \in rtts, y \in rtts : v \in Between(x, y)
        BY <2>3, <3>2
      <4>2. x \in 0..top /\ y \in 0..top /\ 0 \in Int /\ top \in Int
        BY <1>1, <2>2
      <4> QED
        BY <4>1, <4>2, BetweenIn
    <3> QED
      BY <3>1, <3>2
  <2>5. v \in Nat /\ v <= top
    BY <1>1, <2>4
  <2>6. Clamp(v) \in MinRto..MaxRto /\ Clamp(v) <= Clamp(top)
    BY <1>1, <2>5, ClampIs
  <2> QED
    BY <2>3, <2>6 DEF FirstRto, top
<1> QED
  BY <1>1, <1>2, <1>3

\* What SendPacket computes the RTO from has the records within the window.
LEMMA UpdatedIs ==
  ASSUME TypeOK
  PROVE  /\ updated.h \in Seq(Records(seq)) /\ Part(updated.h, history)
         /\ \A i \in 1..Len(history) :
              sameName \/ history[i].age <= Window =>
                \E j \in 1..Len(updated.h) : updated.h[j] = history[i]
<1>1. history \in Seq(Records(seq)) /\ sameName \in BOOLEAN
  BY DEF TypeOK, Records
<1>2. CASE sameName
  <2>1. updated.h = history
    BY <1>2 DEF updated
  <2> QED
    BY <1>1, <2>1 DEF Part
<1>3. CASE ~sameName
  <2>1. updated = UpateRttHistory(history)
    BY <1>3 DEF updated
  <2>2. UpateRttHistory(history).h \in Seq(Records(seq))
        /\ Purged(UpateRttHistory(history).h, history)
    BY <1>1, UpdateResult
  <2> QED
    BY <1>3, <2>1, <2>2 DEF Purged
<1> QED
  BY <1>1, <1>2, <1>3

\* Nothing has been requested at the start.
LEMMA InitBasic == Init => BasicInv
<1> SUFFICES ASSUME Init PROVE BasicInv
  OBVIOUS
<1>1. /\ 0 \in 0..SeqMax /\ InitialRtt \in 0..LargerOf(InitialRtt, LifeTime)
      /\ 1 \in 1..MaxMultiplier /\ sameName \in BOOLEAN
  BY RttAssumption, ConsumerAssumption DEF Init, LargerOf
<1>2. DOMAIN timeouts = {} /\ DOMAIN counts = {} /\ DOMAIN pending = {}
  BY DEF Init
<1>3. history = <<>> /\ Len(history) = 0
  BY DEF Init
<1>4. TypeOK
  <2>1. history \in Seq([seq : 0..seq - 1, age : 0..AgeCap, rtt : 0..LifeTime,
                         rto : MinRto..MaxRto, retx : BOOLEAN])
    <3> DEFINE R == [seq : 0..seq - 1, age : 0..AgeCap, rtt : 0..LifeTime,
                     rto : MinRto..MaxRto, retx : BOOLEAN]
    <3> HIDE DEF R
    <3>1. history \in Seq(R)
      BY <1>3
    <3> QED
      BY <3>1 DEF R
  <2>2. seq \in 0..SeqMax /\ est \in 0..LargerOf(InitialRtt, LifeTime)
        /\ multiplier \in 1..MaxMultiplier /\ retxSeqs = {}
        /\ active \in BOOLEAN /\ sendEvent \in BOOLEAN /\ undefined \in BOOLEAN
    BY <1>1 DEF Init
  <2> QED
    BY <1>1, <1>2, <2>1, <2>2 DEF TypeOK
<1>5. Unique(history) /\ Young
  BY <1>3 DEF Unique, Young
<1> QED
  BY <1>4, <1>5 DEF BasicInv

\* A new request has a sequence number of its own and a new record.
LEMMA SendPacketBasic ==
  ASSUME BasicInv, SendPacket
  PROVE  BasicInv'
<1> DEFINE h == updated.h
<1>1. TypeOK /\ Unique(history) /\ Young /\ seq \in Nat /\ seq < SeqMax
  BY ConsumerAssumption DEF BasicInv, TypeOK, SendPacket
<1>2. PICK rto \in newRtos(h) : /\ timeouts' = Put(timeouts, seq, rto)
                                /\ history' = Append(h, newRecord(seq, rto))
  BY DEF SendPacket
<1>3. /\ h \in Seq(Records(seq)) /\ Part(h, history)
  BY <1>1, UpdatedIs
<1> HIDE DEF h
<1>4. rto \in MinRto..MaxRto
  BY <1>1, <1>2, <1>3, NewRtosIn
<1>5. /\ counts' = Put(counts, seq, 1) /\ pending' = Put(pending, seq, LifeTime)
      /\ seq' = seq + 1
      /\ UNCHANGED <<sameName, active, sendEvent, retxSeqs, est, multiplier, undefined>>
  BY DEF SendPacket
<1> DEFINE r == newRecord(seq, rto)
<1>6. r \in Records(seq + 1) /\ r.seq = seq /\ r.age = 0
  BY <1>1, <1>4, NewRecordIs DEF newRecord
<1>7. h \in Seq(Records(seq + 1))
  BY <1>1, <1>3, RecordsGrow
<1> HIDE DEF r
<1>8. /\ history' \in Seq(Records(seq + 1)) /\ Len(history') = Len(h) + 1 /\ Len(h) \in Nat
      /\ history'[Len(h) + 1] = r /\ \A j \in 1..Len(h) : history'[j] = h[j]
  BY <1>2, <1>6, <1>7 DEF r
<1>9. TypeOK'
  <2>1. history' \in Seq([seq : 0..seq' - 1, age : 0..AgeCap, rtt : 0..LifeTime,
                          rto : MinRto..MaxRto, retx : BOOLEAN])
    BY <1>5, <1>8 DEF Records
  <2>2. /\ DOMAIN timeouts' \subseteq 0..seq' - 1
        /\ \A s \in DOMAIN timeouts' : timeouts'[s] \in 1..MaxRto
    BY <1>1, <1>2, <1>4, <1>5, RttAssumption DEF TypeOK, Put
  <2>3. DOMAIN counts' \subseteq 0..seq' - 1 /\ \A s \in DOMAIN counts' : counts'[s] \in Nat
    BY <1>1, <1>5 DEF TypeOK, Put
  <2>4. DOMAIN pending' \subseteq 0..seq' - 1 /\ \A s \in DOMAIN pending' : pending'[s] \in 0..LifeTime
    BY <1>1, <1>5, ConsumerAssumption DEF TypeOK, Put
  <2>5. seq' \in 0..SeqMax /\ retxSeqs' \subseteq 0..seq' - 1
    BY <1>1, <1>5, ConsumerAssumption DEF TypeOK
  <2> QED
    BY <1>1, <1>5, <2>1, <2>2, <2>3, <2>4, <2>5 DEF TypeOK
<1>10. ASSUME NEW j \in 1..Len(h)
       PROVE  /\ h[j].seq # seq
              /\ \E i \in 1..Len(history) : h[j] = history[i]
  <2>1. h[j] \in Records(seq)
    BY <1>3
  <2>2. h[j].seq \in 0..seq - 1
    BY <2>1, RecordType
  <2> QED
    BY <1>1, <1>3, <2>2 DEF Part
<1>11. \A j \in 1..Len(history') : j = Len(h) + 1 \/ j \in 1..Len(h)
  BY <1>8
<1>12. Unique(history')
  <2>1. Unique(h)
    BY <1>1, <1>3 DEF Part
  <2>2. ASSUME NEW i \in 1..Len(history'), NEW j \in 1..Len(history'),
               history'[i].seq = history'[j].seq
        PROVE  i = j
    BY <1>6, <1>8, <1>10, <1>11, <2>1, <2>2, ZenonT(60) DEF Unique
  <2> QED
    BY <2>2 DEF Unique
<1>13. Young'
  <2> SUFFICES ASSUME NEW j \in 1..Len(history'),
                      history'[j].seq \in DOMAIN pending', ~history'[j].retx
               PROVE  history'[j].age + pending'[history'[j].seq] <= LifeTime
    BY DEF Young
  <2>1. CASE j = Len(h) + 1
    <3>1. history'[j].age = 0 /\ history'[j].seq = seq
      BY <1>6, <1>8, <2>1
    <3>2. pending'[seq] = LifeTime
      BY <1>5 DEF Put
    <3> QED
      BY <3>1, <3>2, ConsumerAssumption
  <2>2. CASE j \in 1..Len(h)
    <3>1. PICK i \in 1..Len(history) : h[j] = history[i]
      BY <1>10, <2>2
    <3>2. history'[j] = history[i] /\ history[i].seq # seq
      BY <1>8, <1>10, <2>2, <3>1
    <3>3. history[i].seq \in DOMAIN pending /\ pending'[history[i].seq] = pending[history[i].seq]
      BY <1>5, <3>2 DEF Put
    <3> QED
      BY <1>1, <3>2, <3>3 DEF Young
  <2> QED
    BY <1>11, <2>1, <2>2
<1> QED
  BY <1>9, <1>12, <1>13 DEF BasicInv

\* Data removes its request, and measures only what was sent once.
LEMMA OnDataBasic ==
  ASSUME BasicInv, NEW s \in DOMAIN pending, OnData(s)
  PROVE  BasicInv'
<1> DEFINE a == AckSeqHistory(history, s)
<1>1. TypeOK /\ Unique(history) /\ Young /\ history \in Seq(Records(seq)) /\ seq \in Nat
  BY ConsumerAssumption DEF BasicInv, TypeOK, Records
<1>2. /\ pending' = Drop(pending, {s}) /\ counts' = Drop(counts, {s})
      /\ timeouts' = Drop(timeouts, {s}) /\ retxSeqs' = retxSeqs \ {s} /\ history' = a
      /\ UNCHANGED <<sameName, seq, active, sendEvent, undefined>>
  BY DEF OnData
<1>3. pending[s] \in 0..LifeTime
  BY <1>1 DEF TypeOK
<1>4. ASSUME NEW i \in 1..Len(history), history[i].seq = s, ~history[i].retx
      PROVE  history[i].age \in 0..LifeTime
  <2>1. history[i].age + pending[s] <= LifeTime
    BY <1>1, <1>4 DEF Young
  <2>2. history[i] \in Records(seq)
    BY <1>1
  <2>3. history[i].age \in 0..AgeCap
    BY <2>2, RecordType
  <2> QED
    BY <1>3, <2>1, <2>3, ConsumerAssumption, RttAssumption DEF AgeCap
<1>5. \A i \in 1..Len(history) :
        history[i].seq = s /\ ~history[i].retx => history[i].age <= LifeTime
  BY <1>4, ConsumerAssumption
<1>6. /\ a \in Seq(Records(seq)) /\ Unique(a)
      /\ \A j \in 1..Len(a) : a[j].seq # s => \E i \in 1..Len(history) : a[j] = history[i]
  BY <1>1, <1>5, AckIs
<1> HIDE DEF a
<1>7. est' \in 0..LargerOf(InitialRtt, LifeTime) /\ multiplier' \in 1..MaxMultiplier
  <2> DEFINE top == LargerOf(InitialRtt, LifeTime)
  <2>1. est \in 0..top /\ multiplier \in 1..MaxMultiplier /\ MaxMultiplier \in Nat \ {0}
    BY <1>1, RttAssumption DEF TypeOK
  <2>2. top \in Nat /\ LifeTime <= top
    BY RttAssumption, ConsumerAssumption DEF LargerOf
  <2> HIDE DEF top
  <2>3. CASE Sent(history, s) /\ ~RecordOf(history, s).retx
    <3>1. est' \in Measurement(est, RecordOf(history, s).age) /\ multiplier' = 1
      BY <2>3 DEF OnData
    <3>2. PICK i \in 1..Len(history) : history[i].seq = s /\ RecordOf(history, s) = history[i]
      BY <1>1, <2>3, SentIs
    <3>3. history[i].age \in 0..LifeTime
      BY <1>4, <2>3, <3>2
    <3>4. history[i].age \in 0..top /\ 0 \in Int /\ top \in Int
      BY <2>2, <3>3, ConsumerAssumption
    <3>5. est' \in Between(est, history[i].age)
      BY <3>1, <3>2 DEF Measurement
    <3>6. est' \in 0..top
      BY <2>1, <3>4, <3>5, BetweenIn
    <3> QED
      BY <2>1, <3>1, <3>6 DEF top
  <2>4. CASE ~(Sent(history, s) /\ ~RecordOf(history, s).retx)
    <3>1. est' = est /\ multiplier' = multiplier
      BY <2>4 DEF OnData
    <3> QED
      BY <2>1, <3>1 DEF top
  <2> QED
    BY <2>3, <2>4
<1>8. TypeOK'
  <2>1. history' \in Seq([seq : 0..seq' - 1, age : 0..AgeCap, rtt : 0..LifeTime,
                          rto : MinRto..MaxRto, retx : BOOLEAN])
    BY <1>2, <1>6 DEF Records
  <2>2. /\ DOMAIN timeouts' \subseteq 0..seq - 1
        /\ \A x \in DOMAIN timeouts' : timeouts'[x] \in 1..MaxRto
    BY <1>1, <1>2 DEF TypeOK, Drop
  <2>3. DOMAIN counts' \subseteq 0..seq - 1 /\ \A x \in DOMAIN counts' : counts'[x] \in Nat
    BY <1>1, <1>2 DEF TypeOK, Drop
  <2>4. DOMAIN pending' \subseteq 0..seq - 1 /\ \A x \in DOMAIN pending' : pending'[x] \in 0..LifeTime
    BY <1>1, <1>2 DEF TypeOK, Drop
  <2> QED
    BY <1>1, <1>2, <1>7, <2>1, <2>2, <2>3, <2>4 DEF TypeOK
<1>9. Young'
  <2> SUFFICES ASSUME NEW j \in 1..Len(a), a[j].seq \in DOMAIN pending', ~a[j].retx
               PROVE  a[j].age + pending'[a[j].seq] <= LifeTime
    BY <1>2 DEF Young
  <2>1. /\ a[j].seq # s /\ a[j].seq \in DOMAIN pending
        /\ pending'[a[j].seq] = pending[a[j].seq]
    BY <1>2 DEF Drop
  <2>2. PICK i \in 1..Len(history) : a[j] = history[i]
    BY <1>6, <2>1
  <2> QED
    BY <1>1, <2>1, <2>2 DEF Young
<1> QED
  BY <1>2, <1>6, <1>8, <1>9 DEF BasicInv

\* What CheckRetxTimeout does: the requests that are due, those sent again, and the history
\* before and after the records of those given up are erased.
Due == {s \in DOMAIN timeouts : timeouts[s] <= 1}
Named == {s \in Resend(Due) : Sent(history, s)}
Rto == [s \in Named |-> GetRetransRtobySeq(history, s)]
MarkedHistory == SetRetransmitbySeq(AgeHistory(history), Named, Rto)

LEMMA CheckIs ==
  ASSUME CheckRetxTimeout
  PROVE  /\ timeouts' = [s \in (DOMAIN timeouts \ Due) \union Named |->
                          IF s \in Named THEN Rto[s] ELSE timeouts[s] - 1]
         /\ counts' = [s \in DOMAIN counts \ Discarded(Due) |->
                         IF s \in Named THEN counts[s] + 1 ELSE counts[s]]
         /\ retxSeqs' = retxSeqs \union Resend(Due)
         /\ history' = DiscardInterestBySeq(MarkedHistory, Discarded(Due))
         /\ multiplier' = Raised(Due)
         /\ sendEvent' = (sendEvent \/ Resend(Due) # {})
         /\ pending' = [s \in {x \in DOMAIN pending : pending[x] > 0} \union Named |->
                          IF s \in Named THEN LifeTime ELSE pending[s] - 1]
         /\ UNCHANGED <<sameName, seq, active, est, undefined>>
BY Zenon DEF CheckRetxTimeout, Due, Named, Rto, MarkedHistory

\* The RTO of a retransmission: twice the last one, within the limits.
LEMMA RtoIs ==
  ASSUME BasicInv, NEW i \in 1..Len(history), history[i].seq \in Named
  PROVE  Rto[history[i].seq] = SmallerOf(MaxRto, 2 * history[i].rto)
<1>1. history \in Seq(Records(seq)) /\ Unique(history)
  BY DEF BasicInv, TypeOK, Records
<1>2. RecordOf(history, history[i].seq) = history[i]
  BY <1>1, RecordIs
<1> QED
  BY <1>2 DEF Rto, GetRetransRtobySeq

\* The history before records are erased.
LEMMA MarkedHistoryIs ==
  ASSUME BasicInv
  PROVE  /\ MarkedHistory \in Seq(Records(seq)) /\ Len(MarkedHistory) = Len(history)
         /\ Unique(MarkedHistory)
         /\ \A s \in Named : Rto[s] \in MinRto..MaxRto
         /\ \A i \in 1..Len(history) :
              LET m == MarkedHistory[i]
                  r == history[i]
              IN  /\ m.seq = r.seq /\ m.rtt = r.rtt /\ m.age <= r.age + 1
                  /\ m.seq \in Named => m.retx = TRUE /\ m.rto = SmallerOf(MaxRto, 2 * r.rto)
                  /\ m.seq \notin Named => m.retx = r.retx /\ m.rto = r.rto
<1>1. history \in Seq(Records(seq)) /\ Unique(history) /\ seq \in Nat
  BY ConsumerAssumption DEF BasicInv, TypeOK, Records
<1>2. ASSUME NEW s \in Named PROVE Rto[s] \in MinRto..MaxRto
  <2>1. Sent(history, s)
    BY DEF Named
  <2>2. PICK i \in 1..Len(history) : history[i].seq = s
    BY <1>1, <2>1, SentIs
  <2>3. history[i] \in Records(seq)
    BY <1>1
  <2>4. history[i].rto \in MinRto..MaxRto
    BY <2>3, RecordType
  <2>5. Rto[s] = SmallerOf(MaxRto, 2 * history[i].rto)
    BY <2>2, RtoIs
  <2> QED
    BY <2>4, <2>5, RttAssumption DEF SmallerOf
<1> DEFINE m == MarkedHistory
<1>3. /\ m \in Seq(Records(seq)) /\ Len(m) = Len(history)
      /\ \A i \in 1..Len(history) :
           /\ m[i].seq = history[i].seq /\ m[i].rtt = history[i].rtt
           /\ m[i].age <= history[i].age + 1
           /\ m[i].seq \in Named => m[i].retx = TRUE /\ m[i].rto = Rto[m[i].seq]
           /\ m[i].seq \notin Named => m[i].retx = history[i].retx /\ m[i].rto = history[i].rto
  <2>1. \A s \in Named : Rto[s] \in MinRto..MaxRto
    BY <1>2
  <2>2. RtosOf(Named, Rto)
    BY <2>1 DEF RtosOf
  <2>3. IsMarked(MarkedHistory, history, Named, Rto, seq)
    BY <1>1, <2>2, MarkedIs, Zenon DEF MarkedHistory
  <2> QED
    BY <2>3 DEF IsMarked
<1> HIDE DEF m
<1>4. Unique(m)
  BY <1>1, <1>3 DEF Unique
<1>5. \A i \in 1..Len(history) :
        m[i].seq \in Named => m[i].rto = SmallerOf(MaxRto, 2 * history[i].rto)
  BY <1>3, RtoIs
<1> QED
  BY <1>2, <1>3, <1>4, <1>5 DEF m

\* The requests that are due and sent again are requests.
LEMMA NamedIs ==
  ASSUME TypeOK
  PROVE  /\ Named \subseteq Resend(Due) /\ Resend(Due) \subseteq Due
         /\ Due \subseteq DOMAIN timeouts /\ Due \subseteq 0..seq - 1
         /\ IsFiniteSet(Due) /\ Discarded(Due) = Due \ Resend(Due)
<1>1. /\ Named \subseteq Resend(Due) /\ Resend(Due) \subseteq Due
      /\ Due \subseteq DOMAIN timeouts /\ Discarded(Due) = Due \ Resend(Due)
  BY DEF Named, Resend, Due, Discarded
<1>2. DOMAIN timeouts \subseteq 0..seq - 1 /\ 0 \in Int /\ seq - 1 \in Int
  BY ConsumerAssumption DEF TypeOK
<1>3. IsFiniteSet(0..seq - 1)
  BY <1>2, FS_Interval
<1>4. Due \subseteq 0..seq - 1
  BY <1>1, <1>2
<1>5. IsFiniteSet(Due)
  BY <1>3, <1>4, FS_Subset
<1> QED
  BY <1>1, <1>4, <1>5

\* A period of the retransmission timer.
LEMMA CheckBasic ==
  ASSUME BasicInv, CheckRetxTimeout
  PROVE  BasicInv'
<1> DEFINE M == MarkedHistory
           d == DiscardInterestBySeq(M, Discarded(Due))
<1>1. TypeOK /\ Unique(history) /\ Young /\ history \in Seq(Records(seq)) /\ seq \in Nat
  BY ConsumerAssumption DEF BasicInv, TypeOK, Records
<1>2. /\ timeouts' = [s \in (DOMAIN timeouts \ Due) \union Named |->
                        IF s \in Named THEN Rto[s] ELSE timeouts[s] - 1]
      /\ counts' = [s \in DOMAIN counts \ Discarded(Due) |->
                      IF s \in Named THEN counts[s] + 1 ELSE counts[s]]
      /\ retxSeqs' = retxSeqs \union Resend(Due)
      /\ history' = d
      /\ multiplier' = Raised(Due)
      /\ sendEvent' = (sendEvent \/ Resend(Due) # {})
      /\ pending' = [s \in {x \in DOMAIN pending : pending[x] > 0} \union Named |->
                       IF s \in Named THEN LifeTime ELSE pending[s] - 1]
      /\ UNCHANGED <<sameName, seq, active, est, undefined>>
  BY CheckIs, Zenon
<1>3. /\ Named \subseteq Resend(Due) /\ Resend(Due) \subseteq Due
      /\ Due \subseteq DOMAIN timeouts /\ Due \subseteq 0..seq - 1 /\ IsFiniteSet(Due)
  BY <1>1, NamedIs
<1>4. /\ M \in Seq(Records(seq)) /\ Len(M) = Len(history) /\ Unique(M)
      /\ \A s \in Named : Rto[s] \in MinRto..MaxRto
      /\ \A i \in 1..Len(history) :
           /\ M[i].seq = history[i].seq /\ M[i].age <= history[i].age + 1
           /\ M[i].seq \in Named => M[i].retx = TRUE
           /\ M[i].seq \notin Named => M[i].retx = history[i].retx
  BY MarkedHistoryIs
<1> HIDE DEF M
<1>5. d \in Seq(Records(seq)) /\ Part(d, M)
  BY <1>4, DiscardResult
<1> HIDE DEF d
<1>6. TypeOK'
  <2>1. history' \in Seq([seq : 0..seq' - 1, age : 0..AgeCap, rtt : 0..LifeTime,
                          rto : MinRto..MaxRto, retx : BOOLEAN])
    BY <1>2, <1>5 DEF Records
  <2>2. DOMAIN timeouts' \subseteq 0..seq - 1
    BY <1>1, <1>2, <1>3 DEF TypeOK
  <2>3. ASSUME NEW s \in DOMAIN timeouts' PROVE timeouts'[s] \in 1..MaxRto
    <3>1. CASE s \in Named
      BY <1>2, <1>4, <3>1, RttAssumption
    <3>2. CASE s \notin Named
      <4>1. s \in DOMAIN timeouts /\ s \notin Due /\ timeouts'[s] = timeouts[s] - 1
        BY <1>2, <3>2
      <4>2. timeouts[s] \in 1..MaxRto /\ ~(timeouts[s] <= 1)
        BY <1>1, <4>1 DEF TypeOK, Due
      <4> QED
        BY <4>1, <4>2, RttAssumption
    <3> QED
      BY <3>1, <3>2
  <2>4. DOMAIN counts' \subseteq 0..seq - 1 /\ \A s \in DOMAIN counts' : counts'[s] \in Nat
    BY <1>1, <1>2 DEF TypeOK
  <2>5. DOMAIN pending' \subseteq 0..seq - 1
    BY <1>1, <1>2, <1>3 DEF TypeOK
  <2>6. ASSUME NEW s \in DOMAIN pending' PROVE pending'[s] \in 0..LifeTime
    <3>1. CASE s \in Named
      BY <1>2, <3>1, ConsumerAssumption
    <3>2. CASE s \notin Named
      <4>1. s \in DOMAIN pending /\ pending[s] > 0 /\ pending'[s] = pending[s] - 1
        BY <1>2, <3>2
      <4>2. pending[s] \in 0..LifeTime
        BY <1>1, <4>1 DEF TypeOK
      <4> QED
        BY <4>1, <4>2, ConsumerAssumption
    <3> QED
      BY <3>1, <3>2
  <2>7. multiplier' \in 1..MaxMultiplier
    <3>1. multiplier \in 1..MaxMultiplier
      BY <1>1 DEF TypeOK
    <3>2. Raised(Due) \in 1..MaxMultiplier
      BY <1>3, <3>1, RaisedIn
    <3> QED
      BY <1>2, <3>2
  <2>8. retxSeqs' \subseteq 0..seq - 1
    BY <1>1, <1>2, <1>3 DEF TypeOK
  <2>9. sendEvent' \in BOOLEAN
    BY <1>2
  <2> QED
    BY <1>1, <1>2, <2>1, <2>2, <2>3, <2>4, <2>5, <2>6, <2>7, <2>8, <2>9 DEF TypeOK
<1>7. Young'
  <2> SUFFICES ASSUME NEW j \in 1..Len(d), d[j].seq \in DOMAIN pending', ~d[j].retx
               PROVE  d[j].age + pending'[d[j].seq] <= LifeTime
    BY <1>2 DEF Young
  <2>1. PICK i \in 1..Len(history) : d[j] = M[i]
    BY <1>4, <1>5 DEF Part
  <2> DEFINE s == history[i].seq
  <2>2. M[i].seq = s /\ M[i].age <= history[i].age + 1 /\ ~M[i].retx
    BY <1>4, <2>1
  <2>3. s \notin Named /\ ~history[i].retx
    BY <1>4, <2>2
  <2>4. s \in DOMAIN pending /\ pending[s] > 0 /\ pending'[s] = pending[s] - 1
    BY <1>2, <2>1, <2>2, <2>3
  <2>5. history[i].age + pending[s] <= LifeTime
    BY <1>1, <2>3, <2>4 DEF Young
  <2>6. M[i] \in Records(seq) /\ history[i] \in Records(seq)
    BY <1>1, <1>4
  <2>7. M[i].age \in Nat /\ history[i].age \in Nat /\ pending[s] \in Nat
    <3>1. M[i].age \in 0..AgeCap /\ history[i].age \in 0..AgeCap
      BY <2>6, RecordType
    <3>2. M[i].age \in Nat /\ history[i].age \in Nat
      BY <3>1, RttAssumption DEF AgeCap
    <3>3. pending[s] \in 0..LifeTime
      BY <1>1, <2>4 DEF TypeOK
    <3> QED
      BY <3>2, <3>3, ConsumerAssumption
  <2>8. d[j].age = M[i].age /\ d[j].seq = s
    BY <2>1, <2>2
  <2> HIDE DEF s
  <2> QED
    BY <2>2, <2>4, <2>5, <2>7, <2>8, ConsumerAssumption, SMTT(30)
<1> QED
  BY <1>2, <1>4, <1>5, <1>6, <1>7 DEF BasicInv, Part

\* The other actions change flags only.
LEMMA FlagsBasic ==
  ASSUME BasicInv, SendNothing \/ SendPacketUndefined \/ StopApplication \/ UNCHANGED vars
  PROVE  BasicInv'
<1>1. /\ UNCHANGED <<sameName, seq, timeouts, counts, retxSeqs, history, est, multiplier, pending>>
      /\ active' \in BOOLEAN /\ sendEvent' \in BOOLEAN /\ undefined' \in BOOLEAN
  BY DEF BasicInv, TypeOK, SendNothing, SendPacketUndefined, StopApplication, vars
<1>2. TypeOK'
  BY <1>1 DEF BasicInv, TypeOK
<1>3. Unique(history)' /\ Young'
  BY <1>1 DEF BasicInv, Young, Unique
<1> QED
  BY <1>2, <1>3 DEF BasicInv

\* Every step keeps the types and the ages.
LEMMA NextBasic == BasicInv /\ [Next]_vars => BasicInv'
<1> SUFFICES ASSUME BasicInv, [Next]_vars PROVE BasicInv'
  OBVIOUS
<1>1. CASE SendPacket
  BY <1>1, SendPacketBasic
<1>2. ASSUME NEW s \in DOMAIN pending, OnData(s) PROVE BasicInv'
  BY <1>2, OnDataBasic
<1>3. CASE CheckRetxTimeout
  BY <1>3, CheckBasic
<1>4. CASE SendNothing \/ SendPacketUndefined \/ StopApplication \/ UNCHANGED vars
  BY <1>4, FlagsBasic
<1> QED
  BY <1>1, <1>2, <1>3, <1>4 DEF Next

\* The consumer's containers, the history and the estimate stay well formed: no RTO is
\* beyond its limits and no RTT beyond the Interest lifetime, whatever Data comes when.
THEOREM TypeCorrect == Spec => []TypeOK
<1>1. BasicInv => TypeOK
  BY DEF BasicInv
<1> QED
  BY InitBasic, NextBasic, <1>1, PTL DEF Spec

----------------------------------------------------------------------------
(* Requests and their records                                              *)

Inv == BasicInv /\ TrackInv

\* Nothing is tracked at the start.
LEMMA InitTrack == Init => TrackInv
<1> SUFFICES ASSUME Init PROVE TrackInv
  OBVIOUS
<1>1. DOMAIN timeouts = {} /\ DOMAIN counts = {} /\ Len(history) = 0 /\ sameName \in SameNames
  BY DEF Init
<1> QED
  BY <1>1 DEF TrackInv

\* The record of a request is within the window when the history is purged.
LEMMA TrackedWithinWindow ==
  ASSUME Inv, NEW i \in 1..Len(history), history[i].seq \in DOMAIN counts
  PROVE  sameName \/ history[i].age <= Window
<1> SUFFICES ASSUME ~sameName PROVE history[i].age <= Window
  OBVIOUS
<1> DEFINE s == history[i].seq
           c == counts[s]
<1>1. c \in 1..RetxNum /\ c \in 0..RetxNum /\ s \in DOMAIN timeouts
  BY ConsumerAssumption DEF Inv, TrackInv
<1>2. history[i].age + timeouts[s] <= LongestTime[c]
  BY DEF Inv, TrackInv, Tracks
<1>3. timeouts[s] \in 1..MaxRto
  BY <1>1 DEF Inv, BasicInv, TypeOK
<1>4. history[i].age \in 0..AgeCap
  <2>1. history \in Seq(Records(seq))
    BY DEF Inv, BasicInv, TypeOK, Records
  <2>2. history[i] \in Records(seq)
    BY <2>1
  <2> QED
    BY <2>2, RecordType
<1>5. LongestTime[c] <= Window
  <2>1. FALSE \in SameNames
    <3>1. sameName \in SameNames /\ sameName \in BOOLEAN
      BY DEF Inv, TrackInv, BasicInv, TypeOK
    <3>2. sameName = FALSE
      BY <3>1
    <3> QED
      BY <3>1, <3>2
  <2> QED
    BY <1>1, <2>1, WindowAssumption
<1>6. LongestTime[c] \in Nat
  BY <1>1, LongestTimeIs
<1> HIDE DEF s, c
<1> QED
  BY <1>2, <1>3, <1>4, <1>5, <1>6, RttAssumption DEF AgeCap

\* A new request is tracked, and the purge of the history loses no other.
LEMMA SendPacketTrack ==
  ASSUME Inv, SendPacket
  PROVE  TrackInv'
<1> DEFINE h == updated.h
<1>1. TypeOK /\ seq \in Nat /\ TrackInv
  BY ConsumerAssumption DEF Inv, BasicInv, TypeOK
<1>2. PICK rto \in newRtos(h) : /\ timeouts' = Put(timeouts, seq, rto)
                                /\ history' = Append(h, newRecord(seq, rto))
  BY DEF SendPacket
<1>3. /\ h \in Seq(Records(seq)) /\ Part(h, history)
      /\ \A i \in 1..Len(history) :
           sameName \/ history[i].age <= Window => \E j \in 1..Len(h) : h[j] = history[i]
  BY <1>1, UpdatedIs
<1> HIDE DEF h
<1>4. rto \in MinRto..MaxRto /\ (~sameName => rto <= FirstRto)
  BY <1>1, <1>2, <1>3, NewRtosIn
<1>5. /\ counts' = Put(counts, seq, 1) /\ pending' = Put(pending, seq, LifeTime)
      /\ sameName' = sameName
  BY DEF SendPacket
<1> DEFINE r == newRecord(seq, rto)
<1>6. r.seq = seq /\ r.age = 0 /\ r.rtt = 0 /\ r.rto = rto /\ r.retx = FALSE
  BY DEF newRecord
<1> HIDE DEF r
<1>7. /\ Len(history') = Len(h) + 1 /\ Len(h) \in Nat
      /\ history'[Len(h) + 1] = r /\ \A j \in 1..Len(h) : history'[j] = h[j]
  BY <1>2, <1>3 DEF r
<1>8. \A j \in 1..Len(history') : j = Len(h) + 1 \/ j \in 1..Len(h)
  BY <1>7
<1>9. Len(h) + 1 \in 1..Len(history') /\ \A j \in 1..Len(h) : j \in 1..Len(history')
  BY <1>7
<1>10. \A j \in 1..Len(h) : h[j].seq # seq
  <2> SUFFICES ASSUME NEW j \in 1..Len(h) PROVE h[j].seq # seq
    OBVIOUS
  <2>1. h[j] \in Records(seq)
    BY <1>3
  <2>2. h[j].seq \in 0..seq - 1
    BY <2>1, RecordType
  <2> QED
    BY <1>1, <2>2
<1>11. DOMAIN timeouts' = DOMAIN counts' /\ DOMAIN counts' = DOMAIN counts \union {seq}
  BY <1>1, <1>2, <1>5 DEF TrackInv, Put
<1>12. ASSUME NEW s \in DOMAIN counts'
       PROVE  counts'[s] \in 1..RetxNum /\ \E j \in 1..Len(history') : history'[j].seq = s
  <2>1. CASE s = seq
    <3>1. counts'[s] = 1
      BY <1>5, <2>1 DEF Put
    <3>2. history'[Len(h) + 1].seq = s
      BY <1>6, <1>7, <2>1
    <3> QED
      BY <1>9, <3>1, <3>2, ConsumerAssumption
  <2>2. CASE s # seq
    <3>1. s \in DOMAIN counts /\ counts'[s] = counts[s]
      BY <1>5, <1>11, <2>2 DEF Put
    <3>2. counts[s] \in 1..RetxNum
      BY <1>1, <3>1 DEF TrackInv
    <3>3. PICK i \in 1..Len(history) : history[i].seq = s
      BY <1>1, <3>1 DEF TrackInv
    <3>4. sameName \/ history[i].age <= Window
      BY <3>1, <3>3, TrackedWithinWindow
    <3>5. PICK j \in 1..Len(h) : h[j] = history[i]
      BY <1>3, <3>4
    <3>6. history'[j].seq = s
      BY <1>7, <3>3, <3>5
    <3> QED
      BY <1>9, <3>1, <3>2, <3>5, <3>6
  <2> QED
    BY <2>1, <2>2
<1>13. ASSUME NEW j \in 1..Len(history')
       PROVE  LET s == history'[j].seq
              IN  /\ s \in DOMAIN pending' => s \in DOMAIN counts'
                  /\ s \in DOMAIN counts' => Tracks(history'[j], counts'[s], timeouts'[s], sameName')
  <2>1. CASE j = Len(h) + 1
    <3>1. history'[j] = r
      BY <1>7, <2>1
    <3>2. counts'[seq] = 1 /\ timeouts'[seq] = rto
      BY <1>2, <1>5 DEF Put
    <3>3. LongestRto[1 - 1] = FirstRto /\ LongestTime[1] = FirstRto
      <4>1. 1 \in 1..RetxNum /\ 1 - 1 = 0 /\ FirstRto \in Int
        BY ConsumerAssumption, RttAssumption, FirstRtoIs
      <4>2. LongestTime[1] = LongestTime[1 - 1] + LongestRto[1 - 1]
        BY <4>1, LongestTimeIs
      <4>3. LongestTime[1] = 0 + FirstRto
        BY <4>1, <4>2, LongestRtoIs, LongestTimeIs
      <4> QED
        BY <4>1, <4>3, LongestRtoIs
    <3>4. Tracks(r, 1, rto, sameName')
      <4>1. 0 + rto <= LongestTime[1] <=> rto <= FirstRto
        BY <1>4, <3>3, RttAssumption
      <4>2. rto <= rto /\ ~(1 > 1)
        BY <1>4, RttAssumption
      <4>3. ~sameName' => r.rto <= LongestRto[1 - 1] /\ r.age + rto <= LongestTime[1]
        BY <1>4, <1>5, <1>6, <3>3, <4>1
      <4>4. r.rtt = 0 /\ (r.retx <=> 1 > 1) /\ rto <= r.rto
        BY <1>6, <4>2
      <4> QED
        BY <4>3, <4>4 DEF Tracks
    <3> QED
      BY <1>6, <1>11, <3>1, <3>2, <3>4
  <2>2. CASE j \in 1..Len(h)
    <3>1. PICK i \in 1..Len(history) : h[j] = history[i]
      BY <1>3, <2>2 DEF Part
    <3> DEFINE s == history[i].seq
    <3>2. history'[j] = history[i] /\ s # seq
      BY <1>7, <1>10, <2>2, <3>1
    <3>3. /\ s \in DOMAIN pending' <=> s \in DOMAIN pending
          /\ s \in DOMAIN counts' <=> s \in DOMAIN counts
      BY <1>5, <3>2 DEF Put
    <3>4. s \in DOMAIN pending => s \in DOMAIN counts
      BY <1>1 DEF TrackInv
    <3>5. ASSUME s \in DOMAIN counts PROVE Tracks(history'[j], counts'[s], timeouts'[s], sameName')
      <4>1. Tracks(history[i], counts[s], timeouts[s], sameName)
        BY <1>1, <3>5 DEF TrackInv
      <4>2. s \in DOMAIN timeouts /\ counts'[s] = counts[s] /\ timeouts'[s] = timeouts[s]
        BY <1>1, <1>2, <1>5, <3>2, <3>5 DEF Put, TrackInv
      <4> QED
        BY <1>5, <3>2, <4>1, <4>2 DEF Tracks
    <3> QED
      BY <3>2, <3>3, <3>4, <3>5
  <2> QED
    BY <1>8, <2>1, <2>2
<1> QED
  BY <1>1, <1>5, <1>11, <1>12, <1>13 DEF TrackInv

\* Data ends its own request only.
LEMMA OnDataTrack ==
  ASSUME Inv, NEW s \in DOMAIN pending, OnData(s)
  PROVE  TrackInv'
<1> DEFINE a == AckSeqHistory(history, s)
<1>1. /\ TypeOK /\ Unique(history) /\ Young /\ TrackInv
      /\ history \in Seq(Records(seq)) /\ seq \in Nat
  BY ConsumerAssumption DEF Inv, BasicInv, TypeOK, Records
<1>2. /\ pending' = Drop(pending, {s}) /\ counts' = Drop(counts, {s})
      /\ timeouts' = Drop(timeouts, {s}) /\ history' = a /\ sameName' = sameName
  BY DEF OnData
<1>3. \A i \in 1..Len(history) :
        history[i].seq = s /\ ~history[i].retx => history[i].age <= LifeTime
  <2> SUFFICES ASSUME NEW i \in 1..Len(history), history[i].seq = s, ~history[i].retx
               PROVE  history[i].age <= LifeTime
    OBVIOUS
  <2>1. history[i].age + pending[s] <= LifeTime /\ pending[s] \in 0..LifeTime
    BY <1>1 DEF Young, TypeOK
  <2>2. history[i] \in Records(seq)
    BY <1>1
  <2>3. history[i].age \in 0..AgeCap
    BY <2>2, RecordType
  <2> QED
    BY <2>1, <2>3, ConsumerAssumption, RttAssumption DEF AgeCap
<1>4. /\ \A j \in 1..Len(a) : a[j].seq # s => \E i \in 1..Len(history) : a[j] = history[i]
      /\ \A i \in 1..Len(history) : history[i].seq # s => \E j \in 1..Len(a) : a[j] = history[i]
  BY <1>1, <1>3, AckIs
<1> HIDE DEF a
<1>5. /\ DOMAIN timeouts' = DOMAIN counts' /\ DOMAIN counts' = DOMAIN counts \ {s}
      /\ DOMAIN pending' = DOMAIN pending \ {s}
      /\ \A x \in DOMAIN counts' : counts'[x] = counts[x] /\ timeouts'[x] = timeouts[x]
  BY <1>1, <1>2 DEF TrackInv, Drop
<1>6. ASSUME NEW x \in DOMAIN counts'
      PROVE  counts'[x] \in 1..RetxNum /\ \E j \in 1..Len(a) : a[j].seq = x
  <2>1. x \in DOMAIN counts /\ x # s /\ counts'[x] = counts[x]
    BY <1>5
  <2>2. PICK i \in 1..Len(history) : history[i].seq = x
    BY <1>1, <2>1 DEF TrackInv
  <2>3. \E j \in 1..Len(a) : a[j] = history[i]
    BY <1>4, <2>1, <2>2
  <2>4. counts[x] \in 1..RetxNum
    BY <1>1, <2>1 DEF TrackInv
  <2> QED
    BY <2>1, <2>2, <2>3, <2>4
<1>7. ASSUME NEW j \in 1..Len(a)
      PROVE  LET x == a[j].seq
             IN  /\ x \in DOMAIN pending' => x \in DOMAIN counts'
                 /\ x \in DOMAIN counts' => Tracks(a[j], counts'[x], timeouts'[x], sameName')
  <2>1. CASE a[j].seq = s
    BY <1>5, <2>1
  <2>2. CASE a[j].seq # s
    <3>1. PICK i \in 1..Len(history) : a[j] = history[i]
      BY <1>4, <2>2
    <3> DEFINE x == history[i].seq
    <3>2. /\ x \in DOMAIN pending => x \in DOMAIN counts
          /\ x \in DOMAIN counts => Tracks(history[i], counts[x], timeouts[x], sameName)
      BY <1>1 DEF TrackInv
    <3> QED
      BY <1>2, <1>5, <2>2, <3>1, <3>2
  <2> QED
    BY <2>1, <2>2
<1> QED
  BY <1>1, <1>2, <1>5, <1>6, <1>7 DEF TrackInv

\* A request that is due and may be sent again has a record: GetNamebySeq finds its name.
LEMMA AllNamed ==
  ASSUME Inv
  PROVE  Named = Resend(Due)
<1>1. ASSUME NEW s \in Resend(Due) PROVE Sent(history, s)
  <2>1. s \in DOMAIN counts
    BY DEF Resend, Due, Inv, TrackInv
  <2>2. PICK i \in 1..Len(history) : history[i].seq = s
    BY <2>1 DEF Inv, TrackInv
  <2>3. i \in DOMAIN history
    BY DEF Inv, BasicInv, TypeOK
  <2> QED
    BY <2>2, <2>3 DEF Sent
<1> QED
  BY <1>1 DEF Named

\* A period later the time that is left is one less.
LEMMA OnePeriod ==
  ASSUME NEW a \in Nat, NEW b \in Nat, NEW t \in Nat, NEW l \in Nat,
         b <= a + 1, a + t <= l
  PROVE  b + (t - 1) <= l
OBVIOUS

\* A retransmission adds its RTO, which is at most twice the last one.
LEMMA OneRetransmission ==
  ASSUME NEW a \in Nat, NEW b \in Nat, NEW t \in Nat, NEW l \in Nat,
         NEW x \in Nat, NEW y \in Nat, 1 <= t, b <= a + 1, a + t <= l, x <= y
  PROVE  /\ SmallerOf(MaxRto, 2 * x) <= SmallerOf(MaxRto, 2 * y)
         /\ SmallerOf(MaxRto, 2 * y) \in Nat
         /\ b + SmallerOf(MaxRto, 2 * x) <= l + SmallerOf(MaxRto, 2 * y)
BY RttAssumption DEF SmallerOf

\* A period keeps track of every request that is not given up.
LEMMA CheckTrack ==
  ASSUME Inv, CheckRetxTimeout
  PROVE  TrackInv'
<1> DEFINE M == MarkedHistory
           X == Discarded(Due)
           d == DiscardInterestBySeq(M, X)
<1>1. /\ TypeOK /\ TrackInv /\ BasicInv /\ history \in Seq(Records(seq))
  BY DEF Inv, BasicInv, TypeOK, Records
<1>2. /\ timeouts' = [s \in (DOMAIN timeouts \ Due) \union Named |->
                        IF s \in Named THEN Rto[s] ELSE timeouts[s] - 1]
      /\ counts' = [s \in DOMAIN counts \ X |->
                      IF s \in Named THEN counts[s] + 1 ELSE counts[s]]
      /\ history' = d
      /\ pending' = [s \in {x \in DOMAIN pending : pending[x] > 0} \union Named |->
                       IF s \in Named THEN LifeTime ELSE pending[s] - 1]
      /\ sameName' = sameName
  <2>1. UNCHANGED <<sameName, seq, active, est, undefined>>
    BY CheckIs, Zenon
  <2> QED
    BY <2>1, CheckIs, Zenon
<1>3. /\ Named \subseteq Due /\ Due \subseteq DOMAIN timeouts /\ X = Due \ Named
  BY <1>1, NamedIs, AllNamed
<1>4. \A s \in Named : s \in Due /\ counts[s] < RetxNum
  BY AllNamed DEF Resend
<1>5. /\ M \in Seq(Records(seq)) /\ Len(M) = Len(history)
      /\ \A i \in 1..Len(history) :
           /\ M[i].seq = history[i].seq /\ M[i].rtt = history[i].rtt
           /\ M[i].age <= history[i].age + 1
           /\ M[i].seq \in Named => /\ M[i].retx = TRUE
                                    /\ M[i].rto = SmallerOf(MaxRto, 2 * history[i].rto)
           /\ M[i].seq \notin Named => /\ M[i].retx = history[i].retx
                                       /\ M[i].rto = history[i].rto
  BY <1>1, MarkedHistoryIs
<1> HIDE DEF M
<1>6. /\ Part(d, M) /\ \A j \in 1..Len(d) : d[j].seq \notin X
      /\ \A i \in 1..Len(M) : M[i].seq \notin X => \E j \in 1..Len(d) : d[j] = M[i]
  BY <1>5, DiscardResult
<1> HIDE DEF d, X
<1>7. DOMAIN timeouts = DOMAIN counts /\ \A s \in DOMAIN counts : counts[s] \in 1..RetxNum
  BY <1>1 DEF TrackInv
<1>8. DOMAIN counts' = DOMAIN counts \ X /\ DOMAIN timeouts' = DOMAIN counts'
  BY <1>2, <1>3, <1>7
<1>9. ASSUME NEW s \in DOMAIN counts'
      PROVE  counts'[s] \in 1..RetxNum /\ \E j \in 1..Len(d) : d[j].seq = s
  <2>1. s \in DOMAIN counts /\ s \notin X /\ counts[s] \in 1..RetxNum
    BY <1>7, <1>8
  <2>2. counts'[s] = IF s \in Named THEN counts[s] + 1 ELSE counts[s]
    BY <1>2, <2>1
  <2>3. counts'[s] \in 1..RetxNum
    BY <1>4, <2>1, <2>2, ConsumerAssumption
  <2>4. PICK i \in 1..Len(history) : history[i].seq = s
    BY <1>1, <2>1 DEF TrackInv
  <2>5. \E j \in 1..Len(d) : d[j] = M[i]
    BY <1>5, <1>6, <2>1, <2>4
  <2> QED
    BY <1>5, <2>3, <2>4, <2>5
<1>10. ASSUME NEW j \in 1..Len(d)
       PROVE  LET x == d[j].seq
              IN  /\ x \in DOMAIN pending' => x \in DOMAIN counts'
                  /\ x \in DOMAIN counts' => Tracks(d[j], counts'[x], timeouts'[x], sameName')
  <2>1. PICK i \in 1..Len(history) : d[j] = M[i]
    BY <1>5, <1>6 DEF Part
  <2> DEFINE s == history[i].seq
             r == history[i]
             m == M[i]
             c == counts[s]
             t == timeouts[s]
  <2>2. d[j].seq = s /\ m.seq = s /\ s \notin X
    BY <1>5, <1>6, <2>1
  <2>3. s \in DOMAIN pending' => s \in DOMAIN counts'
    <3>1. s \in DOMAIN pending' => s \in DOMAIN pending \/ s \in Named
      BY <1>2
    <3>2. s \in DOMAIN pending => s \in DOMAIN counts
      BY <1>1 DEF TrackInv
    <3> QED
      BY <1>3, <1>7, <1>8, <2>2, <3>1, <3>2
  <2>4. ASSUME s \in DOMAIN counts' PROVE Tracks(m, counts'[s], timeouts'[s], sameName')
    <3>1. s \in DOMAIN counts /\ c \in 1..RetxNum /\ s \in DOMAIN timeouts
      BY <1>7, <1>8, <2>4
    <3>2. Tracks(r, c, t, sameName)
      BY <1>1, <3>1 DEF TrackInv
    <3>3. t \in 1..MaxRto /\ RetxNum \in Nat /\ MaxRto \in Nat
      BY <1>1, <3>1, RttAssumption, ConsumerAssumption DEF TypeOK
    <3>4. r.age \in Nat /\ m.age \in Nat /\ r.rto \in Nat /\ m.rto \in Nat
      <4>1. r \in Records(seq) /\ m \in Records(seq)
        BY <1>1, <1>5
      <4>2. /\ r.age \in 0..AgeCap /\ m.age \in 0..AgeCap
            /\ r.rto \in MinRto..MaxRto /\ m.rto \in MinRto..MaxRto
        BY <4>1, RecordType
      <4> QED
        BY <4>2, RttAssumption DEF AgeCap
    <3>5. m.rtt = r.rtt /\ m.age <= r.age + 1
      BY <1>5
    <3>6. c - 1 \in 0..RetxNum /\ LongestRto[c - 1] \in Nat /\ LongestTime[c] \in Nat
      <4>1. c - 1 \in 0..RetxNum /\ c \in 0..RetxNum
        BY <3>1, <3>3
      <4>2. LongestRto[c - 1] \in MinRto..MaxRto /\ LongestTime[c] \in Nat
        BY <4>1, LongestRtoIs, LongestTimeIs
      <4> QED
        BY <4>1, <4>2, RttAssumption
    <3>7. CASE s \in Named
      <4>1. counts'[s] = c + 1 /\ timeouts'[s] = Rto[s]
        BY <1>2, <2>4, <3>7
      <4>2. m.retx = TRUE /\ m.rto = SmallerOf(MaxRto, 2 * r.rto)
        BY <1>5, <2>2, <3>7
      <4>3. Rto[s] = m.rto
        BY <1>1, <3>7, <4>2, RtoIs
      <4>4. c + 1 \in 1..RetxNum /\ c + 1 > 1 /\ (c + 1) - 1 = c
        BY <1>4, <3>1, <3>3, <3>7
      <4>5. t <= 1
        BY <1>4, <3>7 DEF Due
      <4>6. ASSUME ~sameName
            PROVE  m.rto <= LongestRto[c] /\ m.age + m.rto <= LongestTime[c + 1]
        <5>1. r.rto <= LongestRto[c - 1] /\ r.age + t <= LongestTime[c]
          BY <3>2, <4>6 DEF Tracks
        <5>2. LongestRto[c] = SmallerOf(MaxRto, 2 * LongestRto[c - 1])
          BY <3>1, LongestRtoIs
        <5>3. LongestTime[c + 1] = LongestTime[c] + LongestRto[c]
          <6>1. LongestTime[c + 1] = LongestTime[(c + 1) - 1] + LongestRto[(c + 1) - 1]
            BY <4>4, LongestTimeIs
          <6> QED
            BY <4>4, <6>1
        <5>4. t \in Nat /\ 1 <= t
          BY <3>3
        <5> DEFINE x == r.rto
                   y == LongestRto[c - 1]
                   l == LongestTime[c]
                   k == m.age
                   n == r.age
        <5>5. /\ x \in Nat /\ y \in Nat /\ l \in Nat /\ k \in Nat /\ n \in Nat
              /\ k <= n + 1 /\ n + t <= l /\ x <= y
          BY <3>4, <3>5, <3>6, <5>1
        <5>6. m.rto = SmallerOf(MaxRto, 2 * x) /\ LongestRto[c] = SmallerOf(MaxRto, 2 * y)
              /\ LongestTime[c + 1] = l + LongestRto[c]
          BY <4>2, <5>2, <5>3
        <5> HIDE DEF t, x, y, l, k, n
        <5>7. /\ SmallerOf(MaxRto, 2 * x) <= SmallerOf(MaxRto, 2 * y)
              /\ k + SmallerOf(MaxRto, 2 * x) <= l + SmallerOf(MaxRto, 2 * y)
          BY <5>4, <5>5, OneRetransmission
        <5> QED
          BY <5>6, <5>7 DEF k
      <4>7. m.rtt = 0 /\ (m.retx <=> c + 1 > 1) /\ m.rto <= m.rto
        BY <3>2, <3>4, <3>5, <4>2, <4>4 DEF Tracks
      <4>8. ~sameName => m.rto <= LongestRto[(c + 1) - 1] /\ m.age + m.rto <= LongestTime[c + 1]
        BY <4>4, <4>6
      <4>9. Tracks(m, c + 1, m.rto, sameName)
        BY <4>7, <4>8 DEF Tracks
      <4> QED
        BY <1>2, <4>1, <4>3, <4>9
    <3>8. CASE s \notin Named
      <4>1. s \notin Due
        BY <1>3, <2>2, <3>8 DEF X
      <4>2. counts'[s] = c /\ timeouts'[s] = t - 1
        BY <1>2, <1>8, <2>4, <3>1, <3>8, <4>1
      <4>3. m.retx = r.retx /\ m.rto = r.rto
        BY <1>5, <2>2, <3>8
      <4>4. ASSUME ~sameName PROVE m.age + (t - 1) <= LongestTime[c]
        <5>1. r.age + t <= LongestTime[c]
          BY <3>2, <4>4 DEF Tracks
        <5>2. t \in Nat
          BY <3>3
        <5> DEFINE l == LongestTime[c]
                   k == m.age
                   n == r.age
        <5>3. l \in Nat /\ k \in Nat /\ n \in Nat /\ k <= n + 1 /\ n + t <= l
          BY <3>4, <3>5, <3>6, <5>1
        <5> HIDE DEF t, l, k, n
        <5>4. k + (t - 1) <= l
          BY <5>2, <5>3, OnePeriod
        <5> QED
          BY <5>4 DEF k, l
      <4>5. t - 1 <= m.rto
        <5>1. t <= r.rto
          BY <3>2 DEF Tracks
        <5> QED
          BY <3>3, <3>4, <4>3, <5>1
      <4>6. Tracks(m, c, t - 1, sameName)
        BY <3>2, <3>5, <4>3, <4>4, <4>5 DEF Tracks
      <4> QED
        BY <1>2, <4>2, <4>6
    <3> QED
      BY <3>7, <3>8
  <2> QED
    BY <2>1, <2>2, <2>3, <2>4
<1> QED
  BY <1>1, <1>2, <1>8, <1>9, <1>10 DEF TrackInv

\* The other actions change flags only.
LEMMA FlagsTrack ==
  ASSUME Inv, SendNothing \/ SendPacketUndefined \/ StopApplication \/ UNCHANGED vars
  PROVE  TrackInv'
<1>1. UNCHANGED <<sameName, timeouts, counts, history, pending>>
  BY DEF SendNothing, SendPacketUndefined, StopApplication, vars
<1> QED
  BY <1>1 DEF Inv, TrackInv

\* Every step keeps the invariant.
LEMMA NextInv == Inv /\ [Next]_vars => Inv'
<1> SUFFICES ASSUME Inv, [Next]_vars PROVE Inv'
  OBVIOUS
<1>0. BasicInv'
  BY NextBasic DEF Inv
<1>1. CASE SendPacket
  BY <1>1, SendPacketTrack, <1>0 DEF Inv
<1>2. ASSUME NEW s \in DOMAIN pending, OnData(s) PROVE Inv'
  BY <1>2, OnDataTrack, <1>0 DEF Inv
<1>3. CASE CheckRetxTimeout
  BY <1>3, CheckTrack, <1>0 DEF Inv
<1>4. CASE SendNothing \/ SendPacketUndefined \/ StopApplication \/ UNCHANGED vars
  BY <1>4, FlagsTrack, <1>0 DEF Inv
<1> QED
  BY <1>1, <1>2, <1>3, <1>4 DEF Next

\* The invariant holds in every reachable state.
LEMMA InvHolds == Spec => []Inv
<1>1. Init => Inv
  BY InitBasic, InitTrack DEF Inv
<1> QED
  BY <1>1, NextInv, PTL DEF Spec

\* The containers of the consumer and the history of the estimator agree: a request in
\* progress has a running timer and a record, which the purge of the history never takes
\* from it, marked exactly when the request was sent again.
THEOREM AllRequestsTracked == Spec => []RequestsTracked
<1>1. Inv => RequestsTracked
  <2> SUFFICES ASSUME Inv, NEW s \in DOMAIN counts
               PROVE  /\ DOMAIN timeouts = DOMAIN counts
                      /\ counts[s] \in 1..RetxNum /\ Sent(history, s)
                      /\ LET r == RecordOf(history, s)
                         IN  r.rtt = 0 /\ (r.retx <=> counts[s] > 1) /\ timeouts[s] <= r.rto
    BY DEF RequestsTracked, Inv, TrackInv
  <2>1. history \in Seq(Records(seq)) /\ Unique(history)
    BY DEF Inv, BasicInv, TypeOK, Records
  <2>2. PICK i \in 1..Len(history) : history[i].seq = s
    BY DEF Inv, TrackInv
  <2>3. Sent(history, s) /\ RecordOf(history, s) = history[i]
    BY <2>1, <2>2, RecordIs
  <2>4. Tracks(history[i], counts[s], timeouts[s], sameName)
    BY <2>2 DEF Inv, TrackInv
  <2>5. DOMAIN timeouts = DOMAIN counts /\ counts[s] \in 1..RetxNum
    BY DEF Inv, TrackInv
  <2> QED
    BY <2>3, <2>4, <2>5 DEF Tracks
<1> QED
  BY <1>1, InvHolds, PTL

\* Only the first transmission of a request is measured: the Data of a retransmission, a
\* late Data or the Data of a request that was given up leaves the estimate alone.
THEOREM KarnRuleHolds == Spec => KarnRule
<1>1. Inv /\ [Next]_vars =>
        [est' # est => \E s \in DOMAIN counts : counts[s] = 1 /\ OnData(s)]_vars
  <2> SUFFICES ASSUME Inv, [Next]_vars, est' # est
               PROVE  \E s \in DOMAIN counts : counts[s] = 1 /\ OnData(s)
    OBVIOUS
  <2>1. PICK s \in DOMAIN pending : OnData(s)
    BY DEF Next, vars, SendNothing, SendPacket, SendPacketUndefined, CheckRetxTimeout,
           StopApplication
  <2>2. Sent(history, s) /\ ~RecordOf(history, s).retx
    BY <2>1 DEF OnData
  <2>3. history \in Seq(Records(seq))
    BY DEF Inv, BasicInv, TypeOK, Records
  <2>4. PICK i \in 1..Len(history) : history[i].seq = s /\ RecordOf(history, s) = history[i]
    BY <2>2, <2>3, SentIs
  <2>5. s \in DOMAIN counts
    BY <2>4 DEF Inv, TrackInv
  <2>6. Tracks(history[i], counts[s], timeouts[s], sameName) /\ counts[s] \in 1..RetxNum
    BY <2>4, <2>5 DEF Inv, TrackInv
  <2>7. ~(counts[s] > 1)
    BY <2>2, <2>4, <2>6 DEF Tracks
  <2>8. counts[s] = 1
    BY <2>6, <2>7, ConsumerAssumption
  <2> QED
    BY <2>1, <2>5, <2>8
<1> QED
  BY <1>1, InvHolds, PTL DEF Spec, KarnRule

\* A request ends with its Data, or when the timer of its last permitted transmission has
\* run out, and in no other way.
THEOREM GivenUpLast == Spec => NeverGivenUpEarly
<1>1. Inv /\ [Next]_vars =>
        [\A s \in DOMAIN counts \ DOMAIN counts' :
           \/ OnData(s)
           \/ counts[s] = RetxNum /\ timeouts[s] <= 1]_vars
  <2> SUFFICES ASSUME Inv, [Next]_vars, NEW s \in DOMAIN counts \ DOMAIN counts'
               PROVE  OnData(s) \/ (counts[s] = RetxNum /\ timeouts[s] <= 1)
    OBVIOUS
  <2>1. CASE SendPacket
    BY <2>1 DEF SendPacket, Put
  <2>2. ASSUME NEW x \in DOMAIN pending, OnData(x) PROVE OnData(s)
    <3>1. s = x
      BY <2>2 DEF OnData, Drop
    <3> QED
      BY <2>2, <3>1
  <2>3. CASE CheckRetxTimeout
    <3>1. DOMAIN counts' = DOMAIN counts \ Discarded(Due)
      <4>1. counts' = [x \in DOMAIN counts \ Discarded(Due) |->
                         IF x \in Named THEN counts[x] + 1 ELSE counts[x]]
        BY <2>3, CheckIs, Zenon
      <4> QED
        BY <4>1
    <3>2. s \in Due /\ ~(counts[s] < RetxNum)
      BY <3>1 DEF Discarded, Resend
    <3>3. counts[s] \in 1..RetxNum
      BY DEF Inv, TrackInv
    <3> QED
      BY <3>2, <3>3, ConsumerAssumption DEF Due
  <2>4. CASE SendNothing \/ SendPacketUndefined \/ StopApplication \/ UNCHANGED vars
    BY <2>4 DEF SendNothing, SendPacketUndefined, StopApplication, vars
  <2> QED
    BY <2>1, <2>2, <2>3, <2>4 DEF Next
<1> QED
  BY <1>1, InvHolds, PTL DEF Spec, NeverGivenUpEarly
=============================================================================
