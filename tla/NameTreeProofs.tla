--------------------------- MODULE NameTreeProofs ---------------------------
(***************************************************************************)
(* Proofs about NameTree for any names, tables, strategies and lifetimes.  *)
(***************************************************************************)
EXTENDS NameTree, FiniteInduction, FiniteSetTheorems

----------------------------------------------------------------------------
(* Names and their prefixes                                                *)

\* The prefixes of a name.
LEMMA PrefixFacts ==
  ASSUME NEW n \in Names
  PROVE  /\ n \in Seq(Nat) /\ Len(n) \in Nat
         /\ \A i \in 0..Len(n) : /\ SubSeq(n, 1, i) \in Names /\ Len(SubSeq(n, 1, i)) = i
                                 /\ \A j \in 1..i : SubSeq(n, 1, i)[j] = n[j]
<1>1. n \in Seq(Nat) /\ Len(n) \in Nat
  BY NameTreeAssumption
<1>2. ASSUME NEW i \in 0..Len(n)
      PROVE  /\ SubSeq(n, 1, i) \in Names /\ Len(SubSeq(n, 1, i)) = i
             /\ \A j \in 1..i : SubSeq(n, 1, i)[j] = n[j]
  <2>1. SubSeq(n, 1, i) \in Names
    BY NameTreeAssumption
  <2>2. Len(SubSeq(n, 1, i)) = i /\ \A j \in 1..i : SubSeq(n, 1, i)[j] = n[j]
    BY <1>1
  <2> QED
    BY <2>1, <2>2
<1> QED
  BY <1>1, <1>2

\* Two names with the same components are the same.
LEMMA SameName ==
  ASSUME NEW a \in Names, NEW b \in Names, Len(a) = Len(b), \A i \in 1..Len(a) : a[i] = b[i]
  PROVE  a = b
<1>1. a \in Seq(Nat) /\ b \in Seq(Nat)
  BY PrefixFacts
<1> QED
  BY <1>1

\* A prefix by its components.
LEMMA UpToDef ==
  ASSUME NEW n \in Names, NEW a \in Names
  PROVE  a \in UpTo[n] <=> Len(a) <= Len(n) /\ \A i \in 1..Len(a) : a[i] = n[i]
<1>1. a \in Seq(Nat) /\ n \in Seq(Nat) /\ Len(a) \in Nat /\ Len(n) \in Nat
  BY PrefixFacts
<1>2. a \in UpTo[n] <=> Len(a) <= Len(n) /\ SubSeq(a, 1, Len(a)) = SubSeq(n, 1, Len(a))
  BY DEF UpTo, IsPrefix
<1>3. ASSUME Len(a) <= Len(n)
      PROVE  SubSeq(a, 1, Len(a)) = SubSeq(n, 1, Len(a)) <=> \A i \in 1..Len(a) : a[i] = n[i]
  <2> DEFINE s == SubSeq(a, 1, Len(a))
             t == SubSeq(n, 1, Len(a))
  <2>1. /\ s \in Names /\ Len(s) = Len(a) /\ \A i \in 1..Len(a) : s[i] = a[i]
        /\ t \in Names /\ Len(t) = Len(a) /\ \A i \in 1..Len(a) : t[i] = n[i]
    <3>1. Len(a) \in 0..Len(a) /\ Len(a) \in 0..Len(n)
      BY <1>1, <1>3
    <3> QED
      BY <3>1, PrefixFacts
  <2> HIDE DEF s, t
  <2>2. ASSUME \A i \in 1..Len(a) : a[i] = n[i] PROVE s = t
    BY <2>1, <2>2, SameName
  <2>3. ASSUME s = t PROVE \A i \in 1..Len(a) : a[i] = n[i]
    BY <2>1, <2>3
  <2> QED
    BY <2>2, <2>3 DEF s, t
<1> QED
  BY <1>2, <1>3

\* The names above a name form a chain.
LEMMA UpToOrder ==
  ASSUME NEW n \in Names
  PROVE  /\ UpTo[n] \subseteq Names /\ n \in UpTo[n] /\ <<>> \in UpTo[n]
         /\ \A a \in UpTo[n] : Len(a) <= Len(n) /\ UpTo[a] \subseteq UpTo[n]
         /\ \A a, b \in UpTo[n] : Len(a) <= Len(b) => a \in UpTo[b]
         /\ \A a, b \in UpTo[n] : Len(a) = Len(b) => a = b
         /\ \A i \in 0..Len(n) : SubSeq(n, 1, i) \in UpTo[n]
         /\ \A a \in UpTo[n] : SubSeq(n, 1, Len(a)) = a
<1>1. UpTo[n] \subseteq Names /\ \A a \in Names : UpTo[a] \subseteq Names
  BY DEF UpTo
<1>2. \A a \in Names : a \in Seq(Nat) /\ Len(a) \in Nat
  BY PrefixFacts
<1>3. n \in UpTo[n]
  BY <1>2, UpToDef
<1>4. <<>> \in UpTo[n]
  <2>1. <<>> \in Names /\ Len(<<>>) = 0
    BY NameTreeAssumption
  <2> QED
    BY <1>2, <2>1, UpToDef
<1>5. ASSUME NEW a \in UpTo[n] PROVE Len(a) <= Len(n) /\ UpTo[a] \subseteq UpTo[n]
  <2>1. a \in Names /\ Len(a) <= Len(n) /\ \A i \in 1..Len(a) : a[i] = n[i]
    BY <1>1, UpToDef
  <2>2. ASSUME NEW b \in UpTo[a] PROVE b \in UpTo[n]
    <3>1. b \in Names /\ Len(b) <= Len(a) /\ \A i \in 1..Len(b) : b[i] = a[i]
      BY <1>1, <2>1, UpToDef
    <3>2. Len(b) <= Len(n) /\ \A i \in 1..Len(b) : b[i] = n[i]
      BY <1>2, <2>1, <3>1
    <3> QED
      BY <3>1, <3>2, UpToDef
  <2> QED
    BY <2>1, <2>2
<1>6. ASSUME NEW a \in UpTo[n], NEW b \in UpTo[n], Len(a) <= Len(b) PROVE a \in UpTo[b]
  <2>1. /\ a \in Names /\ b \in Names
        /\ \A i \in 1..Len(a) : a[i] = n[i]
        /\ \A i \in 1..Len(b) : b[i] = n[i]
    BY <1>1, UpToDef
  <2>2. \A i \in 1..Len(a) : i \in 1..Len(b)
    BY <1>2, <1>6, <2>1
  <2> QED
    BY <1>6, <2>1, <2>2, UpToDef
<1>7. ASSUME NEW a \in UpTo[n], NEW b \in UpTo[n], Len(a) = Len(b) PROVE a = b
  <2>1. /\ a \in Names /\ b \in Names
        /\ \A i \in 1..Len(a) : a[i] = n[i]
        /\ \A i \in 1..Len(b) : b[i] = n[i]
    BY <1>1, UpToDef
  <2> QED
    BY <1>7, <2>1, SameName
<1>8. ASSUME NEW i \in 0..Len(n) PROVE SubSeq(n, 1, i) \in UpTo[n]
  <2>1. /\ SubSeq(n, 1, i) \in Names /\ Len(SubSeq(n, 1, i)) = i
        /\ \A j \in 1..i : SubSeq(n, 1, i)[j] = n[j]
    BY PrefixFacts
  <2>2. i <= Len(n)
    BY <1>2
  <2> QED
    BY <2>1, <2>2, UpToDef
<1>9. ASSUME NEW a \in UpTo[n] PROVE SubSeq(n, 1, Len(a)) = a
  <2>1. Len(a) \in 0..Len(n)
    BY <1>1, <1>2, <1>5
  <2>2. SubSeq(n, 1, Len(a)) \in UpTo[n] /\ Len(SubSeq(n, 1, Len(a))) = Len(a)
    BY <1>8, <2>1, PrefixFacts
  <2> QED
    BY <1>7, <2>2
<1> QED
  BY <1>1, <1>3, <1>4, <1>5, <1>6, <1>7, <1>8, <1>9

\* The parent of a name.
LEMMA FrontFacts ==
  ASSUME NEW n \in Names, n # <<>>
  PROVE  /\ Front(n) \in UpTo[n] /\ Front(n) \in Names /\ Len(n) > 0
         /\ Len(Front(n)) = Len(n) - 1
         /\ \A a \in UpTo[n] : a # n => a \in UpTo[Front(n)]
<1>1. n \in Seq(Nat) /\ Len(n) \in Nat
  BY PrefixFacts
<1>2. Len(n) > 0
  BY <1>1
<1>3. Front(n) = SubSeq(n, 1, Len(n) - 1) /\ Len(n) - 1 \in 0..Len(n)
  BY <1>1, <1>2 DEF Front
<1>4. Front(n) \in UpTo[n] /\ Front(n) \in Names /\ Len(Front(n)) = Len(n) - 1
  <2> DEFINE i == Len(n) - 1
  <2>1. i \in 0..Len(n) /\ Front(n) = SubSeq(n, 1, i)
    BY <1>3
  <2> HIDE DEF i
  <2>2. SubSeq(n, 1, i) \in UpTo[n] /\ SubSeq(n, 1, i) \in Names /\ Len(SubSeq(n, 1, i)) = i
    BY <2>1, PrefixFacts, UpToOrder
  <2> QED
    BY <2>1, <2>2 DEF i
<1>5. ASSUME NEW a \in UpTo[n], a # n PROVE a \in UpTo[Front(n)]
  <2>1. Len(a) \in Nat /\ Len(a) <= Len(n) /\ Len(a) # Len(n)
    BY <1>5, PrefixFacts, UpToOrder
  <2>2. Len(a) <= Len(Front(n))
    BY <1>1, <1>4, <2>1
  <2> QED
    BY <1>4, <1>5, <2>2, UpToOrder
<1> QED
  BY <1>2, <1>4, <1>5

\* Below a proper prefix comes the next longer one.
LEMMA NextPrefix ==
  ASSUME NEW n \in Names, NEW a \in UpTo[n], a # n
  PROVE  \E b \in UpTo[n] : b # <<>> /\ b \in Names /\ Front(b) = a /\ Len(b) = Len(a) + 1
<1> DEFINE b == SubSeq(n, 1, Len(a) + 1)
<1>1. a \in Names /\ Len(a) \in Nat /\ Len(n) \in Nat /\ Len(a) <= Len(n)
  BY UpToOrder, PrefixFacts
<1>2. Len(a) # Len(n)
  BY UpToOrder
<1>3. Len(a) + 1 \in 0..Len(n)
  BY <1>1, <1>2
<1>4. b \in UpTo[n] /\ b \in Names /\ Len(b) = Len(a) + 1
  BY <1>3, UpToOrder, PrefixFacts
<1> HIDE DEF b
<1>5. b # <<>>
  BY <1>1, <1>4
<1>6. Front(b) \in UpTo[b] /\ Len(Front(b)) = Len(b) - 1
  BY <1>4, <1>5, FrontFacts
<1>7. Front(b) \in UpTo[n] /\ Len(Front(b)) = Len(a)
  <2>1. UpTo[b] \subseteq UpTo[n]
    BY <1>4, UpToOrder
  <2>2. Len(Front(b)) = Len(a)
    BY <1>1, <1>4, <1>6
  <2> QED
    BY <1>6, <2>1, <2>2
<1>8. Front(b) = a
  BY <1>7, UpToOrder
<1> QED
  BY <1>4, <1>5, <1>8

\* The longest of some prefixes of a name.
LEMMA LongestFacts ==
  ASSUME NEW n \in Names, NEW S \in SUBSET UpTo[n], S # {}
  PROVE  /\ Longest(S) \in S /\ \A b \in S : Len(b) <= Len(Longest(S))
         /\ \A a \in S : (\A b \in S : Len(b) <= Len(a)) => a = Longest(S)
<1> DEFINE D == {Len(n) - Len(a) : a \in S}
<1>1. \A a \in S : a \in Names /\ Len(a) \in Nat /\ Len(n) \in Nat /\ Len(a) <= Len(n)
  BY UpToOrder, PrefixFacts
<1>2. D \in SUBSET Nat /\ D # {}
  BY <1>1
<1>3. PICK x \in D : \A y \in D : x <= y
  BY <1>2, SmallestExists
<1>4. PICK a \in S : x = Len(n) - Len(a)
  BY <1>3
<1>5. \A b \in S : Len(b) <= Len(a)
  <2> SUFFICES ASSUME NEW b \in S PROVE Len(b) <= Len(a)
    OBVIOUS
  <2>1. Len(n) - Len(a) <= Len(n) - Len(b)
    BY <1>3, <1>4
  <2> QED
    BY <1>1, <2>1
<1>6. Longest(S) \in S /\ \A b \in S : Len(b) <= Len(Longest(S))
  BY <1>4, <1>5 DEF Longest
<1>7. ASSUME NEW c \in S, \A b \in S : Len(b) <= Len(c) PROVE c = Longest(S)
  <2>1. Len(c) = Len(Longest(S))
    BY <1>1, <1>6, <1>7
  <2> QED
    BY <1>6, <2>1, UpToOrder
<1> QED
  BY <1>6, <1>7

----------------------------------------------------------------------------
(* The tables                                                              *)

IsMeasured(m) ==
  /\ DOMAIN m \subseteq Names
  /\ \A n \in DOMAIN m : m[n] \in [left : Nat, info : SUBSET Strategies]

\* The types of the tables; the root always has a choice.
TableInv ==
  /\ fib \subseteq Names
  /\ DOMAIN pit \subseteq PitKeys /\ \A k \in DOMAIN pit : pit[k] \subseteq Strategies
  /\ IsMeasured(measured)
  /\ DOMAIN choice \subseteq Names /\ <<>> \in DOMAIN choice
  /\ \A n \in DOMAIN choice : choice[n] \in Strategies
  /\ promised \in [Names -> Nat] /\ failed \in BOOLEAN /\ changed \in BOOLEAN

\* Every measurement has its cleanup, and is kept for as long as was promised.
CleanupInv ==
  /\ cleanups = {<<n, measured[n].left>> : n \in DOMAIN measured}
  /\ \A n \in Names : promised[n] > 0 => n \in DOMAIN measured /\ promised[n] <= measured[n].left

\* The names in the tables.
LEMMA ConstantNames ==
  /\ FibNames \subseteq Names /\ ChoiceNames \subseteq Names /\ DataNames \subseteq Names
  /\ \A k \in PitKeys : k[1] \in Names
  /\ INITIAL_LIFETIME \in Nat /\ MEASUREMENTS_LIFETIME \in Nat /\ ME_LIFETIME \in Nat
  BY NameTreeAssumption DEF Lifetimes

\* The strategy in charge of a name is that of its longest prefix with a choice.
LEMMA EffectiveFacts ==
  ASSUME TableInv, NEW n \in Names
  PROVE  /\ Longest(UpTo[n] \intersect DOMAIN choice) \in UpTo[n] \intersect DOMAIN choice
         /\ \A b \in UpTo[n] \intersect DOMAIN choice :
              Len(b) <= Len(Longest(UpTo[n] \intersect DOMAIN choice))
         /\ effective(n) \in Strategies
<1> DEFINE S == UpTo[n] \intersect DOMAIN choice
<1>1. S \in SUBSET UpTo[n] /\ S # {}
  BY UpToOrder DEF TableInv
<1> HIDE DEF S
<1>2. Longest(S) \in S /\ \A b \in S : Len(b) <= Len(Longest(S))
  BY <1>1, LongestFacts
<1> QED
  BY <1>2 DEF S, effective, TableInv

----------------------------------------------------------------------------
(* What strategies do to the measurements                                  *)

\* Measurements m are those there are, with more lifetime, with information of strategy s
\* where it is in charge, and with new entries for names in U.
Grown(m, U, s) ==
  /\ IsMeasured(m) /\ DOMAIN measured \subseteq DOMAIN m
  /\ DOMAIN m \subseteq DOMAIN measured \union U
  /\ \A x \in DOMAIN measured :
       m[x].left >= measured[x].left /\ measured[x].info \subseteq m[x].info
  /\ \A x \in DOMAIN m : \A i \in m[x].info :
       \/ x \in DOMAIN measured /\ i \in measured[x].info
       \/ i = s /\ effective(x) = s

\* New entries have the initial lifetime.
LEMMA GottenFacts ==
  ASSUME TableInv, NEW N \in SUBSET Names, NEW U, N \subseteq U, NEW s
  PROVE  /\ Grown(gotten(measured, N), U, s)
         /\ DOMAIN gotten(measured, N) = DOMAIN measured \union N
         /\ \A x \in DOMAIN gotten(measured, N) \ DOMAIN measured :
              /\ gotten(measured, N)[x].left = INITIAL_LIFETIME
              /\ gotten(measured, N)[x].info = {}
<1> DEFINE m == gotten(measured, N)
<1>1. /\ DOMAIN m = DOMAIN measured \union N
      /\ \A x \in DOMAIN measured : m[x] = measured[x]
      /\ \A x \in DOMAIN m \ DOMAIN measured : m[x] = [left |-> INITIAL_LIFETIME, info |-> {}]
  BY DEF gotten
<1> HIDE DEF m
<1>2. INITIAL_LIFETIME \in Nat
  BY ConstantNames
<1>3. IsMeasured(m)
  <2>1. DOMAIN m \subseteq Names
    BY <1>1 DEF TableInv, IsMeasured
  <2>2. ASSUME NEW x \in DOMAIN m PROVE m[x] \in [left : Nat, info : SUBSET Strategies]
    BY <1>1, <1>2 DEF TableInv, IsMeasured
  <2> QED
    BY <2>1, <2>2 DEF IsMeasured
<1>4. \A x \in DOMAIN measured : measured[x].left \in Nat
  BY DEF TableInv, IsMeasured
<1>5. \A x \in DOMAIN m \ DOMAIN measured : m[x].left = INITIAL_LIFETIME /\ m[x].info = {}
  BY <1>1
<1>6. Grown(m, U, s)
  <2>1. \A x \in DOMAIN measured :
          m[x].left >= measured[x].left /\ measured[x].info \subseteq m[x].info
    BY <1>1, <1>4
  <2>2. \A x \in DOMAIN m : \A i \in m[x].info : x \in DOMAIN measured /\ i \in measured[x].info
    BY <1>1, <1>5
  <2> QED
    BY <1>1, <1>3, <2>1, <2>2 DEF Grown
<1> QED
  BY <1>1, <1>5, <1>6 DEF m

\* Information is added for names that the strategy is in charge of.
LEMMA InformedFacts ==
  ASSUME TableInv, NEW m, NEW U, NEW s \in Strategies, Grown(m, U, s), NEW N,
         \A x \in N : effective(x) = s
  PROVE  /\ Grown(informed(m, N, s), U, s) /\ DOMAIN informed(m, N, s) = DOMAIN m
         /\ \A x \in DOMAIN m : informed(m, N, s)[x].left = m[x].left
         /\ \A x \in N \intersect DOMAIN m : s \in informed(m, N, s)[x].info
<1> DEFINE d == informed(m, N, s)
<1>1. /\ DOMAIN d = DOMAIN m
      /\ \A x \in DOMAIN m : x \notin N => d[x] = m[x]
      /\ \A x \in DOMAIN m : x \in N => d[x] = [m[x] EXCEPT !.info = m[x].info \union {s}]
  BY DEF informed
<1> HIDE DEF d
<1>2. \A x \in DOMAIN m : m[x] \in [left : Nat, info : SUBSET Strategies]
  BY DEF Grown, IsMeasured
<1>3. \A x \in DOMAIN m : x \in N =>
        /\ d[x] \in [left : Nat, info : SUBSET Strategies]
        /\ d[x].left = m[x].left /\ d[x].info = m[x].info \union {s}
  BY <1>1, <1>2
<1>4. \A x \in DOMAIN m : /\ d[x] \in [left : Nat, info : SUBSET Strategies]
                          /\ d[x].left = m[x].left /\ m[x].info \subseteq d[x].info
  BY <1>1, <1>2, <1>3
<1>5. \A x \in DOMAIN m : \A i \in d[x].info : i \in m[x].info \/ (i = s /\ effective(x) = s)
  BY <1>1, <1>3
<1>6. IsMeasured(d)
  BY <1>1, <1>4 DEF Grown, IsMeasured
<1>7. \A x \in DOMAIN measured :
        d[x].left >= measured[x].left /\ measured[x].info \subseteq d[x].info
  BY <1>4 DEF Grown
<1>8. \A x \in DOMAIN d : \A i \in d[x].info :
        \/ x \in DOMAIN measured /\ i \in measured[x].info
        \/ i = s /\ effective(x) = s
  BY <1>1, <1>5 DEF Grown
<1>9. Grown(d, U, s)
  BY <1>1, <1>6, <1>7, <1>8 DEF Grown
<1> QED
  BY <1>1, <1>3, <1>4, <1>9 DEF d

\* A lifetime is only ever extended.
LEMMA ExtendedFacts ==
  ASSUME TableInv, NEW m, NEW U, NEW s, Grown(m, U, s), NEW N, NEW l \in Nat
  PROVE  /\ Grown(extended(m, N, l), U, s) /\ DOMAIN extended(m, N, l) = DOMAIN m
         /\ \A x \in DOMAIN m : extended(m, N, l)[x].left >= m[x].left
         /\ \A x \in N \intersect DOMAIN m : extended(m, N, l)[x].left >= l
         /\ \A x \in DOMAIN m : extended(m, N, l)[x].info = m[x].info
<1> DEFINE d == extended(m, N, l)
           c(x) == x \in N /\ m[x].left < l
<1>1. /\ DOMAIN d = DOMAIN m
      /\ \A x \in DOMAIN m : ~c(x) => d[x] = m[x]
      /\ \A x \in DOMAIN m : c(x) => d[x] = [m[x] EXCEPT !.left = l]
  BY DEF extended
<1> HIDE DEF d
<1>2. \A x \in DOMAIN m : m[x] \in [left : Nat, info : SUBSET Strategies] /\ m[x].left \in Nat
  BY DEF Grown, IsMeasured
<1>3. \A x \in DOMAIN m : c(x) =>
        /\ d[x] \in [left : Nat, info : SUBSET Strategies]
        /\ d[x].left = l /\ d[x].info = m[x].info
  BY <1>1, <1>2
<1>4. \A x \in DOMAIN m : /\ d[x] \in [left : Nat, info : SUBSET Strategies]
                          /\ d[x].left >= m[x].left /\ d[x].info = m[x].info
                          /\ d[x].left \in Nat
  BY <1>1, <1>2, <1>3
<1>5. \A x \in N \intersect DOMAIN m : d[x].left >= l
  BY <1>1, <1>2, <1>3
<1>6. IsMeasured(d)
  BY <1>1, <1>4 DEF Grown, IsMeasured
<1>7. \A x \in DOMAIN measured : measured[x].left \in Nat /\ x \in DOMAIN m
  BY DEF Grown, TableInv, IsMeasured
<1>8. \A x \in DOMAIN measured : d[x].left >= measured[x].left
  BY <1>2, <1>4, <1>7 DEF Grown
<1>9. \A x \in DOMAIN measured : measured[x].info \subseteq d[x].info
  BY <1>4, <1>7 DEF Grown
<1>10. Grown(d, U, s)
  BY <1>1, <1>4, <1>6, <1>8, <1>9 DEF Grown
<1> QED
  BY <1>1, <1>4, <1>5, <1>10 DEF d

\* The entries that NccStrategy looks up for some prefixes of a name are prefixes of it.
LEMMA ParentsAbove ==
  ASSUME NEW n \in Names, NEW N \in SUBSET UpTo[n]
  PROVE  {n} \union parents(N) \subseteq UpTo[n]
<1> SUFFICES ASSUME NEW a \in N \ {<<>>} PROVE Front(a) \in UpTo[n]
  BY UpToOrder DEF parents
<1>1. a \in Names /\ UpTo[a] \subseteq UpTo[n]
  BY UpToOrder
<1> QED
  BY <1>1, FrontFacts

\* NccStrategy when an Interest is received.
LEMMA NccReceivedFacts ==
  ASSUME TableInv, NEW n \in Names, "ncc" \in Strategies
  PROVE  /\ Grown(nccReceived(n), UpTo[n], "ncc")
         /\ \A x \in DOMAIN nccReceived(n) \ DOMAIN measured :
              /\ nccReceived(n)[x].left = INITIAL_LIFETIME
              /\ \/ x = n \/ effective(x) = "ncc"
                 \/ \E a \in UpTo[n] : a # <<>> /\ x = Front(a) /\ effective(a) = "ncc"
<1> DEFINE N == uninformed(measured, n)
           M == {n} \union parents(N)
           g == gotten(measured, M)
<1>1. N \in SUBSET UpTo[n] /\ \A x \in N : effective(x) = "ncc"
  BY DEF uninformed
<1>2. M \in SUBSET Names /\ M \subseteq UpTo[n]
  BY <1>1, ParentsAbove, UpToOrder
<1>3. \A x \in M : \/ x = n \/ effective(x) = "ncc"
                    \/ \E a \in UpTo[n] : a # <<>> /\ x = Front(a) /\ effective(a) = "ncc"
  BY <1>1 DEF parents
<1>5. nccReceived(n) = informed(g, N, "ncc")
  BY DEF nccReceived
<1> HIDE DEF N, M
<1>6. /\ Grown(g, UpTo[n], "ncc") /\ DOMAIN g = DOMAIN measured \union M
      /\ \A x \in DOMAIN g \ DOMAIN measured : g[x].left = INITIAL_LIFETIME
  BY <1>2, GottenFacts
<1> HIDE DEF g
<1>7. /\ Grown(informed(g, N, "ncc"), UpTo[n], "ncc") /\ DOMAIN informed(g, N, "ncc") = DOMAIN g
      /\ \A x \in DOMAIN g : informed(g, N, "ncc")[x].left = g[x].left
  BY <1>1, <1>6, InformedFacts
<1> QED
  BY <1>3, <1>5, <1>6, <1>7

\* The levels that NccStrategy visits are entries that it looks up.
LEMMA LevelsVisited ==
  ASSUME NEW n \in Names, NEW N, levels(n) \subseteq N
  PROVE  levels(n) \subseteq {n} \union parents(N)
<1> SUFFICES ASSUME NEW a \in levels(n), a # n PROVE a \in parents(N)
  OBVIOUS
<1>1. /\ a \in UpTo[n] /\ Len(n) - Len(a) < UPDATE_MEASUREMENTS_N_LEVELS
      /\ \A b \in UpTo[n] : Len(b) >= Len(a) => effective(b) = "ncc"
  BY DEF levels
<1>2. PICK b \in UpTo[n] : b # <<>> /\ b \in Names /\ Front(b) = a /\ Len(b) = Len(a) + 1
  BY <1>1, NextPrefix
<1>3. Len(a) \in Nat /\ Len(b) \in Nat /\ Len(n) \in Nat
  BY <1>1, PrefixFacts, UpToOrder
<1>4. b \in levels(n)
  <2>1. UPDATE_MEASUREMENTS_N_LEVELS \in Nat
    BY NameTreeAssumption
  <2>2. Len(n) - Len(b) < UPDATE_MEASUREMENTS_N_LEVELS
    BY <1>1, <1>2, <1>3, <2>1
  <2>3. \A c \in UpTo[n] : Len(c) \in Nat
    BY PrefixFacts, UpToOrder
  <2>4. \A c \in UpTo[n] : Len(c) >= Len(b) => effective(c) = "ncc"
    BY <1>1, <1>2, <1>3, <2>3
  <2> QED
    BY <2>2, <2>4 DEF levels
<1> QED
  BY <1>2, <1>4 DEF parents

\* NccStrategy when an Interest is satisfied or times out.
LEMMA NccUpdatedFacts ==
  ASSUME TableInv, NEW n \in Names, effective(n) = "ncc"
  PROVE  /\ Grown(nccUpdated(n), UpTo[n], "ncc")
         /\ levels(n) \subseteq DOMAIN nccUpdated(n)
         /\ \A x \in levels(n) : nccUpdated(n)[x].left >= MEASUREMENTS_LIFETIME
         /\ \A x \in DOMAIN nccUpdated(n) \ DOMAIN measured :
              effective(x) = "ncc" \/ \E a \in UpTo[n] : a # <<>> /\ x = Front(a)
                                                         /\ effective(a) = "ncc"
<1> DEFINE L == levels(n)
           N == L \union UNION {uninformed(measured, a) : a \in L}
           M == {n} \union parents(N)
           g == gotten(measured, M)
           i == informed(g, N, "ncc")
<1>1. L \subseteq UpTo[n]
  BY DEF levels
<1>2. \A x \in L : effective(x) = "ncc"
  BY DEF levels
<1>3. \A a \in L : /\ uninformed(measured, a) \subseteq UpTo[n]
                   /\ \A x \in uninformed(measured, a) : effective(x) = "ncc"
  <2> SUFFICES ASSUME NEW a \in L
               PROVE  /\ uninformed(measured, a) \subseteq UpTo[n]
                      /\ \A x \in uninformed(measured, a) : effective(x) = "ncc"
    OBVIOUS
  <2>1. a \in UpTo[n] /\ UpTo[a] \subseteq UpTo[n]
    BY <1>1, UpToOrder
  <2> HIDE DEF L
  <2> QED
    BY <2>1 DEF uninformed
<1> HIDE DEF L
<1>4. N \in SUBSET UpTo[n] /\ L \subseteq N /\ \A x \in N : effective(x) = "ncc"
  BY <1>1, <1>2, <1>3
<1>5. nccUpdated(n) = extended(i, L, MEASUREMENTS_LIFETIME)
  BY DEF nccUpdated, L
<1> HIDE DEF N
<1>6. M \in SUBSET Names /\ M \subseteq UpTo[n]
  BY <1>4, ParentsAbove, UpToOrder
<1>7. L \subseteq M
  BY <1>4, LevelsVisited DEF L
<1>8. \A x \in M : effective(x) = "ncc" \/ \E a \in UpTo[n] : a # <<>> /\ x = Front(a)
                                                               /\ effective(a) = "ncc"
  BY <1>4 DEF parents
<1>9. "ncc" \in Strategies /\ MEASUREMENTS_LIFETIME \in Nat
  BY EffectiveFacts, ConstantNames
<1> HIDE DEF M
<1>10. Grown(g, UpTo[n], "ncc") /\ DOMAIN g = DOMAIN measured \union M
  BY <1>6, GottenFacts
<1> HIDE DEF g
<1>11. Grown(i, UpTo[n], "ncc") /\ DOMAIN i = DOMAIN g
  BY <1>4, <1>9, <1>10, InformedFacts
<1> HIDE DEF i
<1>12. /\ Grown(nccUpdated(n), UpTo[n], "ncc") /\ DOMAIN nccUpdated(n) = DOMAIN i
       /\ \A x \in L \intersect DOMAIN i : nccUpdated(n)[x].left >= MEASUREMENTS_LIFETIME
  BY <1>5, <1>9, <1>11, ExtendedFacts
<1> QED
  BY <1>7, <1>8, <1>10, <1>11, <1>12 DEF L

\* Where AccessStrategy looks for the measurements of Data.
LEMMA AccessNames ==
  ASSUME NEW d \in Names
  PROVE  /\ prefixOf(d) \in UpTo[d] /\ measuredFor(d) \in UpTo[d] /\ measuredFor(d) \in Names
         /\ lookedUp(d) \subseteq UpTo[measuredFor(d)] /\ measuredFor(d) \in lookedUp(d)
<1>1. prefixOf(d) \in UpTo[d] /\ prefixOf(d) \in Names
  <2>1. CASE d = <<>>
    BY <2>1, UpToOrder DEF prefixOf
  <2>2. CASE d # <<>>
    BY <2>2, FrontFacts DEF prefixOf
  <2> QED
    BY <2>1, <2>2
<1>2. measuredFor(d) \in {prefixOf(d), d}
  BY DEF measuredFor
<1>3. measuredFor(d) \in UpTo[d] /\ measuredFor(d) \in Names
  BY <1>1, <1>2, UpToOrder
<1>4. prefixOf(d) \in UpTo[measuredFor(d)] /\ measuredFor(d) \in UpTo[measuredFor(d)]
  BY <1>1, <1>2, <1>3, UpToOrder
<1> QED
  BY <1>1, <1>3, <1>4 DEF lookedUp

\* AccessStrategy when an Interest is satisfied by Data in its namespace.
LEMMA AccessUpdatedFacts ==
  ASSUME TableInv, NEW d \in Names, NEW at, at = measuredFor(d), effective(at) = "access",
         NEW m, m = informed(extended(gotten(measured, lookedUp(d)), {at}, ME_LIFETIME), {at}, "access")
  PROVE  /\ Grown(m, UpTo[at], "access") /\ at \in DOMAIN m /\ m[at].left >= ME_LIFETIME
         /\ "access" \in m[at].info /\ DOMAIN m = DOMAIN measured \union lookedUp(d)
<1> DEFINE g == gotten(measured, lookedUp(d))
           e == extended(g, {at}, ME_LIFETIME)
<1>1. at \in Names /\ lookedUp(d) \subseteq UpTo[at] /\ at \in lookedUp(d)
  BY AccessNames
<1>2. lookedUp(d) \in SUBSET Names /\ "access" \in Strategies /\ ME_LIFETIME \in Nat
  <2>1. UpTo[at] \subseteq Names
    BY <1>1, UpToOrder
  <2>2. effective(at) \in Strategies
    BY <1>1, EffectiveFacts
  <2>3. ME_LIFETIME \in Nat
    BY ConstantNames
  <2> QED
    BY <1>1, <2>1, <2>2, <2>3
<1>3. Grown(g, UpTo[at], "access") /\ DOMAIN g = DOMAIN measured \union lookedUp(d)
  BY <1>1, <1>2, GottenFacts
<1> HIDE DEF g
<1>4. /\ Grown(e, UpTo[at], "access") /\ DOMAIN e = DOMAIN g
      /\ \A x \in {at} \intersect DOMAIN g : e[x].left >= ME_LIFETIME
  BY <1>2, <1>3, ExtendedFacts
<1>5. m = informed(e, {at}, "access")
  BY DEF e, g
<1> HIDE DEF e
<1>6. /\ Grown(m, UpTo[at], "access") /\ DOMAIN m = DOMAIN e
      /\ \A x \in DOMAIN e : m[x].left = e[x].left
      /\ \A x \in {at} \intersect DOMAIN e : "access" \in m[x].info
  <2> DEFINE N == {at}
             U == UpTo[at]
             i == informed(e, N, "access")
  <2>1. \A x \in N : effective(x) = "access"
    OBVIOUS
  <2>2. Grown(e, U, "access")
    BY <1>4
  <2> HIDE DEF N, U
  <2>3. /\ Grown(i, U, "access") /\ DOMAIN i = DOMAIN e
        /\ \A x \in DOMAIN e : i[x].left = e[x].left
        /\ \A x \in N \intersect DOMAIN e : "access" \in i[x].info
    BY <1>2, <2>1, <2>2, InformedFacts
  <2>4. m = i
    BY <1>5 DEF N
  <2> QED
    BY <2>3, <2>4 DEF N, U
<1> QED
  BY <1>1, <1>3, <1>4, <1>6

----------------------------------------------------------------------------
(* Cleanups                                                                *)

\* Measuring keeps the cleanups in step, and promises only what it gives.
LEMMA MeasureCleanups ==
  ASSUME TableInv, CleanupInv, NEW m, NEW U, NEW s, Grown(m, U, s), Measure(m),
         NEW N, NEW l \in Nat, Promise(N, l),
         \A x \in N : x \in DOMAIN m /\ m[x].left >= l
  PROVE  CleanupInv' /\ IsMeasured(measured') /\ promised' \in [Names -> Nat]
<1> DEFINE moved == {n \in DOMAIN m : n \in DOMAIN measured => measured[n].left # m[n].left}
<1>1. /\ measured' = m
      /\ cleanups' = {c \in cleanups : ~(c[1] \in moved /\ c[2] = measured[c[1]].left)}
                       \union {<<n, m[n].left>> : n \in moved}
  BY DEF Measure
<1>2. \A n \in DOMAIN measured : n \in DOMAIN m
  BY DEF Grown
<1>3. cleanups = {<<n, measured[n].left>> : n \in DOMAIN measured}
  BY DEF CleanupInv
<1>4. cleanups' \subseteq {<<n, m[n].left>> : n \in DOMAIN m}
  BY <1>1, <1>2, <1>3
<1>5. ASSUME NEW n \in DOMAIN m PROVE <<n, m[n].left>> \in cleanups'
  <2>1. CASE n \in moved
    BY <1>1, <2>1
  <2>2. CASE n \notin moved
    <3>1. n \in DOMAIN measured /\ measured[n].left = m[n].left
      BY <2>2
    <3>2. <<n, m[n].left>> \in cleanups
      BY <1>3, <3>1
    <3> QED
      BY <1>1, <2>2, <3>2
  <2> QED
    BY <2>1, <2>2
<1>6. cleanups' = {<<n, measured'[n].left>> : n \in DOMAIN measured'}
  BY <1>1, <1>4, <1>5
<1>7. IsMeasured(m) /\ \A n \in DOMAIN m : m[n].left \in Nat
  BY DEF Grown, IsMeasured
<1>8. promised \in [Names -> Nat]
      /\ promised' = [n \in Names |-> IF n \in N /\ promised[n] < l THEN l ELSE promised[n]]
  BY DEF TableInv, Promise
<1>9. ASSUME NEW n \in Names, promised'[n] > 0
      PROVE  n \in DOMAIN m /\ promised'[n] <= m[n].left
  <2>1. CASE n \in N /\ promised[n] < l
    BY <1>8, <2>1
  <2>2. CASE ~(n \in N /\ promised[n] < l)
    <3>1. promised'[n] = promised[n]
      BY <1>8, <2>2
    <3>2. n \in DOMAIN measured /\ promised[n] <= measured[n].left
      BY <1>9, <3>1 DEF CleanupInv
    <3>3. measured[n].left \in Nat /\ m[n].left >= measured[n].left
      BY <3>2 DEF Grown, TableInv, IsMeasured
    <3> QED
      BY <1>2, <1>7, <1>8, <3>1, <3>2, <3>3
  <2> QED
    BY <2>1, <2>2
<1> HIDE DEF moved
<1>10. promised' \in [Names -> Nat]
  BY <1>8
<1> QED
  BY <1>1, <1>6, <1>7, <1>9, <1>10 DEF CleanupInv

----------------------------------------------------------------------------
(* Every step keeps the tables and the cleanups                            *)

\* Information in a PIT entry.
LEMMA PitWithFacts ==
  ASSUME TableInv, NEW k \in PitKeys, NEW S \in SUBSET Strategies
  PROVE  /\ DOMAIN pitWith(k, S) = DOMAIN pit \union {k}
         /\ \A l \in DOMAIN pitWith(k, S) :
              /\ pitWith(k, S)[l] \subseteq Strategies
              /\ \A i \in pitWith(k, S)[l] : (l \in DOMAIN pit /\ i \in pit[l]) \/ (l = k /\ i \in S)
<1> DEFINE p == pitWith(k, S)
<1>1. DOMAIN p = DOMAIN pit \union {k}
  BY DEF pitWith
<1>2. \A l \in DOMAIN p :
        p[l] = (IF l \in DOMAIN pit THEN pit[l] ELSE {}) \union (IF l = k THEN S ELSE {})
  BY DEF pitWith
<1> HIDE DEF p
<1>3. ASSUME NEW l \in DOMAIN p PROVE p[l] \subseteq Strategies
  BY <1>2 DEF TableInv
<1>4. ASSUME NEW l \in DOMAIN p, NEW i \in p[l]
      PROVE  (l \in DOMAIN pit /\ i \in pit[l]) \/ (l = k /\ i \in S)
  BY <1>2, <1>4
<1> QED
  BY <1>1, <1>3, <1>4 DEF p

\* A change of strategy takes information away and leaves the lifetimes alone.
LEMMA ChangeStrategyFacts ==
  ASSUME TableInv, NEW n, NEW old, NEW new, changeStrategy(n, old, new)
  PROVE  /\ DOMAIN pit' = DOMAIN pit /\ \A k \in DOMAIN pit : pit'[k] \subseteq pit[k]
         /\ IsMeasured(measured') /\ DOMAIN measured' = DOMAIN measured
         /\ \A m \in DOMAIN measured : /\ measured'[m].left = measured[m].left
                                       /\ measured'[m].info \subseteq measured[m].info
         /\ changed' \in BOOLEAN
<1> DEFINE region == IF old = new THEN {} ELSE covered(n)
<1>1. /\ pit' = [k \in DOMAIN pit |-> IF k[1] \in region THEN {} ELSE pit[k]]
      /\ measured' = [m \in DOMAIN measured |->
                        IF m \in region THEN [measured[m] EXCEPT !.info = {}] ELSE measured[m]]
      /\ changed' = (changed \/ (old # new /\ DOMAIN measured # {}))
  BY Zenon DEF changeStrategy
<1> HIDE DEF region
<1>2. DOMAIN pit' = DOMAIN pit /\ \A k \in DOMAIN pit : pit'[k] \subseteq pit[k]
  BY <1>1
<1>3. \A m \in DOMAIN measured : measured[m] \in [left : Nat, info : SUBSET Strategies]
  BY DEF TableInv, IsMeasured
<1>4. DOMAIN measured' = DOMAIN measured
  BY <1>1
<1>5. ASSUME NEW m \in DOMAIN measured
      PROVE  /\ measured'[m] \in [left : Nat, info : SUBSET Strategies]
             /\ measured'[m].left = measured[m].left
             /\ measured'[m].info \subseteq measured[m].info
  <2>1. CASE m \in region
    <3>1. measured'[m] = [measured[m] EXCEPT !.info = {}]
      BY <1>1, <2>1
    <3> QED
      BY <1>3, <3>1
  <2>2. CASE m \notin region
    BY <1>1, <1>3, <2>2
  <2> QED
    BY <2>1, <2>2
<1>6. IsMeasured(measured')
  BY <1>4, <1>5 DEF TableInv, IsMeasured
<1>7. changed' \in BOOLEAN
  BY <1>1 DEF TableInv
<1> QED
  BY <1>2, <1>4, <1>5, <1>6, <1>7

\* Measurements with the same lifetimes have the same cleanups.
LEMMA SameCleanups ==
  ASSUME CleanupInv, UNCHANGED <<cleanups, promised>>, DOMAIN measured' = DOMAIN measured,
         \A m \in DOMAIN measured : measured'[m].left = measured[m].left
  PROVE  CleanupInv'
<1>1. cleanups' = {<<n, measured'[n].left>> : n \in DOMAIN measured'}
  BY DEF CleanupInv
<1>2. \A n \in Names : promised'[n] > 0 => n \in DOMAIN measured' /\ promised'[n] <= measured'[n].left
  BY DEF CleanupInv
<1> QED
  BY <1>1, <1>2 DEF CleanupInv

\* Strategy choices.
LEMMA ChoiceInsertTables ==
  ASSUME TableInv, CleanupInv, NEW n \in ChoiceNames, NEW s \in Strategies, ChoiceInsert(n, s)
  PROVE  TableInv' /\ CleanupInv'
<1>1. PICK old : changeStrategy(n, old, s)
  BY Zenon DEF ChoiceInsert
<1>2. /\ choice' = [c \in DOMAIN choice \union {n} |-> IF c = n THEN s ELSE choice[c]]
      /\ UNCHANGED <<fib, cleanups, failed, promised>> /\ n \in Names
  BY ConstantNames DEF ChoiceInsert
<1>3. /\ DOMAIN pit' = DOMAIN pit /\ \A k \in DOMAIN pit : pit'[k] \subseteq pit[k]
      /\ IsMeasured(measured') /\ DOMAIN measured' = DOMAIN measured
      /\ \A m \in DOMAIN measured : measured'[m].left = measured[m].left
      /\ changed' \in BOOLEAN
  BY <1>1, ChangeStrategyFacts
<1>4. CleanupInv'
  BY <1>2, <1>3, SameCleanups
<1>5. DOMAIN choice' \subseteq Names /\ <<>> \in DOMAIN choice'
      /\ \A c \in DOMAIN choice' : choice'[c] \in Strategies
  BY <1>2 DEF TableInv
<1>6. DOMAIN pit' \subseteq PitKeys /\ \A k \in DOMAIN pit' : pit'[k] \subseteq Strategies
  BY <1>3 DEF TableInv
<1> QED
  BY <1>2, <1>3, <1>4, <1>5, <1>6 DEF TableInv

\* The choice of the root is never erased.
LEMMA ChoiceEraseTables ==
  ASSUME TableInv, CleanupInv, NEW n \in ChoiceNames, ChoiceErase(n)
  PROVE  TableInv' /\ CleanupInv'
<1>1. PICK new : changeStrategy(n, choice[n], new)
  BY Zenon DEF ChoiceErase
<1>2. /\ choice' = [c \in DOMAIN choice \ {n} |-> choice[c]] /\ n # <<>>
      /\ UNCHANGED <<fib, cleanups, failed, promised>>
  BY DEF ChoiceErase
<1>3. /\ DOMAIN pit' = DOMAIN pit /\ \A k \in DOMAIN pit : pit'[k] \subseteq pit[k]
      /\ IsMeasured(measured') /\ DOMAIN measured' = DOMAIN measured
      /\ \A m \in DOMAIN measured : measured'[m].left = measured[m].left
      /\ changed' \in BOOLEAN
  BY <1>1, ChangeStrategyFacts
<1>4. CleanupInv'
  BY <1>2, <1>3, SameCleanups
<1>5. DOMAIN choice' \subseteq Names /\ <<>> \in DOMAIN choice'
      /\ \A c \in DOMAIN choice' : choice'[c] \in Strategies
  BY <1>2 DEF TableInv
<1>6. DOMAIN pit' \subseteq PitKeys /\ \A k \in DOMAIN pit' : pit'[k] \subseteq Strategies
  BY <1>3 DEF TableInv
<1> QED
  BY <1>2, <1>3, <1>4, <1>5, <1>6 DEF TableInv

\* A cleanup runs when the measurements have expired, and no sooner.
LEMMA CleanupTables ==
  ASSUME TableInv, CleanupInv, NEW c \in cleanups, Cleanup(c)
  PROVE  TableInv' /\ CleanupInv'
<1>1. PICK n \in DOMAIN measured : c = <<n, measured[n].left>>
  BY DEF CleanupInv
<1>2. /\ measured[n].left = 0 /\ n \in Names /\ cleanups' = cleanups \ {c}
      /\ measured' = [x \in DOMAIN measured \ {n} |-> measured[x]]
      /\ UNCHANGED <<fib, pit, choice, failed, promised, changed>>
  BY <1>1 DEF Cleanup, TableInv, IsMeasured
<1>3. IsMeasured(measured')
  BY <1>2 DEF TableInv, IsMeasured
<1>4. cleanups' = {<<x, measured'[x].left>> : x \in DOMAIN measured'}
  BY <1>1, <1>2 DEF CleanupInv
<1>5. ASSUME NEW x \in Names, promised'[x] > 0
      PROVE  x \in DOMAIN measured' /\ promised'[x] <= measured'[x].left
  <2>1. x \in DOMAIN measured /\ promised[x] <= measured[x].left /\ promised[x] \in Nat
    BY <1>2, <1>5 DEF CleanupInv, TableInv
  <2>2. x # n
    BY <1>2, <1>5, <2>1
  <2> QED
    BY <1>2, <2>1, <2>2
<1>6. CleanupInv'
  BY <1>4, <1>5 DEF CleanupInv
<1> QED
  BY <1>2, <1>3, <1>6 DEF TableInv

\* Time passes for measurements, cleanups and promises alike.
LEMMA TickTables ==
  ASSUME TableInv, CleanupInv, Tick
  PROVE  TableInv' /\ CleanupInv'
<1>1. /\ \A c \in cleanups : c[2] > 0
      /\ cleanups' = {<<c[1], c[2] - 1>> : c \in cleanups}
      /\ measured' = [n \in DOMAIN measured |-> [measured[n] EXCEPT !.left = measured[n].left - 1]]
      /\ promised' = [n \in Names |-> IF promised[n] > 0 THEN promised[n] - 1 ELSE 0]
      /\ UNCHANGED <<tree, fib, pit, choice, failed, changed>>
  BY DEF Tick
<1>2. cleanups = {<<n, measured[n].left>> : n \in DOMAIN measured}
  BY DEF CleanupInv
<1>3. \A n \in DOMAIN measured : measured[n] \in [left : Nat, info : SUBSET Strategies]
  BY DEF TableInv, IsMeasured
<1>4. ASSUME NEW n \in DOMAIN measured PROVE measured[n].left > 0
  <2>1. <<n, measured[n].left>> \in cleanups
    BY <1>2
  <2>2. <<n, measured[n].left>>[2] > 0
    BY <1>1, <2>1
  <2> QED
    BY <2>2
<1>5. DOMAIN measured' = DOMAIN measured
  BY <1>1
<1>6. ASSUME NEW n \in DOMAIN measured
      PROVE  /\ measured'[n] \in [left : Nat, info : SUBSET Strategies]
             /\ measured'[n].left = measured[n].left - 1
  <2>1. measured'[n] = [measured[n] EXCEPT !.left = measured[n].left - 1]
    BY <1>1
  <2>2. measured[n].left - 1 \in Nat
    BY <1>3, <1>4
  <2> QED
    BY <1>3, <2>1, <2>2
<1>7. IsMeasured(measured')
  BY <1>5, <1>6 DEF TableInv, IsMeasured
<1>8. cleanups' = {<<n, measured[n].left - 1>> : n \in DOMAIN measured}
  <2>1. ASSUME NEW x \in cleanups'
        PROVE  x \in {<<n, measured[n].left - 1>> : n \in DOMAIN measured}
    <3>1. PICK c \in cleanups : x = <<c[1], c[2] - 1>>
      BY <1>1, <2>1
    <3>2. PICK n \in DOMAIN measured : c = <<n, measured[n].left>>
      BY <1>2, <3>1
    <3>3. x = <<n, measured[n].left - 1>>
      BY <3>1, <3>2
    <3> QED
      BY <3>3
  <2>2. ASSUME NEW n \in DOMAIN measured PROVE <<n, measured[n].left - 1>> \in cleanups'
    <3> DEFINE c == <<n, measured[n].left>>
    <3>1. c \in cleanups /\ c[1] = n /\ c[2] = measured[n].left
      BY <1>2
    <3> HIDE DEF c
    <3>2. <<c[1], c[2] - 1>> \in cleanups'
      BY <1>1, <3>1
    <3> QED
      BY <3>1, <3>2
  <2> QED
    BY <2>1, <2>2
<1>9. cleanups' = {<<n, measured'[n].left>> : n \in DOMAIN measured'}
  BY <1>5, <1>6, <1>8
<1>10. promised' \in [Names -> Nat]
  BY <1>1 DEF TableInv
<1>11. ASSUME NEW n \in Names, promised'[n] > 0
       PROVE  n \in DOMAIN measured' /\ promised'[n] <= measured'[n].left
  <2>1. promised[n] \in Nat /\ promised[n] > 0 /\ promised'[n] = promised[n] - 1
    BY <1>1, <1>11 DEF TableInv
  <2>2. n \in DOMAIN measured /\ promised[n] <= measured[n].left
    BY <2>1 DEF CleanupInv
  <2>3. measured[n].left \in Nat /\ measured'[n].left = measured[n].left - 1
    BY <1>3, <1>6, <2>2
  <2> QED
    BY <1>5, <2>1, <2>2, <2>3
<1>12. CleanupInv'
  BY <1>9, <1>11 DEF CleanupInv
<1> QED
  BY <1>1, <1>7, <1>10, <1>12 DEF TableInv

\* NccStrategy: the measurements of an Interest.
LEMMA NccReceivedTables ==
  ASSUME TableInv, CleanupInv, NEW n \in Names, "ncc" \in Strategies, Measure(nccReceived(n)),
         Promise(DOMAIN measured' \ DOMAIN measured, INITIAL_LIFETIME)
  PROVE  CleanupInv' /\ IsMeasured(measured') /\ promised' \in [Names -> Nat]
<1> DEFINE m == nccReceived(n)
           N == DOMAIN measured' \ DOMAIN measured
           U == UpTo[n]
<1>1. Grown(m, U, "ncc") /\ \A x \in DOMAIN m \ DOMAIN measured : m[x].left = INITIAL_LIFETIME
  BY NccReceivedFacts
<1>2. Measure(m) /\ measured' = m /\ Promise(N, INITIAL_LIFETIME)
  BY DEF Measure
<1>3. INITIAL_LIFETIME \in Nat
  BY ConstantNames
<1> HIDE DEF m, U
<1>4. \A x \in N : x \in DOMAIN m /\ m[x].left >= INITIAL_LIFETIME
  BY <1>1, <1>2, <1>3
<1> HIDE DEF N
<1> QED
  BY <1>1, <1>2, <1>3, <1>4, MeasureCleanups

\* NccStrategy: the levels it updates are kept for MEASUREMENTS_LIFETIME.
LEMMA NccUpdatedTables ==
  ASSUME TableInv, CleanupInv, NEW n \in Names, effective(n) = "ncc", Measure(nccUpdated(n)),
         Promise(levels(n), MEASUREMENTS_LIFETIME)
  PROVE  CleanupInv' /\ IsMeasured(measured') /\ promised' \in [Names -> Nat]
<1> DEFINE m == nccUpdated(n)
           N == levels(n)
           U == UpTo[n]
<1>1. Grown(m, U, "ncc") /\ \A x \in N : x \in DOMAIN m /\ m[x].left >= MEASUREMENTS_LIFETIME
  BY NccUpdatedFacts
<1>2. Measure(m) /\ Promise(N, MEASUREMENTS_LIFETIME) /\ MEASUREMENTS_LIFETIME \in Nat
  BY ConstantNames
<1> HIDE DEF m, N, U
<1> QED
  BY <1>1, <1>2, MeasureCleanups

\* AccessStrategy: the measurements of Data, with and without the assertion.
LEMMA AccessUpdatedTables ==
  ASSUME TableInv, CleanupInv, NEW d \in Names, NEW at, at = measuredFor(d), effective(at) = "access",
         NEW m, m = informed(extended(gotten(measured, lookedUp(d)), {at}, ME_LIFETIME), {at}, "access"),
         Measure(m), Promise({at}, ME_LIFETIME)
  PROVE  CleanupInv' /\ IsMeasured(measured') /\ promised' \in [Names -> Nat]
<1> DEFINE N == {at}
           U == UpTo[at]
<1>1. Grown(m, U, "access") /\ at \in DOMAIN m /\ m[at].left >= ME_LIFETIME
  BY AccessUpdatedFacts
<1>2. \A x \in N : x \in DOMAIN m /\ m[x].left >= ME_LIFETIME
  BY <1>1
<1>3. Promise(N, ME_LIFETIME) /\ ME_LIFETIME \in Nat
  BY ConstantNames
<1> HIDE DEF N, U
<1> QED
  BY <1>1, <1>2, <1>3, MeasureCleanups

\* Entries that are looked up and nothing more.
LEMMA GottenTables ==
  ASSUME TableInv, CleanupInv, NEW N \in SUBSET Names, Measure(gotten(measured, N)), Promise({}, 0)
  PROVE  CleanupInv' /\ IsMeasured(measured') /\ promised' \in [Names -> Nat]
<1> DEFINE m == gotten(measured, N)
           E == {}
<1>1. Grown(m, N, "access") /\ Measure(m)
  BY GottenFacts
<1>2. Promise(E, 0) /\ 0 \in Nat /\ \A x \in E : x \in DOMAIN m /\ m[x].left >= 0
  OBVIOUS
<1> HIDE DEF m, E
<1> QED
  BY <1>1, <1>2, MeasureCleanups

\* The PIT, measurements, promises and failure flag after an Interest.
LEMMA ReceiveTables ==
  ASSUME TableInv, CleanupInv, NEW k \in PitKeys, ReceiveInterest(k)
  PROVE  TableInv' /\ CleanupInv'
<1>1. UNCHANGED <<fib, choice, changed>> /\ k[1] \in Names
  BY ConstantNames DEF ReceiveInterest
<1> SUFFICES ASSUME NEW S \in SUBSET Strategies, pit' = pitWith(k, S), failed' \in BOOLEAN,
                    \/ UNCHANGED <<measured, cleanups, promised>>
                    \/ /\ "ncc" \in Strategies /\ Measure(nccReceived(k[1]))
                       /\ Promise(DOMAIN measured' \ DOMAIN measured, INITIAL_LIFETIME)
             PROVE  TableInv' /\ CleanupInv'
  <2>1. CASE pit' = pitWith(k, {}) /\ UNCHANGED <<measured, cleanups, promised, failed>>
    <3>1. {} \in SUBSET Strategies /\ failed' \in BOOLEAN
      BY <2>1 DEF TableInv
    <3> QED
      BY <2>1, <3>1
  <2>2. CASE NccReceive(k)
    <3>1. "ncc" \in Strategies
      BY <1>1, <2>2, EffectiveFacts DEF NccReceive
    <3>2. {"ncc"} \in SUBSET Strategies /\ failed' \in BOOLEAN
      BY <2>2, <3>1 DEF NccReceive, TableInv
    <3> QED
      BY <2>2, <3>1, <3>2 DEF NccReceive
  <2>3. CASE AccessReceive(k)
    <3>1. "access" \in Strategies
      BY <1>1, <2>3, EffectiveFacts DEF AccessReceive
    <3>2. {"access"} \in SUBSET Strategies /\ {} \in SUBSET Strategies /\ failed' \in BOOLEAN
      BY <2>3, <3>1 DEF AccessReceive, TableInv
    <3> QED
      BY <2>3, <3>2 DEF AccessReceive
  <2> QED
    BY <2>1, <2>2, <2>3 DEF ReceiveInterest
<1>2. DOMAIN pit' \subseteq PitKeys /\ \A l \in DOMAIN pit' : pit'[l] \subseteq Strategies
  <2>1. /\ DOMAIN pitWith(k, S) = DOMAIN pit \union {k}
        /\ \A l \in DOMAIN pitWith(k, S) : pitWith(k, S)[l] \subseteq Strategies
    BY PitWithFacts
  <2> QED
    BY <2>1 DEF TableInv
<1>3. CleanupInv' /\ IsMeasured(measured') /\ promised' \in [Names -> Nat]
  <2>1. CASE UNCHANGED <<measured, cleanups, promised>>
    BY <2>1 DEF TableInv, CleanupInv, IsMeasured
  <2>2. CASE /\ "ncc" \in Strategies /\ Measure(nccReceived(k[1]))
             /\ Promise(DOMAIN measured' \ DOMAIN measured, INITIAL_LIFETIME)
    BY <1>1, <2>2, NccReceivedTables
  <2> QED
    BY <2>1, <2>2
<1> QED
  BY <1>1, <1>2, <1>3 DEF TableInv

\* The timers of the strategies, and Data.
LEMMA NccTables ==
  ASSUME TableInv, CleanupInv, NEW k \in DOMAIN pit, DoPropagate(k) \/ NccUpdate(k)
  PROVE  TableInv' /\ CleanupInv'
<1>1. k[1] \in Names
  BY ConstantNames DEF TableInv
<1>2. UNCHANGED <<fib, pit, choice, changed, failed>>
  BY DEF DoPropagate, NccUpdate
<1>3. CleanupInv' /\ IsMeasured(measured') /\ promised' \in [Names -> Nat]
  <2>1. CASE DoPropagate(k)
    <3>1. "ncc" \in Strategies
      BY <2>1 DEF DoPropagate, TableInv
    <3> QED
      BY <1>1, <2>1, <3>1, NccReceivedTables DEF DoPropagate
  <2>2. CASE NccUpdate(k)
    BY <1>1, <2>2, NccUpdatedTables DEF NccUpdate
  <2> QED
    BY <2>1, <2>2
<1> QED
  BY <1>2, <1>3 DEF TableInv

\* Data for AccessStrategy.
LEMMA AccessTables ==
  ASSUME TableInv, CleanupInv, NEW k \in DOMAIN pit, NEW d \in DataNames, AccessUpdate(k, d)
  PROVE  TableInv' /\ CleanupInv'
<1>1. d \in Names
  BY ConstantNames
<1>2. UNCHANGED <<fib, pit, choice, changed>> /\ failed' \in BOOLEAN
  BY DEF AccessUpdate, TableInv
<1> DEFINE at == measuredFor(d)
           m == informed(extended(gotten(measured, lookedUp(d)), {at}, ME_LIFETIME), {at}, "access")
<1>3. CleanupInv' /\ IsMeasured(measured') /\ promised' \in [Names -> Nat]
  <2>1. CASE effective(at) = "access" /\ Measure(m) /\ Promise({at}, ME_LIFETIME)
    <3> HIDE DEF at
    <3>1. at = measuredFor(d)
      BY DEF at
    <3> HIDE DEF m
    <3>2. m = informed(extended(gotten(measured, lookedUp(d)), {at}, ME_LIFETIME), {at}, "access")
      BY DEF m
    <3> QED
      BY <1>1, <2>1, <3>1, <3>2, AccessUpdatedTables
  <2>2. CASE Measure(gotten(measured, lookedUp(d))) /\ Promise({}, 0)
    <3>1. lookedUp(d) \subseteq UpTo[at] /\ at \in Names
      BY <1>1, AccessNames
    <3>2. lookedUp(d) \in SUBSET Names
      BY <3>1, UpToOrder
    <3> QED
      BY <2>2, <3>2, GottenTables
  <2> QED
    BY <2>1, <2>2, Zenon DEF AccessUpdate
<1> QED
  BY <1>2, <1>3 DEF TableInv

\* The tables without measurements.
LEMMA FibTables ==
  ASSUME TableInv, CleanupInv, NEW n \in FibNames, FibInsert(n) \/ FibErase(n)
  PROVE  TableInv' /\ CleanupInv'
<1>1. UNCHANGED <<pit, measured, cleanups, choice, failed, promised, changed>>
  BY DEF FibInsert, FibErase
<1>2. fib' \subseteq Names
  BY ConstantNames DEF FibInsert, FibErase, TableInv
<1> QED
  BY <1>1, <1>2 DEF TableInv, CleanupInv, IsMeasured

\* A PIT entry goes with its information.
LEMMA PitEraseTables ==
  ASSUME TableInv, CleanupInv, NEW k \in DOMAIN pit, PitErase(k)
  PROVE  TableInv' /\ CleanupInv'
<1>1. UNCHANGED <<fib, measured, cleanups, choice, failed, promised, changed>>
  BY DEF PitErase
<1>2. DOMAIN pit' \subseteq PitKeys /\ \A l \in DOMAIN pit' : pit'[l] \subseteq Strategies
  BY DEF PitErase, TableInv
<1> QED
  BY <1>1, <1>2 DEF TableInv, CleanupInv, IsMeasured

\* Every step keeps the tables and the cleanups.
LEMMA TablesStep ==
  ASSUME TableInv, CleanupInv, [Next]_vars
  PROVE  TableInv' /\ CleanupInv'
<1>1. CASE UNCHANGED vars
  BY <1>1 DEF vars, tables, TableInv, CleanupInv, IsMeasured
<1>2. CASE Next
  BY <1>2, FibTables, ReceiveTables, NccTables, PitEraseTables, AccessTables, ChoiceEraseTables,
     ChoiceInsertTables, CleanupTables, TickTables DEF Next
<1> QED
  BY <1>1, <1>2

\* It is as the code starts.
LEMMA TablesInit ==
  ASSUME Init
  PROVE  TableInv /\ CleanupInv
<1>1. /\ fib = {} /\ pit = <<>> /\ measured = <<>> /\ cleanups = {}
      /\ choice = [n \in {<<>>} |-> DEFAULT_STRATEGY] /\ <<>> \in Names /\ DEFAULT_STRATEGY \in Strategies
      /\ failed = FALSE /\ promised = [n \in Names |-> 0] /\ changed = FALSE
  BY NameTreeAssumption DEF Init
<1>2. DOMAIN measured = {} /\ DOMAIN pit = {}
  BY <1>1
<1>3. TableInv
  BY <1>1, <1>2 DEF TableInv, IsMeasured
<1>4. CleanupInv
  BY <1>1, <1>2 DEF CleanupInv
<1> QED
  BY <1>3, <1>4

\* Measurements outlive every lifetime that was given to them, and each entry has one
\* cleanup, at its expiry (extendLifetime, cleanup).
THEOREM MeasurementsOutlive == Spec => []MeasurementsKept
<1>1. Init => TableInv /\ CleanupInv
  BY TablesInit
<1>2. TableInv /\ CleanupInv /\ [Next]_vars => (TableInv /\ CleanupInv)'
  BY TablesStep
<1>3. CleanupInv => MeasurementsKept
  BY DEF CleanupInv, MeasurementsKept
<1> QED
  BY <1>1, <1>2, <1>3, PTL DEF Spec

----------------------------------------------------------------------------
(* Arithmetic of the hash table                                            *)

\* Division with remainder.
LEMMA DivMod ==
  ASSUME NEW a \in Nat, NEW b \in Nat \ {0}
  PROVE  a % b \in 0..(b - 1) /\ a \div b \in Nat /\ a = b * (a \div b) + (a % b)
  OBVIOUS

\* The remainder is the only one.
LEMMA ModOrdered ==
  ASSUME NEW b \in Nat \ {0}, NEW q \in Int, NEW r \in 0..(b - 1), NEW p \in Int,
         NEW s \in 0..(b - 1), b * q + r = b * p + s
  PROVE  ~(q < p)
<1> SUFFICES ASSUME q < p PROVE FALSE
  OBVIOUS
<1> DEFINE d == p - q
<1>1. d \in Nat \ {0} /\ p = q + d
  OBVIOUS
<1> HIDE DEF d
<1>2. b * p = b * q + b * d
  BY <1>1
<1>3. b * d >= b
  BY <1>1
<1>4. b * q \in Int /\ b * p \in Int /\ b * d \in Int
  BY <1>1
<1> QED
  BY <1>2, <1>3, <1>4

\* Two divisions of a number by b leave the same.
LEMMA ModUnique ==
  ASSUME NEW b \in Nat \ {0}, NEW q \in Int, NEW r \in 0..(b - 1), NEW p \in Int,
         NEW s \in 0..(b - 1), b * q + r = b * p + s
  PROVE  r = s
<1>1. ~(q < p) /\ ~(p < q)
  BY ModOrdered
<1>2. q = p
  BY <1>1
<1> QED
  BY <1>2

\* A word has the same remainder as the hash that it is cut from.
LEMMA ModMod ==
  ASSUME NEW h \in Nat, NEW k \in Nat \ {0}, NEW w \in Nat \ {0}, w % k = 0
  PROVE  (h % w) % k = h % k
<1> DEFINE m == w \div k
           q == h \div w
           r == h % w
           p == r \div k
           s == r % k
           t == h \div k
           u == h % k
<1>1. m \in Nat /\ w = k * m
  BY DivMod
<1>2. q \in Nat /\ r \in Nat /\ h = w * q + r
  BY DivMod
<1>3. p \in Nat /\ s \in 0..(k - 1) /\ r = k * p + s
  BY <1>2, DivMod
<1>4. t \in Nat /\ u \in 0..(k - 1) /\ h = k * t + u
  BY DivMod
<1> HIDE DEF m, q, r, p, s, t, u
<1> DEFINE z == m * q + p
           A == k * (m * q)
           B == k * p
           C == k * t
<1>5. w * q = A /\ A \in Int /\ B \in Int /\ C \in Int /\ z \in Int
  BY <1>1, <1>2, <1>3, <1>4
<1>6. k * z = A + B
  BY <1>1, <1>2, <1>3
<1>7. h = A + r /\ r = B + s /\ h = C + u
  BY <1>2, <1>3, <1>4, <1>5
<1> HIDE DEF A, B, z
<1>8. k * z + s = k * t + u
  <2>1. A + B + s = C + u
    <3> HIDE DEF C
    <3> QED
      BY <1>2, <1>3, <1>4, <1>5, <1>7
  <2> QED
    BY <1>6, <2>1
<1>9. s = u
  BY <1>3, <1>4, <1>5, <1>8, ModUnique
<1> QED
  BY <1>9 DEF s, r, u

\* Half the buckets are enough when the table is shrunk.
LEMMA LoadOfHalf ==
  ASSUME NEW E \in Nat, NEW S \in Nat, NEW h \in Nat, NEW n \in Nat, 2 * S <= E,
         n < ((2 * h) * S) \div 100
  PROVE  n <= (h * E) \div 100
<1>1. (2 * h) * S = h * (2 * S)
  OBVIOUS
<1>2. h * (2 * S) <= h * E
  OBVIOUS
<1> QED
  BY <1>1, <1>2

\* Twice the buckets are enough for one entry more than the limit.
LEMMA LoadOfDouble ==
  ASSUME NEW E \in Nat, NEW m \in Nat, NEW b \in Nat, NEW n \in Nat, m * E >= 100, b >= m,
         n <= (b * E) \div 100 + 1
  PROVE  n <= ((2 * b) * E) \div 100
<1>1. (2 * b) * E = 2 * (b * E)
  OBVIOUS
<1>2. b * E >= m * E
  OBVIOUS
<1> QED
  BY <1>1, <1>2

\* The bucket counts.
LEMMA BucketFacts ==
  ASSUME NEW b \in BucketCounts
  PROVE  /\ b \in Nat \ {0} /\ MIN_BUCKETS <= b /\ b <= WORD /\ WORD % b = 0
         /\ WORD \in Nat \ {0} /\ MIN_BUCKETS \in Nat \ {0}
         /\ b # WORD => 2 * b \in BucketCounts
         /\ b # MIN_BUCKETS => b % 2 = 0 /\ b \div 2 \in BucketCounts
<1>1. b \in MIN_BUCKETS..WORD /\ WORD % b = 0
  BY DEF BucketCounts
<1>2. WORD \in Nat /\ MIN_BUCKETS \in Nat \ {0}
  BY BucketAssumption
<1>3. /\ b # WORD => 2 * b \in BucketCounts
      /\ b # MIN_BUCKETS => b % 2 = 0 /\ b \div 2 \in BucketCounts
  BY BucketAssumption
<1>4. b \in Nat \ {0} /\ WORD \in Nat \ {0} /\ MIN_BUCKETS <= b /\ b <= WORD
  BY <1>1, <1>2
<1> QED
  BY <1>1, <1>2, <1>3, <1>4

----------------------------------------------------------------------------
(* The hash table and the tree                                             *)

Trees == [nodes : SUBSET (Names \X Nat), nBuckets : Nat, nItems : Nat,
          children : [Names -> SUBSET Names]]

\* The entries are where findExactMatch looks for them, are counted, and are linked to
\* their parents.
Sound(t) ==
  /\ t \in Trees /\ t.nBuckets \in BucketCounts
  /\ t.nodes = {<<n, Hash[n] % t.nBuckets>> : n \in present(t)}
  /\ t.nItems = Cardinality(present(t))
  /\ t.children = [a \in Names |-> {n \in present(t) \ {<<>>} : Front(n) = a}]

Limit(t) == (t.nBuckets * ENLARGE) \div 100
Loaded(t) == t.nItems <= Limit(t)

\* A tree whose nodes and links are given by the names in P.
LEMMA SoundIntro ==
  ASSUME NEW t, NEW P \in SUBSET Names, NEW b \in BucketCounts, t \in Trees, t.nBuckets = b,
         t.nodes = {<<n, Hash[n] % b>> : n \in P}, t.nItems = Cardinality(P),
         t.children = [a \in Names |-> {n \in P \ {<<>>} : Front(n) = a}]
  PROVE  Sound(t) /\ present(t) = P
<1>1. present(t) = P
  <2>1. ASSUME NEW n \in P PROVE n \in present(t)
    <3> DEFINE x == <<n, Hash[n] % b>>
    <3>1. x \in t.nodes /\ x[1] = n
      OBVIOUS
    <3> HIDE DEF x
    <3> QED
      BY <3>1 DEF present
  <2>2. ASSUME NEW n \in present(t) PROVE n \in P
    BY <2>2 DEF present
  <2> QED
    BY <2>1, <2>2
<1> QED
  BY <1>1 DEF Sound

\* What a sound tree holds.
LEMMA SoundFacts ==
  ASSUME NEW t, Sound(t)
  PROVE  /\ present(t) \subseteq Names /\ IsFiniteSet(present(t))
         /\ t.nItems = Cardinality(present(t)) /\ t.nItems \in Nat
         /\ t.nItems <= Cardinality(Names)
         /\ t.nBuckets \in BucketCounts /\ Limit(t) \in Int
         /\ \A n \in Names : findExactMatch(t, n) <=> n \in present(t)
<1>1. t \in Trees /\ t.nBuckets \in BucketCounts /\ t.nBuckets \in Nat \ {0}
  BY BucketFacts DEF Sound
<1>2. present(t) \subseteq Names
  BY <1>1 DEF Trees, present
<1>3. IsFiniteSet(present(t)) /\ Cardinality(present(t)) <= Cardinality(Names)
  BY <1>2, NameTreeAssumption, FS_Subset
<1>4. Cardinality(present(t)) \in Nat
  BY <1>3, FS_CardinalityType
<1>5. ENLARGE \in Nat
  BY BucketAssumption
<1>6. Limit(t) \in Int
  BY <1>1, <1>5 DEF Limit
<1>7. ASSUME NEW n \in Names PROVE findExactMatch(t, n) <=> n \in present(t)
  <2>1. ASSUME n \in present(t) PROVE findExactMatch(t, n)
    BY <2>1 DEF Sound, findExactMatch
  <2>2. ASSUME findExactMatch(t, n) PROVE n \in present(t)
    BY <2>2 DEF findExactMatch, present
  <2> QED
    BY <2>1, <2>2
<1> QED
  BY <1>1, <1>2, <1>3, <1>4, <1>6, <1>7 DEF Sound

\* Resizing moves the entries to the chains where they are looked for.
LEMMA ResizeSound ==
  ASSUME NEW t, Sound(t), NEW k \in BucketCounts
  PROVE  /\ Sound(resize(t, k)) /\ present(resize(t, k)) = present(t)
         /\ resize(t, k).nItems = t.nItems /\ resize(t, k).nBuckets = k
<1> DEFINE P == present(t)
           r == resize(t, k)
<1>1. /\ t \in Trees /\ t.nodes = {<<n, Hash[n] % t.nBuckets>> : n \in P}
      /\ t.nItems = Cardinality(P)
      /\ t.children = [a \in Names |-> {n \in P \ {<<>>} : Front(n) = a}]
      /\ P \in SUBSET Names
  BY SoundFacts DEF Sound
<1>2. k \in Nat \ {0} /\ WORD \in Nat \ {0} /\ WORD % k = 0 /\ Hash \in [Names -> Nat]
  BY BucketFacts, BucketAssumption
<1> DEFINE M == {<<x[1], (Hash[x[1]] % WORD) % k>> : x \in t.nodes}
<1>3. M = {<<n, Hash[n] % k>> : n \in P}
  <2> HIDE DEF P
  <2>1. \A n \in P : (Hash[n] % WORD) % k = Hash[n] % k
    BY <1>1, <1>2, ModMod
  <2>2. ASSUME NEW y \in M PROVE y \in {<<n, Hash[n] % k>> : n \in P}
    <3>1. PICK x \in t.nodes : y = <<x[1], (Hash[x[1]] % WORD) % k>>
      BY <2>2
    <3>2. x[1] \in P
      BY <1>1, <3>1
    <3> QED
      BY <2>1, <3>1, <3>2
  <2>3. ASSUME NEW n \in P PROVE <<n, Hash[n] % k>> \in M
    <3> DEFINE x == <<n, Hash[n] % t.nBuckets>>
    <3>1. x \in t.nodes /\ x[1] = n
      BY <1>1
    <3> HIDE DEF x
    <3>2. <<x[1], (Hash[x[1]] % WORD) % k>> \in M
      BY <3>1
    <3> QED
      BY <2>1, <3>1, <3>2
  <2> QED
    BY <2>2, <2>3
<1>4. r = [t EXCEPT !.nodes = M, !.nBuckets = k]
  BY DEF resize
<1> HIDE DEF P, M, r
<1>5. M \in SUBSET (Names \X Nat)
  BY <1>1, <1>2, <1>3
<1>6. /\ r.nodes = M /\ r.nBuckets = k /\ r.nItems = t.nItems /\ r.children = t.children
      /\ r \in Trees
  BY <1>1, <1>2, <1>4, <1>5 DEF Trees
<1>7. Sound(r) /\ present(r) = P
  BY <1>1, <1>3, <1>6, SoundIntro
<1> QED
  BY <1>6, <1>7 DEF P, r

\* An entry is inserted once, under its parent.
LEMMA InsertSound ==
  ASSUME NEW t, Sound(t), NEW n \in Names
  PROVE  /\ Sound(insert(t, n)) /\ present(insert(t, n)) = present(t) \union {n}
         /\ insert(t, n).nItems <= t.nItems + 1 /\ insert(t, n).nBuckets = t.nBuckets
<1> DEFINE P == present(t)
           b == t.nBuckets
           i == insert(t, n)
<1>1. /\ t \in Trees /\ t.nodes = {<<x, Hash[x] % b>> : x \in P}
      /\ t.nItems = Cardinality(P) /\ t.nItems \in Nat /\ b \in BucketCounts
      /\ t.children = [a \in Names |-> {x \in P \ {<<>>} : Front(x) = a}]
      /\ P \in SUBSET Names /\ IsFiniteSet(P) /\ (findExactMatch(t, n) <=> n \in P)
  BY SoundFacts DEF Sound
<1>2. CASE findExactMatch(t, n)
  BY <1>1, <1>2 DEF insert
<1>3. CASE ~findExactMatch(t, n)
  <2> DEFINE Q == P \union {n}
             M == t.nodes \union {<<n, Hash[n] % b>>}
             C == [a \in Names |-> IF n # <<>> /\ a = Front(n) THEN t.children[a] \union {n}
                                   ELSE t.children[a]]
  <2>1. i = [t EXCEPT !.nodes = M, !.nItems = t.nItems + 1, !.children = C]
    BY <1>3 DEF insert
  <2>2. Q \in SUBSET Names /\ M = {<<x, Hash[x] % b>> : x \in Q}
    BY <1>1
  <2>3. Cardinality(Q) = t.nItems + 1
    BY <1>1, <1>3, FS_AddElement
  <2>4. C = [a \in Names |-> {x \in Q \ {<<>>} : Front(x) = a}]
    <3> SUFFICES ASSUME NEW a \in Names PROVE C[a] = {x \in Q \ {<<>>} : Front(x) = a}
      OBVIOUS
    <3>1. t.children[a] = {x \in P \ {<<>>} : Front(x) = a}
      BY <1>1
    <3>2. C[a] = IF n # <<>> /\ a = Front(n) THEN t.children[a] \union {n} ELSE t.children[a]
      OBVIOUS
    <3> HIDE DEF P, C
    <3> QED
      BY <3>1, <3>2
  <2>5. C \in [Names -> SUBSET Names]
    BY <2>2, <2>4
  <2>6. M \in SUBSET (Names \X Nat)
    <3>1. b \in Nat \ {0} /\ Hash \in [Names -> Nat]
      BY <1>1, BucketFacts, BucketAssumption
    <3>2. ASSUME NEW x \in Names PROVE Hash[x] % b \in Nat
      <4>1. Hash[x] \in Nat
        BY <3>1
      <4> HIDE DEF b
      <4> QED
        BY <3>1, <4>1, DivMod
    <3> QED
      BY <2>2, <3>2
  <2>7. /\ t.nItems + 1 \in Nat /\ t \in Trees
    BY <1>1
  <2> HIDE DEF M, C, Q, P, i, b
  <2>8. i.nodes = M /\ i.nItems = t.nItems + 1 /\ i.children = C /\ i.nBuckets = t.nBuckets
        /\ i \in Trees
    BY <2>1, <2>5, <2>6, <2>7 DEF Trees
  <2>9. i.nBuckets = b
    BY <2>8 DEF b
  <2>10. Sound(i) /\ present(i) = Q
    BY <1>1, <2>2, <2>3, <2>4, <2>8, <2>9, SoundIntro
  <2>11. i.nItems <= t.nItems + 1
    BY <1>1, <2>8
  <2> QED
    BY <2>8, <2>10, <2>11 DEF Q, P, i
<1> QED
  BY <1>2, <1>3

\* The table is enlarged when the limit is passed.
LEMMA EnlargedSound ==
  ASSUME NEW t, Sound(t), t.nItems <= Limit(t) + 1
  PROVE  /\ Sound(enlarged(t)) /\ present(enlarged(t)) = present(t) /\ Loaded(enlarged(t))
<1>1. /\ t.nItems \in Nat /\ t.nBuckets \in BucketCounts /\ Limit(t) \in Int
      /\ t.nItems <= Cardinality(Names)
  BY SoundFacts
<1>2. CASE t.nItems > Limit(t)
  <2>1. enlarged(t) = resize(t, 2 * t.nBuckets)
    BY <1>2 DEF enlarged, Limit
  <2>2. t.nBuckets # WORD
    <3>1. Cardinality(Names) <= (WORD * ENLARGE) \div 100
      BY BucketAssumption
    <3>2. Cardinality(Names) \in Nat
      BY NameTreeAssumption, FS_CardinalityType
    <3> SUFFICES ASSUME t.nBuckets = WORD PROVE FALSE
      OBVIOUS
    <3>3. Limit(t) = (WORD * ENLARGE) \div 100
      BY DEF Limit
    <3> QED
      BY <1>1, <1>2, <3>1, <3>2, <3>3
  <2>3. 2 * t.nBuckets \in BucketCounts /\ t.nBuckets \in Nat /\ MIN_BUCKETS <= t.nBuckets
        /\ MIN_BUCKETS \in Nat
    BY <1>1, <2>2, BucketFacts
  <2>4. ENLARGE \in Nat /\ MIN_BUCKETS * ENLARGE >= 100
    BY BucketAssumption
  <2> DEFINE r == resize(t, 2 * t.nBuckets)
  <2>5. Sound(r) /\ present(r) = present(t) /\ r.nItems = t.nItems /\ r.nBuckets = 2 * t.nBuckets
    BY <2>3, ResizeSound
  <2>6. t.nItems <= ((2 * t.nBuckets) * ENLARGE) \div 100
    BY <1>1, <2>3, <2>4, LoadOfDouble DEF Limit
  <2> HIDE DEF r
  <2>7. Loaded(r)
    BY <2>5, <2>6 DEF Loaded, Limit
  <2> QED
    BY <2>1, <2>5, <2>7 DEF r
<1>3. CASE ~(t.nItems > Limit(t))
  BY <1>1, <1>3 DEF enlarged, Loaded, Limit
<1> QED
  BY <1>2, <1>3

\* It is shrunk when the smaller one is enough.
LEMMA ShrunkSound ==
  ASSUME NEW t, Sound(t), Loaded(t)
  PROVE  /\ Sound(shrunk(t)) /\ present(shrunk(t)) = present(t) /\ Loaded(shrunk(t))
<1> DEFINE h == t.nBuckets \div 2
<1>1. t.nItems \in Nat /\ t.nBuckets \in BucketCounts
  BY SoundFacts
<1>2. CASE h >= MIN_BUCKETS /\ t.nItems < (t.nBuckets * SHRINK) \div 100
  <2>1. shrunk(t) = resize(t, h)
    BY <1>2 DEF shrunk
  <2>2. t.nBuckets \in Nat \ {0} /\ MIN_BUCKETS \in Nat \ {0}
    BY <1>1, BucketFacts
  <2>3. t.nBuckets # MIN_BUCKETS
    BY <1>2, <2>2
  <2>4. h \in BucketCounts /\ t.nBuckets % 2 = 0
    BY <1>1, <2>3, BucketFacts
  <2>5. h \in Nat /\ t.nBuckets = 2 * h
    BY <2>2, <2>4
  <2>6. ENLARGE \in Nat /\ SHRINK \in Nat /\ 2 * SHRINK <= ENLARGE
    BY BucketAssumption
  <2> HIDE DEF h
  <2>7. t.nItems <= (h * ENLARGE) \div 100
    BY <1>1, <1>2, <2>5, <2>6, LoadOfHalf
  <2> DEFINE r == resize(t, h)
  <2>8. Sound(r) /\ present(r) = present(t) /\ r.nItems = t.nItems /\ r.nBuckets = h
    BY <2>4, ResizeSound
  <2> HIDE DEF r
  <2>9. Loaded(r)
    BY <2>7, <2>8 DEF Loaded, Limit
  <2> QED
    BY <2>1, <2>8, <2>9 DEF r
<1>3. CASE ~(h >= MIN_BUCKETS /\ t.nItems < (t.nBuckets * SHRINK) \div 100)
  BY <1>3 DEF shrunk
<1> QED
  BY <1>2, <1>3

\* One level of lookup.
LEMMA LevelSound ==
  ASSUME NEW t, Sound(t), Loaded(t), NEW m \in Names
  PROVE  LET e == enlarged(insert(t, m))
         IN  Sound(e) /\ Loaded(e) /\ present(e) = present(t) \union {m} /\ e \in Trees
<1> DEFINE i == insert(t, m)
<1>1. /\ Sound(i) /\ present(i) = present(t) \union {m}
      /\ i.nItems <= t.nItems + 1 /\ i.nBuckets = t.nBuckets
  BY InsertSound
<1> HIDE DEF i
<1>2. t.nItems \in Nat /\ Limit(t) \in Int /\ i.nItems \in Nat
  BY <1>1, SoundFacts
<1>3. Limit(i) = Limit(t)
  BY <1>1 DEF Limit
<1>4. i.nItems <= Limit(i) + 1
  BY <1>1, <1>2, <1>3 DEF Loaded
<1>5. Sound(enlarged(i)) /\ present(enlarged(i)) = present(i) /\ Loaded(enlarged(i))
  BY <1>1, <1>4, EnlargedSound
<1> QED
  BY <1>1, <1>5 DEF i, Sound

\* lookup makes the name and its prefixes present, and nothing else.
LEMMA LookupSound ==
  ASSUME NEW t, Sound(t), Loaded(t), NEW n \in Names
  PROVE  Sound(lookup(t, n)) /\ Loaded(lookup(t, n)) /\ present(lookup(t, n)) = present(t) \union UpTo[n]
<1> DEFINE k == Len(n) + 1
           T == {x \in Trees : Sound(x) /\ Loaded(x)}
           F == [p \in T \X (1..k) |-> enlarged(insert(p[1], SubSeq(n, 1, p[2] - 1)))]
           W == CHOOSE w : w = [i \in 0..k |-> IF i = 0 THEN t
                                              ELSE enlarged(insert(w[i - 1], SubSeq(n, 1, i - 1)))]
<1>1. lookup(t, n) = W[k]
  BY DEF lookup
<1>2. n \in Seq(Nat) /\ Len(n) \in Nat /\ k \in Nat
  BY PrefixFacts
<1>3. \A i \in 1..k : i - 1 \in 0..Len(n) /\ SubSeq(n, 1, i - 1) \in Names
  <2> SUFFICES ASSUME NEW i \in 1..k PROVE i - 1 \in 0..Len(n) /\ SubSeq(n, 1, i - 1) \in Names
    OBVIOUS
  <2>1. i - 1 \in 0..Len(n)
    BY <1>2
  <2> QED
    BY <2>1, PrefixFacts
<1>4. t \in T
  BY DEF Sound
<1>5. \A x \in T, m \in Names : enlarged(insert(x, m)) \in T
  BY LevelSound
<1> HIDE DEF T
<1>6. F \in [T \X (1..k) -> T]
  <2> SUFFICES ASSUME NEW p \in T \X (1..k)
               PROVE  enlarged(insert(p[1], SubSeq(n, 1, p[2] - 1))) \in T
    OBVIOUS
  <2>1. p[1] \in T /\ p[2] \in 1..k
    OBVIOUS
  <2> QED
    BY <1>3, <1>5, <2>1
<1>7. \A x \in T, i \in 1..k : F[<<x, i>>] = enlarged(insert(x, SubSeq(n, 1, i - 1)))
  OBVIOUS
<1> HIDE DEF F, k
<1>8. PICK g \in [0..k -> T] : g[0] = t /\ \A i \in 1..k : g[i] = F[<<g[i - 1], i>>]
  <2>1. IsStep(F, T, k)
    BY <1>6 DEF IsStep
  <2>2. \E g : IsRecursive(g, F, T, t, k)
    BY <1>2, <1>4, <2>1, BoundedRecursion
  <2> QED
    BY <2>2 DEF IsRecursive
<1>9. g = [i \in 0..k |-> IF i = 0 THEN t ELSE enlarged(insert(g[i - 1], SubSeq(n, 1, i - 1)))]
  <2> SUFFICES ASSUME NEW i \in 0..k
               PROVE  g[i] = IF i = 0 THEN t ELSE enlarged(insert(g[i - 1], SubSeq(n, 1, i - 1)))
    BY <1>8
  <2>1. CASE i = 0
    BY <1>8, <2>1
  <2>2. CASE i # 0
    <3>1. i \in 1..k /\ i - 1 \in 0..k
      BY <1>2, <2>2
    <3>2. g[i - 1] \in T
      BY <1>8, <3>1
    <3>3. g[i] = F[<<g[i - 1], i>>]
      BY <1>8, <3>1
    <3> QED
      BY <1>7, <2>2, <3>1, <3>2, <3>3
  <2> QED
    BY <2>1, <2>2
<1>10. W = [i \in 0..k |-> IF i = 0 THEN t ELSE enlarged(insert(W[i - 1], SubSeq(n, 1, i - 1)))]
  BY <1>9, Zenon
<1> HIDE DEF W
<1> DEFINE Seen(i) == present(t) \union {SubSeq(n, 1, j) : j \in 0..(i - 1)}
           S == {i \in 0..k : Sound(W[i]) /\ Loaded(W[i]) /\ present(W[i]) = Seen(i)}
<1>11. 0 \in S
  <2>1. 0 \in 0..k /\ W[0] = t
    BY <1>2, <1>10
  <2>2. Seen(0) = present(t)
    OBVIOUS
  <2> QED
    BY <2>1, <2>2
<1>12. ASSUME NEW i \in 1..k, i - 1 \in S PROVE i \in S
  <2> DEFINE w == W[i - 1]
             m == SubSeq(n, 1, i - 1)
  <2>1. Sound(w) /\ Loaded(w) /\ present(w) = Seen(i - 1)
    BY <1>12
  <2>2. i \in 0..k /\ i # 0
    BY <1>2
  <2>3. W[i] = enlarged(insert(w, m))
    BY <1>10, <2>2
  <2>4. m \in Names
    BY <1>3
  <2> HIDE DEF w, m, Seen
  <2>5. Sound(W[i]) /\ Loaded(W[i]) /\ present(W[i]) = present(w) \union {m}
    BY <2>1, <2>3, <2>4, LevelSound
  <2>6. Seen(i) = Seen(i - 1) \union {m}
    <3>1. 0..(i - 1) = 0..((i - 1) - 1) \union {i - 1}
      BY <1>2
    <3> QED
      BY <3>1 DEF Seen, m
  <2> QED
    BY <2>1, <2>2, <2>5, <2>6
<1>13. k \in S
  <2>1. k \in 0..k
    BY <1>2
  <2> HIDE DEF S
  <2> QED
    BY <1>2, <1>11, <1>12, <2>1, BoundedInduction
<1>14. Sound(W[k]) /\ Loaded(W[k]) /\ present(W[k]) = Seen(k)
  BY <1>13
<1>15. Seen(k) = present(t) \union UpTo[n]
  <2>1. k - 1 = Len(n)
    BY <1>2 DEF k
  <2>2. ASSUME NEW j \in 0..Len(n) PROVE SubSeq(n, 1, j) \in UpTo[n]
    BY UpToOrder
  <2>3. ASSUME NEW a \in UpTo[n] PROVE a \in {SubSeq(n, 1, j) : j \in 0..Len(n)}
    <3>1. SubSeq(n, 1, Len(a)) = a /\ Len(a) <= Len(n) /\ a \in Names
      BY UpToOrder
    <3>2. Len(a) \in 0..Len(n)
      BY <1>2, <3>1, PrefixFacts
    <3> QED
      BY <3>1, <3>2
  <2> QED
    BY <2>1, <2>2, <2>3
<1> QED
  BY <1>1, <1>14, <1>15

\* The names of A and their prefixes.
Above(A) == UNION {UpTo[n] : n \in A}

\* The recursion of eraseEntryIfEmpty erases the entries that nothing needs any more.
LEMMA EmptiedExact ==
  ASSUME NEW t, Sound(t), NEW held \in SUBSET Names, NEW n \in Names,
         present(t) = Above(held \union {n})
  PROVE  /\ emptied(t, held, n) \subseteq present(t)
         /\ present(t) \ emptied(t, held, n) = Above(held)
<1> DEFINE gone == emptied(t, held, n)
<1>1. /\ UpTo[n] \subseteq Names
      /\ gone = {a \in UpTo[n] : \A b \in UpTo[n] :
                   Len(b) >= Len(a) => b \notin held /\ t.children[b] \subseteq UpTo[n]}
  BY UpToOrder DEF emptied
<1>2. \A a \in Names : t.children[a] = {x \in present(t) \ {<<>>} : Front(x) = a}
  BY DEF Sound
<1>3. \A a \in Names : Len(a) \in Nat
  BY PrefixFacts
<1>4. present(t) \subseteq Names
  BY SoundFacts
<1> HIDE DEF gone
<1>5. gone \subseteq present(t)
  BY <1>1 DEF Above
<1>6. ASSUME NEW x \in present(t) \ Above(held) PROVE x \in gone
  <2>1. x \in UpTo[n] /\ x \in Names
    BY <1>4, <1>6 DEF Above
  <2>2. ASSUME NEW b \in UpTo[n], Len(b) >= Len(x) PROVE b \notin held /\ t.children[b] \subseteq UpTo[n]
    <3>1. b \in Names /\ x \in UpTo[b]
      BY <1>1, <1>3, <2>1, <2>2, UpToOrder
    <3>2. b \notin held
      BY <1>6, <3>1 DEF Above
    <3>3. ASSUME NEW c \in t.children[b] PROVE c \in UpTo[n]
      <4>1. c \in present(t) /\ c # <<>> /\ Front(c) = b /\ c \in Names
        BY <1>2, <1>4, <3>1, <3>3
      <4>2. PICK h \in held \union {n} : c \in UpTo[h]
        BY <4>1 DEF Above
      <4>3. h \in Names
        BY <4>2
      <4>4. b \in UpTo[c]
        BY <4>1, FrontFacts
      <4>5. UpTo[b] \subseteq UpTo[c]
        BY <4>1, <4>4, UpToOrder
      <4>6. UpTo[c] \subseteq UpTo[h]
        BY <4>2, <4>3, UpToOrder
      <4>7. h \notin held
        BY <1>6, <3>1, <4>5, <4>6 DEF Above
      <4> QED
        BY <4>2, <4>7
    <3> QED
      BY <3>2, <3>3
  <2> QED
    BY <1>1, <2>1, <2>2
<1>7. ASSUME NEW h \in held, NEW x \in UpTo[h], x \in gone PROVE FALSE
  <2> DEFINE C == UpTo[n] \intersect UpTo[h]
             b == Longest(C)
  <2>1. h \in Names /\ x \in UpTo[n]
    BY <1>1, <1>7
  <2>2. C \in SUBSET UpTo[n] /\ x \in C
    BY <1>7, <2>1
  <2>3. b \in C /\ \A a \in C : Len(a) <= Len(b)
    <3> HIDE DEF C
    <3> QED
      BY <2>2, LongestFacts
  <2> HIDE DEF b
  <2>4. b \in UpTo[n] /\ b \in UpTo[h] /\ b \in Names /\ Len(b) >= Len(x)
    BY <1>1, <1>3, <2>2, <2>3
  <2>5. b \notin held /\ t.children[b] \subseteq UpTo[n]
    BY <1>1, <1>7, <2>4
  <2>6. b # h
    BY <2>5
  <2>7. PICK c \in UpTo[h] : c # <<>> /\ c \in Names /\ Front(c) = b /\ Len(c) = Len(b) + 1
    BY <2>1, <2>4, <2>6, NextPrefix
  <2>8. c \in present(t)
    BY <2>7 DEF Above
  <2>9. c \in t.children[b]
    BY <1>2, <2>4, <2>7, <2>8
  <2>10. c \in C
    BY <2>5, <2>7, <2>9
  <2> QED
    BY <1>3, <2>3, <2>4, <2>7, <2>10
<1>8. Above(held) \subseteq present(t)
  BY DEF Above
<1>9. present(t) \ gone = Above(held)
  <2>1. ASSUME NEW x \in Above(held) PROVE x \notin gone
    <3>1. PICK h \in held : x \in UpTo[h]
      BY <2>1 DEF Above
    <3> QED
      BY <1>7, <3>1
  <2> QED
    BY <1>6, <1>8, <2>1
<1> QED
  BY <1>5, <1>9 DEF gone

\* Repeated checks of the size keep the table sound.
LEMMA ResizedSound ==
  ASSUME NEW t, Sound(t), Loaded(t), NEW k \in Nat, NEW W,
         W = CHOOSE w : w = [i \in 0..k |-> IF i = 0 THEN t ELSE shrunk(w[i - 1])]
  PROVE  Sound(W[k]) /\ Loaded(W[k]) /\ present(W[k]) = present(t)
<1> DEFINE T == {x \in Trees : Sound(x) /\ Loaded(x) /\ present(x) = present(t)}
           F == [p \in T \X (1..k) |-> shrunk(p[1])]
<1>1. t \in T
  BY DEF Sound
<1>2. \A x \in T : shrunk(x) \in T
  BY ShrunkSound DEF Sound
<1> HIDE DEF T
<1>3. F \in [T \X (1..k) -> T] /\ \A x \in T, i \in 1..k : F[<<x, i>>] = shrunk(x)
  BY <1>2
<1> HIDE DEF F
<1>4. PICK g : g \in [0..k -> T] /\ g[0] = t /\ \A i \in 1..k : g[i] = F[<<g[i - 1], i>>]
  <2>1. IsStep(F, T, k)
    BY <1>3 DEF IsStep
  <2>2. \E g : IsRecursive(g, F, T, t, k)
    BY <1>1, <2>1, BoundedRecursion
  <2> QED
    BY <2>2 DEF IsRecursive
<1>5. g = [i \in 0..k |-> IF i = 0 THEN t ELSE shrunk(g[i - 1])]
  <2> SUFFICES ASSUME NEW i \in 0..k
               PROVE  g[i] = IF i = 0 THEN t ELSE shrunk(g[i - 1])
    BY <1>4
  <2>1. CASE i = 0
    BY <1>4, <2>1
  <2>2. CASE i # 0
    <3>1. i \in 1..k /\ i - 1 \in 0..k
      BY <2>2
    <3>2. g[i - 1] \in T /\ g[i] = F[<<g[i - 1], i>>]
      BY <1>4, <3>1
    <3> QED
      BY <1>3, <2>2, <3>1, <3>2
  <2> QED
    BY <2>1, <2>2
<1>6. W = [i \in 0..k |-> IF i = 0 THEN t ELSE shrunk(W[i - 1])]
  BY <1>5, Zenon
<1> DEFINE S == {i \in 0..k : W[i] \in T}
<1>7. 0 \in S
  <2>1. W[0] = t
    BY <1>6
  <2> QED
    BY <1>1, <2>1
<1>8. ASSUME NEW i \in 1..k, i - 1 \in S PROVE i \in S
  <2>1. i \in 0..k /\ i # 0 /\ W[i - 1] \in T
    BY <1>8
  <2>2. W[i] = shrunk(W[i - 1])
    BY <1>6, <2>1
  <2> QED
    BY <1>2, <2>1, <2>2
<1>9. k \in S
  <2> HIDE DEF S
  <2> QED
    BY <1>7, <1>8, BoundedInduction
<1> QED
  BY <1>9 DEF T

\* eraseEntryIfEmpty leaves the names that something is attached to, and their prefixes.
LEMMA EraseSound ==
  ASSUME NEW t, Sound(t), Loaded(t), NEW held \in SUBSET Names, NEW n \in Names,
         present(t) = Above(held \union {n})
  PROVE  LET e == eraseEntryIfEmpty(t, held, n)
         IN  Sound(e) /\ Loaded(e) /\ present(e) = Above(held)
<1> DEFINE gone == emptied(t, held, n)
           M == {x \in t.nodes : x[1] \notin gone}
           C == [a \in Names |-> t.children[a] \ gone]
           c == Cardinality(gone)
           left == [t EXCEPT !.nodes = M, !.nItems = t.nItems - c, !.children = C]
           W == CHOOSE w : w = [i \in 0..c |-> IF i = 0 THEN left ELSE shrunk(w[i - 1])]
           P == present(t) \ gone
<1>1. eraseEntryIfEmpty(t, held, n) = W[c]
  BY DEF eraseEntryIfEmpty
<1>2. gone \subseteq present(t) /\ P = Above(held)
  BY EmptiedExact
<1>3. /\ t \in Trees /\ t.nBuckets \in BucketCounts
      /\ t.nodes = {<<x, Hash[x] % t.nBuckets>> : x \in present(t)}
      /\ t.nItems = Cardinality(present(t)) /\ t.nItems \in Nat
      /\ t.children = [a \in Names |-> {x \in present(t) \ {<<>>} : Front(x) = a}]
      /\ present(t) \subseteq Names /\ IsFiniteSet(present(t)) /\ Limit(t) \in Int
  BY SoundFacts DEF Sound
<1> HIDE DEF gone
<1>4. IsFiniteSet(gone) /\ c \in Nat /\ c <= t.nItems /\ Cardinality(P) = t.nItems - c
  <2>1. IsFiniteSet(gone) /\ Cardinality(gone) <= Cardinality(present(t))
    BY <1>2, <1>3, FS_Subset
  <2>2. present(t) \intersect gone = gone
    BY <1>2
  <2>3. Cardinality(P) = Cardinality(present(t)) - Cardinality(present(t) \intersect gone)
    BY <1>3, FS_Difference
  <2> QED
    BY <1>3, <2>1, <2>2, <2>3, FS_CardinalityType
<1>5. M = {<<x, Hash[x] % t.nBuckets>> : x \in P}
  <2>1. ASSUME NEW y \in M PROVE y \in {<<x, Hash[x] % t.nBuckets>> : x \in P}
    <3>1. PICK x \in present(t) : y = <<x, Hash[x] % t.nBuckets>>
      BY <1>3, <2>1
    <3> QED
      BY <2>1, <3>1
  <2>2. ASSUME NEW x \in P PROVE <<x, Hash[x] % t.nBuckets>> \in M
    BY <1>3, <2>2
  <2> QED
    BY <2>1, <2>2
<1>6. C = [a \in Names |-> {x \in P \ {<<>>} : Front(x) = a}]
  <2> SUFFICES ASSUME NEW a \in Names PROVE C[a] = {x \in P \ {<<>>} : Front(x) = a}
    OBVIOUS
  <2>1. t.children[a] = {x \in present(t) \ {<<>>} : Front(x) = a}
    BY <1>3
  <2>2. C[a] = t.children[a] \ gone
    OBVIOUS
  <2> HIDE DEF C
  <2> QED
    BY <2>1, <2>2
<1>7. P \in SUBSET Names /\ M \in SUBSET (Names \X Nat) /\ C \in [Names -> SUBSET Names]
  <2>1. P \in SUBSET Names
    BY <1>3
  <2>2. M \in SUBSET (Names \X Nat)
    BY <1>3 DEF Trees
  <2>3. C \in [Names -> SUBSET Names]
    BY <1>6, <2>1
  <2> QED
    BY <2>1, <2>2, <2>3
<1>8. t.nItems - c \in Nat
  BY <1>3, <1>4
<1> HIDE DEF M, C, c, P
<1>9. /\ left.nodes = M /\ left.nItems = t.nItems - c /\ left.children = C
      /\ left.nBuckets = t.nBuckets /\ left \in Trees
  BY <1>3, <1>7, <1>8 DEF Trees
<1> HIDE DEF left
<1>10. Sound(left) /\ present(left) = P
  BY <1>3, <1>4, <1>5, <1>6, <1>7, <1>9, SoundIntro
<1>11. Loaded(left)
  BY <1>3, <1>4, <1>9 DEF Loaded, Limit
<1>12. Sound(W[c]) /\ Loaded(W[c]) /\ present(W[c]) = present(left)
  <2>1. W = CHOOSE w : w = [i \in 0..c |-> IF i = 0 THEN left ELSE shrunk(w[i - 1])]
    OBVIOUS
  <2> HIDE DEF W
  <2> QED
    BY <1>4, <1>10, <1>11, <2>1, ResizedSound
<1> HIDE DEF W
<1> QED
  BY <1>1, <1>2, <1>10, <1>12

----------------------------------------------------------------------------
(* Every step keeps the tree                                               *)

\* The names that something is attached to.
holders == attached(fib, pit, measured, choice)

\* The tree is sound and holds what is attached to it, with the prefixes.
TreeInv == Sound(tree) /\ Loaded(tree) /\ present(tree) = Above(holders)

\* The names are attached to names of the tree.
LEMMA HolderNames ==
  ASSUME TableInv
  PROVE  /\ holders \subseteq Names
         /\ fib \subseteq holders /\ DOMAIN measured \subseteq holders /\ DOMAIN choice \subseteq holders
         /\ \A k \in DOMAIN pit : k[1] \in holders
<1>1. \A k \in DOMAIN pit : k[1] \in Names
  BY ConstantNames DEF TableInv
<1> QED
  BY <1>1 DEF TableInv, IsMeasured, holders, attached

\* lookup of a name goes with attaching something to it, and to some of its prefixes.
LEMMA LookupStep ==
  ASSUME TableInv, TreeInv, NEW n \in Names, tree' = lookup(tree, n),
         holders \subseteq holders', holders' \subseteq holders \union UpTo[n], n \in holders'
  PROVE  TreeInv'
<1>1. /\ Sound(lookup(tree, n)) /\ Loaded(lookup(tree, n))
      /\ present(lookup(tree, n)) = present(tree) \union UpTo[n]
  BY LookupSound DEF TreeInv
<1>2. Sound(tree)' /\ Loaded(tree)'
  BY <1>1 DEF Sound, Loaded, Limit, present
<1>3. present(tree)' = Above(holders) \union UpTo[n]
  BY <1>1 DEF TreeInv, present
<1>4. Above(holders)' = Above(holders) \union UpTo[n]
  <2>1. ASSUME NEW x \in Above(holders)' PROVE x \in Above(holders) \union UpTo[n]
    <3>1. PICK h \in holders' : x \in UpTo[h]
      BY <2>1 DEF Above
    <3>2. CASE h \in holders
      BY <3>1, <3>2 DEF Above
    <3>3. CASE h \in UpTo[n]
      <4>1. UpTo[h] \subseteq UpTo[n]
        BY <3>3, UpToOrder
      <4> QED
        BY <3>1, <4>1
    <3> QED
      BY <3>1, <3>2, <3>3
  <2>2. ASSUME NEW x \in Above(holders) PROVE x \in Above(holders)'
    BY <2>2 DEF Above
  <2>3. ASSUME NEW x \in UpTo[n] PROVE x \in Above(holders)'
    BY <2>3 DEF Above
  <2> QED
    BY <2>1, <2>2, <2>3
<1> QED
  BY <1>2, <1>3, <1>4 DEF TreeInv

\* Without a lookup, something is attached to prefixes of a name that has something.
LEMMA SameTreeStep ==
  ASSUME TableInv, TreeInv, NEW n \in holders, tree' = tree,
         holders \subseteq holders', holders' \subseteq holders \union UpTo[n]
  PROVE  TreeInv'
<1>1. Sound(tree)' /\ Loaded(tree)' /\ present(tree)' = Above(holders)
  BY DEF TreeInv, Sound, Loaded, Limit, present
<1>2. n \in Names
  BY HolderNames
<1>3. Above(holders)' = Above(holders)
  <2>1. ASSUME NEW x \in Above(holders)' PROVE x \in Above(holders)
    <3>1. PICK h \in holders' : x \in UpTo[h]
      BY <2>1 DEF Above
    <3>2. CASE h \in holders
      BY <3>1, <3>2 DEF Above
    <3>3. CASE h \in UpTo[n]
      <4>1. UpTo[h] \subseteq UpTo[n]
        BY <1>2, <3>3, UpToOrder
      <4> QED
        BY <3>1, <4>1 DEF Above
    <3> QED
      BY <3>1, <3>2, <3>3
  <2>2. ASSUME NEW x \in Above(holders) PROVE x \in Above(holders)'
    BY <2>2 DEF Above
  <2> QED
    BY <2>1, <2>2
<1> QED
  BY <1>1, <1>3 DEF TreeInv

\* eraseEntryIfEmpty goes with detaching something from the name.
LEMMA EraseStep ==
  ASSUME TableInv, TreeInv, NEW n \in Names, tree' = eraseEntryIfEmpty(tree, holders', n),
         holders' \in SUBSET Names, holders = holders' \union {n}
  PROVE  TreeInv'
<1> DEFINE H == holders'
           e == eraseEntryIfEmpty(tree, H, n)
<1>1. Sound(tree) /\ Loaded(tree) /\ present(tree) = Above(H \union {n}) /\ H \in SUBSET Names
  BY DEF TreeInv
<1>2. tree' = e
  OBVIOUS
<1> HIDE DEF H
<1>3. Sound(e) /\ Loaded(e) /\ present(e) = Above(H)
  BY <1>1, EraseSound
<1> HIDE DEF e
<1>4. Sound(tree)' /\ Loaded(tree)' /\ present(tree)' = Above(H)
  BY <1>2, <1>3 DEF Sound, Loaded, Limit, present
<1>5. Above(holders)' = Above(H)
  BY DEF Above, H
<1> QED
  BY <1>4, <1>5 DEF TreeInv

\* The measurements that a strategy makes hang on prefixes of the name in hand.
LEMMA GrownHolders ==
  ASSUME TableInv, NEW m, NEW U, NEW s, Grown(m, U, s), measured' = m,
         fib' = fib, choice' = choice, DOMAIN pit \subseteq DOMAIN pit',
         NEW n, \A k \in DOMAIN pit' \ DOMAIN pit : k[1] = n, n \in U
  PROVE  holders \subseteq holders' /\ holders' \subseteq holders \union U
<1>1. DOMAIN measured \subseteq DOMAIN m /\ DOMAIN m \subseteq DOMAIN measured \union U
  BY DEF Grown
<1>2. holders \subseteq holders'
  BY <1>1 DEF holders, attached
<1>3. ASSUME NEW x \in holders' PROVE x \in holders \union U
  <2>1. x \in fib \/ (\E k \in DOMAIN pit' : x = k[1]) \/ x \in DOMAIN m \/ x \in DOMAIN choice
    BY <1>3 DEF holders, attached
  <2> QED
    BY <1>1, <2>1 DEF holders, attached
<1> QED
  BY <1>2, <1>3

\* FIB entries come with lookup and go with eraseEntryIfEmpty.
LEMMA FibTree ==
  ASSUME TableInv, TableInv', TreeInv, NEW n \in FibNames, FibInsert(n) \/ FibErase(n)
  PROVE  TreeInv'
<1>1. n \in Names /\ n \in UpTo[n]
  BY ConstantNames, UpToOrder
<1>2. CASE FibInsert(n)
  <2>1. tree' = lookup(tree, n)
    BY <1>2 DEF FibInsert
  <2>2. holders' = holders \union {n}
    BY <1>2 DEF FibInsert, holders, attached
  <2> QED
    BY <1>1, <2>1, <2>2, LookupStep
<1>3. CASE FibErase(n)
  <2>1. tree' = eraseEntryIfEmpty(tree, holders', n)
    BY <1>3 DEF FibErase, holders
  <2>2. holders = holders' \union {n}
    BY <1>3 DEF FibErase, holders, attached
  <2>3. holders' \in SUBSET Names
    BY <1>1, <2>2, HolderNames
  <2> QED
    BY <1>1, <2>1, <2>2, <2>3, EraseStep
<1> QED
  BY <1>2, <1>3

\* The last PIT entry of a name may take its node away.
LEMMA PitEraseTree ==
  ASSUME TableInv, TreeInv, NEW k \in DOMAIN pit, PitErase(k)
  PROVE  TreeInv'
<1>1. k[1] \in Names
  BY ConstantNames DEF TableInv
<1>2. /\ pit' = [l \in DOMAIN pit \ {k} |-> pit[l]] /\ UNCHANGED <<fib, measured, choice>>
      /\ tree' = eraseEntryIfEmpty(tree, attached(fib, pit', measured, choice), k[1])
  BY DEF PitErase
<1>3. tree' = eraseEntryIfEmpty(tree, holders', k[1])
  BY <1>2 DEF holders
<1>4. DOMAIN pit = DOMAIN pit' \union {k}
  BY <1>2
<1>5. holders = holders' \union {k[1]}
  BY <1>2, <1>4 DEF holders, attached
<1>6. holders' \in SUBSET Names
  BY <1>5, HolderNames
<1> QED
  BY <1>1, <1>3, <1>5, <1>6, EraseStep

\* A new choice is attached to the node of its name.
LEMMA ChoiceInsertTree ==
  ASSUME TableInv, TreeInv, NEW n \in ChoiceNames, NEW s \in Strategies, ChoiceInsert(n, s)
  PROVE  TreeInv'
<1>1. PICK old : changeStrategy(n, old, s)
  BY Zenon DEF ChoiceInsert
<1>2. /\ choice' = [c \in DOMAIN choice \union {n} |-> IF c = n THEN s ELSE choice[c]]
      /\ fib' = fib /\ tree' = lookup(tree, n)
  BY DEF ChoiceInsert
<1>3. DOMAIN pit' = DOMAIN pit /\ DOMAIN measured' = DOMAIN measured
  BY <1>1, ChangeStrategyFacts
<1>4. DOMAIN choice' = DOMAIN choice \union {n}
  BY <1>2
<1>5. holders' = holders \union {n}
  BY <1>2, <1>3, <1>4 DEF holders, attached
<1>6. n \in Names /\ n \in UpTo[n]
  BY ConstantNames, UpToOrder
<1> QED
  BY <1>2, <1>5, <1>6, LookupStep

\* An erased choice may take nodes away.
LEMMA ChoiceEraseTree ==
  ASSUME TableInv, TreeInv, NEW n \in ChoiceNames, ChoiceErase(n)
  PROVE  TreeInv'
<1>1. PICK new : changeStrategy(n, choice[n], new)
  BY Zenon DEF ChoiceErase
<1>2. /\ choice' = [c \in DOMAIN choice \ {n} |-> choice[c]] /\ n \in DOMAIN choice
      /\ fib' = fib
      /\ tree' = eraseEntryIfEmpty(tree, attached(fib, pit, measured, choice'), n)
  BY DEF ChoiceErase
<1>3. DOMAIN pit' = DOMAIN pit /\ DOMAIN measured' = DOMAIN measured
  BY <1>1, ChangeStrategyFacts
<1>4. attached(fib, pit, measured, choice') = holders'
  BY <1>2, <1>3 DEF holders, attached
<1>5. holders = holders' \union {n}
  BY <1>2, <1>3 DEF holders, attached
<1>6. holders' \in SUBSET Names /\ n \in Names
  BY <1>5, HolderNames
<1> QED
  BY <1>2, <1>4, <1>5, <1>6, EraseStep

\* So may expired measurements.
LEMMA CleanupTree ==
  ASSUME TableInv, CleanupInv, TreeInv, NEW c \in cleanups, Cleanup(c)
  PROVE  TreeInv'
<1>1. PICK n \in DOMAIN measured : c = <<n, measured[n].left>>
  BY DEF CleanupInv
<1>2. /\ measured' = [x \in DOMAIN measured \ {n} |-> measured[x]]
      /\ tree' = eraseEntryIfEmpty(tree, attached(fib, pit, measured', choice), n)
      /\ UNCHANGED <<fib, pit, choice>>
  BY <1>1 DEF Cleanup
<1>3. tree' = eraseEntryIfEmpty(tree, holders', n)
  BY <1>2 DEF holders
<1>4. DOMAIN measured = DOMAIN measured' \union {n}
  BY <1>2
<1>5. holders = holders' \union {n}
  BY <1>2, <1>4 DEF holders, attached
<1>6. holders' \in SUBSET Names /\ n \in Names
  BY <1>5, HolderNames
<1> QED
  BY <1>3, <1>5, <1>6, EraseStep

\* Time does nothing to the tree.
LEMMA TickTree ==
  ASSUME TableInv, TreeInv, Tick
  PROVE  TreeInv'
<1>1. tree' = tree /\ UNCHANGED <<fib, pit, choice>> /\ DOMAIN measured' = DOMAIN measured
  BY DEF Tick
<1>2. holders' = holders
  BY <1>1 DEF holders, attached
<1>3. <<>> \in holders
  BY HolderNames DEF TableInv
<1> QED
  BY <1>1, <1>2, <1>3, SameTreeStep

\* An Interest has its name looked up; measurements for it hang on its prefixes.
LEMMA ReceiveTree ==
  ASSUME TableInv, TreeInv, NEW k \in PitKeys, ReceiveInterest(k)
  PROVE  TreeInv'
<1>1. /\ UNCHANGED <<fib, choice>> /\ k[1] \in Names /\ tree' = lookup(tree, k[1])
      /\ k[1] \in UpTo[k[1]]
  BY ConstantNames, UpToOrder DEF ReceiveInterest
<1>2. DOMAIN pit' = DOMAIN pit \union {k}
  BY DEF ReceiveInterest, NccReceive, AccessReceive, pitWith
<1>3. measured' = measured \/ (measured' = nccReceived(k[1]) /\ effective(k[1]) = "ncc")
  BY DEF ReceiveInterest, NccReceive, AccessReceive, Measure
<1>4. holders \subseteq holders' /\ holders' \subseteq holders \union UpTo[k[1]]
  <2>1. CASE measured' = measured
    BY <1>1, <1>2, <2>1 DEF holders, attached
  <2>2. CASE measured' = nccReceived(k[1]) /\ effective(k[1]) = "ncc"
    <3>1. "ncc" \in Strategies
      BY <1>1, <2>2, EffectiveFacts
    <3> DEFINE m == nccReceived(k[1])
               n == k[1]
               U == UpTo[k[1]]
    <3>2. Grown(m, U, "ncc")
      BY <1>1, <3>1, NccReceivedFacts
    <3>3. measured' = m /\ n \in U /\ \A l \in DOMAIN pit' \ DOMAIN pit : l[1] = n
      BY <1>1, <1>2, <2>2
    <3> HIDE DEF m, n, U
    <3>4. holders \subseteq holders' /\ holders' \subseteq holders \union U
      BY <1>1, <1>2, <3>2, <3>3, GrownHolders
    <3> QED
      BY <3>4 DEF U
  <2> QED
    BY <1>3, <2>1, <2>2
<1>5. k[1] \in holders'
  BY <1>2 DEF holders, attached
<1> QED
  BY <1>1, <1>4, <1>5, LookupStep

\* NccStrategy measures the prefixes of a name that is in the tree.
LEMMA NccTree ==
  ASSUME TableInv, TreeInv, NEW k \in DOMAIN pit, DoPropagate(k) \/ NccUpdate(k)
  PROVE  TreeInv'
<1> DEFINE n == k[1]
           U == UpTo[n]
<1>1. n \in Names /\ n \in holders
  BY HolderNames
<1>2. UNCHANGED <<tree, fib, pit, choice>>
  BY DEF DoPropagate, NccUpdate
<1>3. n \in U
  BY <1>1, UpToOrder
<1>4. PICK m : measured' = m /\ Grown(m, U, "ncc")
  <2>1. CASE DoPropagate(k)
    <3>1. "ncc" \in Strategies
      BY <2>1 DEF DoPropagate, TableInv
    <3> QED
      BY <1>1, <2>1, <3>1, NccReceivedFacts DEF DoPropagate, Measure
  <2>2. CASE NccUpdate(k)
    BY <1>1, <2>2, NccUpdatedFacts DEF NccUpdate, Measure
  <2> QED
    BY <2>1, <2>2
<1> HIDE DEF n, U
<1>5. holders \subseteq holders' /\ holders' \subseteq holders \union U
  BY <1>2, <1>3, <1>4, GrownHolders
<1> QED
  BY <1>1, <1>2, <1>5, SameTreeStep DEF U

\* AccessStrategy measures the name that it looks up, and its prefix.
LEMMA AccessTree ==
  ASSUME TableInv, TreeInv, NEW k \in DOMAIN pit, NEW d \in DataNames, AccessUpdate(k, d)
  PROVE  TreeInv'
<1> DEFINE at == measuredFor(d)
           U == UpTo[at]
           g == gotten(measured, lookedUp(d))
           i == informed(extended(g, {at}, ME_LIFETIME), {at}, "access")
<1>1. d \in Names /\ at \in Names /\ lookedUp(d) \subseteq U /\ at \in lookedUp(d) /\ at \in U
  BY ConstantNames, AccessNames, UpToOrder
<1>2. UNCHANGED <<fib, pit, choice>> /\ tree' = lookup(tree, at)
  BY DEF AccessUpdate
<1>3. PICK m : measured' = m /\ Grown(m, U, "access") /\ at \in DOMAIN m
  <2>1. CASE effective(at) = "access" /\ measured' = i
    <3> HIDE DEF at, i
    <3>1. at = measuredFor(d) /\ i = informed(extended(gotten(measured, lookedUp(d)), {at}, ME_LIFETIME), {at}, "access")
      BY DEF at, i
    <3>2. Grown(i, UpTo[at], "access") /\ at \in DOMAIN i
      BY <1>1, <2>1, <3>1, AccessUpdatedFacts
    <3> QED
      BY <2>1, <3>2
  <2>2. CASE measured' = g
    <3>1. lookedUp(d) \in SUBSET Names
      BY <1>1, UpToOrder
    <3>2. Grown(g, U, "access") /\ DOMAIN g = DOMAIN measured \union lookedUp(d)
      <4> HIDE DEF U
      <4> QED
        BY <1>1, <3>1, GottenFacts
    <3> QED
      BY <1>1, <2>2, <3>2
  <2> QED
    BY <2>1, <2>2, Zenon DEF AccessUpdate, Measure
<1>4. at \in holders'
  BY <1>3 DEF holders, attached
<1> HIDE DEF at, U
<1>5. holders \subseteq holders' /\ holders' \subseteq holders \union U
  BY <1>1, <1>2, <1>3, GrownHolders
<1> QED
  BY <1>1, <1>2, <1>4, <1>5, LookupStep DEF U

\* Every step keeps the tree.
LEMMA TreeStep ==
  ASSUME TableInv, TableInv', CleanupInv, TreeInv, [Next]_vars
  PROVE  TreeInv'
<1>1. CASE UNCHANGED vars
  BY <1>1 DEF vars, tables, TreeInv, Sound, Loaded, Limit, present, Above, holders, attached
<1>2. CASE Next
  BY <1>2, FibTree, ReceiveTree, NccTree, PitEraseTree, AccessTree, ChoiceEraseTree,
     ChoiceInsertTree, CleanupTree, TickTree DEF Next
<1> QED
  BY <1>1, <1>2

\* The tree starts with the root, which has the default strategy.
LEMMA TreeInit ==
  ASSUME Init
  PROVE  TreeInv
<1> DEFINE t == [nodes |-> {}, nBuckets |-> MIN_BUCKETS, nItems |-> 0, children |-> [n \in Names |-> {}]]
           E == {}
<1>1. tree = lookup(t, <<>>) /\ <<>> \in Names
  BY NameTreeAssumption DEF Init
<1>2. MIN_BUCKETS \in BucketCounts /\ MIN_BUCKETS \in Nat
  BY BucketAssumption
<1>3. t \in Trees /\ t.nBuckets = MIN_BUCKETS /\ t.nItems = 0 /\ t.nodes = {}
      /\ t.children = [n \in Names |-> {}]
  BY <1>2 DEF Trees
<1> HIDE DEF t
<1>4. Sound(t) /\ present(t) = E
  <2>1. E \in SUBSET Names /\ Cardinality(E) = 0
    BY FS_EmptySet
  <2>2. t.nodes = {<<n, Hash[n] % MIN_BUCKETS>> : n \in E}
    BY <1>3
  <2>3. t.children = [a \in Names |-> {n \in E \ {<<>>} : Front(n) = a}]
    BY <1>3
  <2> HIDE DEF E
  <2> QED
    BY <1>2, <1>3, <2>1, <2>2, <2>3, SoundIntro
<1>5. Loaded(t)
  <2>1. MIN_BUCKETS * ENLARGE >= 100 /\ ENLARGE \in Nat
    BY BucketAssumption
  <2> QED
    BY <1>2, <1>3, <2>1 DEF Loaded, Limit
<1>6. Sound(tree) /\ Loaded(tree) /\ present(tree) = UpTo[<<>>]
  BY <1>1, <1>4, <1>5, LookupSound, ZenonT(60)
<1>7. holders = {<<>>}
  BY DEF Init, holders, attached
<1>8. Above(holders) = UpTo[<<>>]
  BY <1>7 DEF Above
<1> QED
  BY <1>6, <1>8 DEF TreeInv

\* After every operation of every table, the tree holds the names that something is
\* attached to and their prefixes, linked to their parents, and nothing else
\* (NameTree::lookup and eraseEntryIfEmpty).
THEOREM TreeIsExact == Spec => []TreeExact
<1>1. Init => TableInv /\ CleanupInv /\ TreeInv
  BY TablesInit, TreeInit
<1>2. TableInv /\ CleanupInv /\ TreeInv /\ [Next]_vars => (TableInv /\ CleanupInv /\ TreeInv)'
  BY TablesStep, TreeStep
<1>3. TreeInv => TreeExact
  BY DEF TreeInv, TreeExact, Sound, Above, holders
<1> QED
  BY <1>1, <1>2, <1>3, PTL DEF Spec

\* Each entry is found where findExactMatch looks for it and nowhere else, and m_nItems
\* counts the entries, however often the table is resized (NameTree::resize).
THEOREM TableIsSound == Spec => []HashTableSound
<1>1. Init => TableInv /\ CleanupInv /\ TreeInv
  BY TablesInit, TreeInit
<1>2. TableInv /\ CleanupInv /\ TreeInv /\ [Next]_vars => (TableInv /\ CleanupInv /\ TreeInv)'
  BY TablesStep, TreeStep
<1>3. TreeInv => HashTableSound
  <2> SUFFICES ASSUME TreeInv PROVE HashTableSound
    OBVIOUS
  <2>1. tree.nBuckets >= MIN_BUCKETS
    BY BucketFacts DEF TreeInv, Sound
  <2> QED
    BY <2>1 DEF TreeInv, HashTableSound, Sound, Loaded, Limit
<1> QED
  BY <1>1, <1>2, <1>3, PTL DEF Spec

\* The variables hold values of the types of their members (name-tree.hpp,
\* name-tree-entry.hpp, measurements-entry.hpp).
THEOREM TypeCorrect == Spec => []TypeOK
<1>1. Init => TableInv /\ CleanupInv /\ TreeInv
  BY TablesInit, TreeInit
<1>2. TableInv /\ CleanupInv /\ TreeInv /\ [Next]_vars => (TableInv /\ CleanupInv /\ TreeInv)'
  BY TablesStep, TreeStep
<1>3. TableInv /\ CleanupInv /\ TreeInv => TypeOK
  <2> SUFFICES ASSUME TableInv, CleanupInv, TreeInv PROVE TypeOK
    OBVIOUS
  <2>1. /\ tree.nodes \subseteq Names \X Nat /\ tree.nBuckets \in Nat /\ tree.nItems \in Nat
        /\ tree.children \in [Names -> SUBSET Names]
    BY DEF TreeInv, Sound, Trees
  <2>2. cleanups \subseteq Names \X Nat
    BY DEF CleanupInv, TableInv, IsMeasured
  <2> QED
    BY <2>1, <2>2 DEF TableInv, IsMeasured, TypeOK
<1> QED
  BY <1>1, <1>2, <1>3, PTL DEF Spec

----------------------------------------------------------------------------
(* Strategies and their information                                        *)

\* By name, through the hash table, or up the tree: it is the same strategy.
LEMMA SameStrategy ==
  ASSUME TableInv, TreeInv, NEW n \in Names
  PROVE  findEffectiveStrategy(n) = effective(n)
<1>1. DOMAIN choice \subseteq present(tree)
  <2> SUFFICES ASSUME NEW a \in DOMAIN choice PROVE a \in Above(holders)
    BY DEF TreeInv
  <2>1. a \in holders /\ a \in UpTo[a]
    BY HolderNames, UpToOrder
  <2> QED
    BY <2>1 DEF Above
<1>2. \A a \in DOMAIN choice : findExactMatch(tree, a)
  BY <1>1, SoundFacts DEF TreeInv
<1>3. {a \in UpTo[n] : a \in DOMAIN choice /\ findExactMatch(tree, a)} = UpTo[n] \intersect DOMAIN choice
  BY <1>2
<1> QED
  BY <1>3 DEF findEffectiveStrategy, effective

\* The strategy of the longest prefix with a choice.
LEMMA EffectiveIs ==
  ASSUME TableInv, NEW n \in Names, NEW a \in UpTo[n] \intersect DOMAIN choice,
         \A b \in UpTo[n] \intersect DOMAIN choice : Len(b) <= Len(a)
  PROVE  effective(n) = choice[a]
<1> DEFINE S == UpTo[n] \intersect DOMAIN choice
<1>1. S \in SUBSET UpTo[n] /\ S # {} /\ a \in S /\ \A b \in S : Len(b) <= Len(a)
  OBVIOUS
<1> HIDE DEF S
<1>2. a = Longest(S)
  BY <1>1, LongestFacts
<1> QED
  BY <1>2 DEF S, effective

\* The same of the choices after a step.
LEMMA EffectiveIsNext ==
  ASSUME TableInv', NEW n \in Names, NEW a \in UpTo[n] \intersect DOMAIN choice',
         \A b \in UpTo[n] \intersect DOMAIN choice' : Len(b) <= Len(a)
  PROVE  effective(n)' = choice'[a]
<1> DEFINE S == UpTo[n] \intersect DOMAIN choice'
<1>1. S \in SUBSET UpTo[n] /\ S # {} /\ a \in S /\ \A b \in S : Len(b) <= Len(a)
  OBVIOUS
<1> HIDE DEF S
<1>2. a = Longest(S)
  BY <1>1, LongestFacts
<1> QED
  BY <1>2 DEF S, effective

\* The names whose strategy a choice at n changes from old to new.
Switched(n, old, new) ==
  \A m \in Names :
    \/ effective(m)' = effective(m)
    \/ /\ n \in UpTo[m] /\ \A c \in DOMAIN choice \intersect UpTo[m] : Len(c) <= Len(n)
       /\ effective(m) = old /\ effective(m)' = new

\* A choice for n is in charge of the names below n that no longer choice is.
LEMMA InsertSwitches ==
  ASSUME TableInv, TableInv', NEW n \in Names, NEW s,
         choice' = [c \in DOMAIN choice \union {n} |-> IF c = n THEN s ELSE choice[c]]
  PROVE  Switched(n, effective(n), s)
<1> SUFFICES ASSUME NEW m \in Names, effective(m)' # effective(m)
             PROVE  /\ n \in UpTo[m] /\ \A c \in DOMAIN choice \intersect UpTo[m] : Len(c) <= Len(n)
                    /\ effective(m) = effective(n) /\ effective(m)' = s
  BY DEF Switched
<1> DEFINE L == Longest(UpTo[m] \intersect DOMAIN choice)
<1>1. /\ L \in UpTo[m] \intersect DOMAIN choice /\ effective(m) = choice[L]
      /\ \A b \in UpTo[m] \intersect DOMAIN choice : Len(b) <= Len(L)
  BY EffectiveFacts DEF effective
<1> HIDE DEF L
<1>2. \A a \in UpTo[m] : a \in Names /\ Len(a) \in Nat
  BY UpToOrder, PrefixFacts
<1>3. DOMAIN choice' = DOMAIN choice \union {n} /\ choice'[n] = s
      /\ \A c \in DOMAIN choice : c # n => choice'[c] = choice[c]
  OBVIOUS
<1>4. ASSUME L # n, n \in UpTo[m] => Len(n) <= Len(L) PROVE FALSE
  <2>1. L \in UpTo[m] \intersect DOMAIN choice'
    BY <1>1, <1>3
  <2>2. \A b \in UpTo[m] \intersect DOMAIN choice' : Len(b) <= Len(L)
    BY <1>1, <1>3, <1>4
  <2>3. effective(m)' = choice'[L]
    BY <2>1, <2>2, EffectiveIsNext
  <2> QED
    BY <1>1, <1>3, <1>4, <2>3
<1>5. n \in UpTo[m] /\ Len(L) <= Len(n)
  BY <1>1, <1>2, <1>4
<1>6. \A c \in DOMAIN choice \intersect UpTo[m] : Len(c) <= Len(n)
  BY <1>1, <1>2, <1>5
<1>7. effective(m)' = s
  <2>1. n \in UpTo[m] \intersect DOMAIN choice'
    BY <1>3, <1>5
  <2>2. \A b \in UpTo[m] \intersect DOMAIN choice' : Len(b) <= Len(n)
    BY <1>2, <1>3, <1>5, <1>6
  <2> QED
    BY <1>3, <2>1, <2>2, EffectiveIsNext
<1>8. effective(n) = choice[L]
  <2>1. L \in UpTo[n] /\ UpTo[n] \subseteq UpTo[m]
    BY <1>1, <1>5, UpToOrder
  <2>2. L \in UpTo[n] \intersect DOMAIN choice
    BY <1>1, <2>1
  <2>3. \A b \in UpTo[n] \intersect DOMAIN choice : Len(b) <= Len(L)
    BY <1>1, <2>1
  <2> QED
    BY <2>2, <2>3, EffectiveIs
<1> QED
  BY <1>1, <1>5, <1>6, <1>7, <1>8

\* Without the choice for n, the strategy of its parent is in charge of them.
LEMMA EraseSwitches ==
  ASSUME TableInv, TableInv', NEW n \in DOMAIN choice, n # <<>>,
         choice' = [c \in DOMAIN choice \ {n} |-> choice[c]]
  PROVE  Switched(n, choice[n], effective(Front(n)))
<1> SUFFICES ASSUME NEW m \in Names, effective(m)' # effective(m)
             PROVE  /\ n \in UpTo[m] /\ \A c \in DOMAIN choice \intersect UpTo[m] : Len(c) <= Len(n)
                    /\ effective(m) = choice[n] /\ effective(m)' = effective(Front(n))
  BY DEF Switched
<1> DEFINE L == Longest(UpTo[m] \intersect DOMAIN choice)
<1>1. /\ L \in UpTo[m] \intersect DOMAIN choice /\ effective(m) = choice[L]
      /\ \A b \in UpTo[m] \intersect DOMAIN choice : Len(b) <= Len(L)
  BY EffectiveFacts DEF effective
<1> HIDE DEF L
<1>2. \A a \in UpTo[m] : a \in Names /\ Len(a) \in Nat
  BY UpToOrder, PrefixFacts
<1>3. DOMAIN choice' = DOMAIN choice \ {n} /\ \A c \in DOMAIN choice : c # n => choice'[c] = choice[c]
  OBVIOUS
<1>4. L = n
  <2> SUFFICES ASSUME L # n PROVE FALSE
    OBVIOUS
  <2>1. L \in UpTo[m] \intersect DOMAIN choice'
    BY <1>1, <1>3
  <2>2. \A b \in UpTo[m] \intersect DOMAIN choice' : Len(b) <= Len(L)
    BY <1>1, <1>3
  <2>3. effective(m)' = choice'[L]
    BY <2>1, <2>2, EffectiveIsNext
  <2> QED
    BY <1>1, <1>3, <2>3
<1> DEFINE p == Front(n)
           K == Longest(UpTo[p] \intersect DOMAIN choice)
<1>5. /\ n \in Names /\ p \in Names /\ p \in UpTo[n] /\ Len(p) = Len(n) - 1 /\ Len(n) \in Nat
      /\ \A a \in UpTo[n] : a # n => a \in UpTo[p]
  BY <1>1, <1>2, <1>4, FrontFacts
<1> HIDE DEF p
<1>6. /\ K \in UpTo[p] \intersect DOMAIN choice /\ effective(p) = choice[K]
      /\ \A b \in UpTo[p] \intersect DOMAIN choice : Len(b) <= Len(K)
  BY <1>5, EffectiveFacts DEF effective
<1> HIDE DEF K
<1>7. K \in UpTo[m] /\ K # n
  <2>1. UpTo[p] \subseteq UpTo[n] /\ UpTo[n] \subseteq UpTo[m]
    BY <1>1, <1>4, <1>5, UpToOrder
  <2>2. Len(K) <= Len(p)
    BY <1>5, <1>6, UpToOrder
  <2>3. Len(K) # Len(n)
    BY <1>2, <1>5, <1>6, <2>1, <2>2
  <2> QED
    BY <1>6, <2>1, <2>3
<1>8. effective(m)' = choice'[K]
  <2>1. K \in UpTo[m] \intersect DOMAIN choice'
    BY <1>3, <1>6, <1>7
  <2>2. ASSUME NEW b \in UpTo[m] \intersect DOMAIN choice' PROVE Len(b) <= Len(K)
    <3>1. b \in DOMAIN choice /\ b # n /\ b \in UpTo[m] /\ Len(b) <= Len(n)
      BY <1>1, <1>3, <1>4, <2>2
    <3>2. b \in UpTo[n]
      BY <1>1, <1>4, <3>1, UpToOrder
    <3>3. b \in UpTo[p]
      BY <1>5, <3>1, <3>2
    <3> QED
      BY <1>6, <3>1, <3>3
  <2> QED
    BY <2>1, <2>2, EffectiveIsNext
<1> QED
  BY <1>1, <1>3, <1>4, <1>6, <1>7, <1>8 DEF p

\* A change of strategy resets the information of the names that it switches.
LEMMA ChangeKeepsInfo ==
  ASSUME TableInv, TreeInv, InfoOfEffectiveStrategy, NEW n \in Names, NEW old, NEW new,
         changeStrategy(n, old, new), Switched(n, old, new)
  PROVE  InfoOfEffectiveStrategy'
<1>1. /\ pit' = [k \in DOMAIN pit |-> IF old # new /\ k[1] \in covered(n) THEN {} ELSE pit[k]]
      /\ measured' = [m \in DOMAIN measured |->
                        IF old # new /\ m \in covered(n) THEN [measured[m] EXCEPT !.info = {}]
                        ELSE measured[m]]
  BY DEF changeStrategy
<1>2. ASSUME NEW m \in Names, m \in holders, effective(m)' # effective(m)
      PROVE  old # new /\ m \in covered(n)
  <2>1. /\ n \in UpTo[m] /\ \A c \in DOMAIN choice \intersect UpTo[m] : Len(c) <= Len(n)
        /\ effective(m) = old /\ effective(m)' = new
    BY <1>2 DEF Switched
  <2>2. m \in present(tree)
    BY <1>2, UpToOrder DEF TreeInv, Above
  <2> QED
    BY <1>2, <2>1, <2>2 DEF covered
<1>3. ASSUME NEW k \in DOMAIN pit' PROVE pit'[k] \subseteq {effective(k[1])'}
  <2>1. k \in DOMAIN pit /\ k[1] \in holders /\ k[1] \in Names
    BY <1>1, <1>3, HolderNames
  <2>2. pit[k] \subseteq {effective(k[1])}
    BY <2>1 DEF InfoOfEffectiveStrategy
  <2>3. CASE effective(k[1])' = effective(k[1])
    BY <1>1, <2>1, <2>2, <2>3
  <2>4. CASE effective(k[1])' # effective(k[1])
    BY <1>1, <1>2, <2>1, <2>4
  <2> QED
    BY <2>3, <2>4
<1>4. ASSUME NEW m \in DOMAIN measured' PROVE measured'[m].info \subseteq {effective(m)'}
  <2>1. m \in DOMAIN measured /\ m \in holders /\ m \in Names
    BY <1>1, <1>4, HolderNames
  <2>2. measured[m].info \subseteq {effective(m)} /\ measured[m] \in [left : Nat, info : SUBSET Strategies]
    BY <2>1 DEF InfoOfEffectiveStrategy, TableInv, IsMeasured
  <2>3. measured'[m] = measured[m] \/ measured'[m].info = {}
    BY <1>1, <2>1, <2>2
  <2>4. CASE effective(m)' = effective(m)
    BY <2>2, <2>3, <2>4
  <2>5. CASE effective(m)' # effective(m)
    <3>1. measured'[m] = [measured[m] EXCEPT !.info = {}]
      BY <1>1, <1>2, <2>1, <2>5
    <3> QED
      BY <2>2, <3>1
  <2> QED
    BY <2>4, <2>5
<1> QED
  BY <1>3, <1>4 DEF InfoOfEffectiveStrategy

\* Measurements of a strategy in its own namespace, and PIT entries with its information.
LEMMA GrowthKeepsInfo ==
  ASSUME TableInv, InfoOfEffectiveStrategy, choice' = choice,
         \/ \A x \in DOMAIN measured' : \A i \in measured'[x].info :
              x \in DOMAIN measured /\ i \in measured[x].info
         \/ \E U, s : Grown(measured', U, s),
         \A l \in DOMAIN pit' : \A i \in pit'[l] :
           (l \in DOMAIN pit /\ i \in pit[l]) \/ i = effective(l[1])
  PROVE  InfoOfEffectiveStrategy'
<1>1. \A x : effective(x)' = effective(x)
  BY DEF effective
<1>2. ASSUME NEW l \in DOMAIN pit', NEW i \in pit'[l] PROVE i = effective(l[1])'
  BY <1>1, <1>2 DEF InfoOfEffectiveStrategy
<1>3. ASSUME NEW x \in DOMAIN measured', NEW i \in measured'[x].info PROVE i = effective(x)'
  <2>1. (x \in DOMAIN measured /\ i \in measured[x].info) \/ i = effective(x)
    BY <1>3 DEF Grown
  <2> QED
    BY <1>1, <2>1 DEF InfoOfEffectiveStrategy
<1> QED
  BY <1>2, <1>3 DEF InfoOfEffectiveStrategy

\* The strategy that receives an Interest is in charge of it.
LEMMA ReceiveInfo ==
  ASSUME TableInv, InfoOfEffectiveStrategy, NEW k \in PitKeys, ReceiveInterest(k)
  PROVE  InfoOfEffectiveStrategy'
<1>1. choice' = choice /\ k[1] \in Names
  BY ConstantNames DEF ReceiveInterest
<1>2. /\ measured' = measured \/ (measured' = nccReceived(k[1]) /\ effective(k[1]) = "ncc")
      /\ \E S : pit' = pitWith(k, S) /\ S \subseteq {effective(k[1])}
  BY DEF ReceiveInterest, NccReceive, AccessReceive, Measure
<1>3. \/ \A x \in DOMAIN measured' : \A i \in measured'[x].info :
           x \in DOMAIN measured /\ i \in measured[x].info
      \/ \E U, s : Grown(measured', U, s)
  <2>1. CASE measured' = measured
    BY <2>1
  <2>2. CASE measured' = nccReceived(k[1]) /\ effective(k[1]) = "ncc"
    <3>1. "ncc" \in Strategies
      BY <1>1, <2>2, EffectiveFacts
    <3>2. Grown(measured', UpTo[k[1]], "ncc")
      BY <1>1, <2>2, <3>1, NccReceivedFacts
    <3> QED
      BY <3>2
  <2> QED
    BY <1>2, <2>1, <2>2
<1>4. ASSUME NEW l \in DOMAIN pit', NEW i \in pit'[l]
      PROVE  (l \in DOMAIN pit /\ i \in pit[l]) \/ i = effective(l[1])
  <2>1. PICK S : pit' = pitWith(k, S) /\ S \subseteq {effective(k[1])}
    BY <1>2
  <2>2. S \in SUBSET Strategies
    BY <1>1, <2>1, EffectiveFacts
  <2>3. \A x \in DOMAIN pitWith(k, S) : \A j \in pitWith(k, S)[x] :
          (x \in DOMAIN pit /\ j \in pit[x]) \/ (x = k /\ j \in S)
    BY <2>2, PitWithFacts
  <2> QED
    BY <1>4, <2>1, <2>3
<1> QED
  BY <1>1, <1>3, <1>4, GrowthKeepsInfo

\* NccStrategy leaves information in its namespace only.
LEMMA NccInfo ==
  ASSUME TableInv, InfoOfEffectiveStrategy, NEW k \in DOMAIN pit, DoPropagate(k) \/ NccUpdate(k)
  PROVE  InfoOfEffectiveStrategy'
<1>1. k[1] \in Names /\ UNCHANGED <<pit, choice>>
  BY ConstantNames DEF DoPropagate, NccUpdate, TableInv
<1>2. Grown(measured', UpTo[k[1]], "ncc")
  <2>1. CASE DoPropagate(k)
    <3>1. "ncc" \in Strategies
      BY <2>1 DEF DoPropagate, TableInv
    <3> QED
      BY <1>1, <2>1, <3>1, NccReceivedFacts DEF DoPropagate, Measure
  <2>2. CASE NccUpdate(k)
    BY <1>1, <2>2, NccUpdatedFacts DEF NccUpdate, Measure
  <2> QED
    BY <2>1, <2>2
<1> QED
  BY <1>1, <1>2, GrowthKeepsInfo

\* So does AccessStrategy.
LEMMA AccessInfo ==
  ASSUME TableInv, InfoOfEffectiveStrategy, NEW k \in DOMAIN pit, NEW d \in DataNames, AccessUpdate(k, d)
  PROVE  InfoOfEffectiveStrategy'
<1> DEFINE at == measuredFor(d)
           g == gotten(measured, lookedUp(d))
           i == informed(extended(g, {at}, ME_LIFETIME), {at}, "access")
<1>1. d \in Names /\ at \in Names /\ lookedUp(d) \subseteq UpTo[at]
  BY ConstantNames, AccessNames
<1>2. UNCHANGED <<pit, choice>>
  BY DEF AccessUpdate
<1>3. Grown(measured', UpTo[at], "access")
  <2>1. CASE effective(at) = "access" /\ measured' = i
    <3> HIDE DEF at, i
    <3>1. at = measuredFor(d) /\ i = informed(extended(gotten(measured, lookedUp(d)), {at}, ME_LIFETIME), {at}, "access")
      BY DEF at, i
    <3>2. Grown(i, UpTo[at], "access")
      BY <1>1, <2>1, <3>1, AccessUpdatedFacts
    <3> QED
      BY <2>1, <3>2
  <2>2. CASE measured' = g
    <3> DEFINE U == UpTo[at]
    <3>1. lookedUp(d) \in SUBSET Names /\ lookedUp(d) \subseteq U
      BY <1>1, UpToOrder
    <3> HIDE DEF U
    <3>2. Grown(g, U, "access")
      BY <3>1, GottenFacts
    <3> QED
      BY <2>2, <3>2 DEF U
  <2> QED
    BY <2>1, <2>2, Zenon DEF AccessUpdate, Measure
<1> QED
  BY <1>2, <1>3, GrowthKeepsInfo

\* Inserting a choice resets the information in the region that it switches.
LEMMA ChoiceInsertInfo ==
  ASSUME TableInv, TableInv', TreeInv, InfoOfEffectiveStrategy,
         NEW n \in ChoiceNames, NEW s \in Strategies, ChoiceInsert(n, s)
  PROVE  /\ InfoOfEffectiveStrategy'
         /\ changeStrategy(n, effective(n), s) /\ Switched(n, effective(n), s)
<1>1. n \in Names
  BY ConstantNames
<1>2. (IF n \in DOMAIN choice THEN choice[n] ELSE findEffectiveStrategy(n)) = effective(n)
  <2>1. CASE n \in DOMAIN choice
    <3>1. n \in UpTo[n] /\ \A b \in UpTo[n] : Len(b) <= Len(n)
      BY <1>1, UpToOrder
    <3> QED
      BY <1>1, <2>1, <3>1, EffectiveIs
  <2>2. CASE n \notin DOMAIN choice
    BY <1>1, <2>2, SameStrategy
  <2> QED
    BY <2>1, <2>2
<1>3. changeStrategy(n, effective(n), s)
  <2>1. changeStrategy(n, IF n \in DOMAIN choice THEN choice[n] ELSE findEffectiveStrategy(n), s)
    BY DEF ChoiceInsert
  <2> DEFINE old == IF n \in DOMAIN choice THEN choice[n] ELSE findEffectiveStrategy(n)
  <2>2. changeStrategy(n, old, s) /\ old = effective(n)
    BY <1>2, <2>1
  <2> HIDE DEF old
  <2> QED
    BY <2>2
<1>4. Switched(n, effective(n), s)
  BY <1>1, InsertSwitches DEF ChoiceInsert
<1>5. InfoOfEffectiveStrategy'
  BY <1>1, <1>3, <1>4, ChangeKeepsInfo
<1> QED
  BY <1>3, <1>4, <1>5

\* So does erasing one.
LEMMA ChoiceEraseInfo ==
  ASSUME TableInv, TableInv', TreeInv, InfoOfEffectiveStrategy, NEW n \in ChoiceNames, ChoiceErase(n)
  PROVE  /\ InfoOfEffectiveStrategy'
         /\ changeStrategy(n, choice[n], effective(Front(n)))
         /\ Switched(n, choice[n], effective(Front(n)))
<1>1. n \in Names /\ n # <<>> /\ n \in DOMAIN choice
  BY ConstantNames DEF ChoiceErase
<1>2. findEffectiveStrategy(Front(n)) = effective(Front(n))
  BY <1>1, FrontFacts, SameStrategy
<1>3. changeStrategy(n, choice[n], effective(Front(n)))
  <2> DEFINE new == findEffectiveStrategy(Front(n))
  <2>1. changeStrategy(n, choice[n], new) /\ new = effective(Front(n))
    BY <1>2 DEF ChoiceErase
  <2> HIDE DEF new
  <2> QED
    BY <2>1
<1>4. Switched(n, choice[n], effective(Front(n)))
  BY <1>1, EraseSwitches DEF ChoiceErase
<1>5. InfoOfEffectiveStrategy'
  BY <1>1, <1>3, <1>4, ChangeKeepsInfo
<1> QED
  BY <1>3, <1>4, <1>5

\* Steps that take entries away or leave their information alone.
LEMMA QuietInfo ==
  ASSUME TableInv, InfoOfEffectiveStrategy, choice' = choice,
         \A l \in DOMAIN pit' : l \in DOMAIN pit /\ pit'[l] = pit[l],
         \A x \in DOMAIN measured' : x \in DOMAIN measured /\ measured'[x].info = measured[x].info
  PROVE  InfoOfEffectiveStrategy'
  BY GrowthKeepsInfo

\* The steps that touch no information of an entry that stays.
LEMMA QuietSteps ==
  ASSUME TableInv, CleanupInv,
         \/ \E n \in FibNames : FibInsert(n) \/ FibErase(n)
         \/ \E k \in DOMAIN pit : PitErase(k)
         \/ \E c \in cleanups : Cleanup(c)
         \/ Tick
         \/ UNCHANGED vars
  PROVE  /\ choice' = choice /\ failed' = failed /\ changed' = changed
         /\ \A l \in DOMAIN pit' : l \in DOMAIN pit /\ pit'[l] = pit[l]
         /\ \A x \in DOMAIN measured' : x \in DOMAIN measured /\ measured'[x].info = measured[x].info
<1>1. CASE \E n \in FibNames : FibInsert(n) \/ FibErase(n)
  BY <1>1 DEF FibInsert, FibErase
<1>2. CASE \E k \in DOMAIN pit : PitErase(k)
  BY <1>2 DEF PitErase
<1>3. CASE \E c \in cleanups : Cleanup(c)
  BY <1>3 DEF Cleanup
<1>4. CASE Tick
  <2>1. /\ UNCHANGED <<choice, failed, changed, pit>>
        /\ measured' = [n \in DOMAIN measured |-> [measured[n] EXCEPT !.left = measured[n].left - 1]]
    BY <1>4 DEF Tick
  <2>2. \A n \in DOMAIN measured : measured[n] \in [left : Nat, info : SUBSET Strategies]
    BY DEF TableInv, IsMeasured
  <2> QED
    BY <2>1, <2>2
<1>5. CASE UNCHANGED vars
  BY <1>5 DEF vars, tables
<1> QED
  BY <1>1, <1>2, <1>3, <1>4, <1>5

\* Every step keeps information with its strategy.
LEMMA InfoStep ==
  ASSUME TableInv, TableInv', CleanupInv, TreeInv, InfoOfEffectiveStrategy, [Next]_vars
  PROVE  InfoOfEffectiveStrategy'
<1>1. CASE \/ \E n \in FibNames : FibInsert(n) \/ FibErase(n)
           \/ \E k \in DOMAIN pit : PitErase(k)
           \/ \E c \in cleanups : Cleanup(c)
           \/ Tick
           \/ UNCHANGED vars
  BY <1>1, QuietSteps, QuietInfo
<1>2. CASE \E k \in PitKeys : ReceiveInterest(k)
  BY <1>2, ReceiveInfo
<1>3. CASE \E k \in DOMAIN pit : DoPropagate(k) \/ NccUpdate(k)
  BY <1>3, NccInfo
<1>4. CASE \E k \in DOMAIN pit, d \in DataNames : AccessUpdate(k, d)
  BY <1>4, AccessInfo
<1>5. CASE \E n \in ChoiceNames : ChoiceErase(n) \/ \E s \in Strategies : ChoiceInsert(n, s)
  BY <1>5, ChoiceEraseInfo, ChoiceInsertInfo
<1> QED
  BY <1>1, <1>2, <1>3, <1>4, <1>5, Zenon DEF Next

\* There is no information to start with.
LEMMA InfoInit ==
  ASSUME Init
  PROVE  InfoOfEffectiveStrategy
<1>1. DOMAIN pit = {} /\ DOMAIN measured = {}
  BY DEF Init
<1> QED
  BY <1>1 DEF InfoOfEffectiveStrategy

\* Strategy information belongs to the strategy in charge of the name, whatever choices
\* are inserted, replaced and erased around it (StrategyChoice::changeStrategy).
THEOREM InfoIsOfStrategy == Spec => []InfoOfEffectiveStrategy
<1> DEFINE Inv == TableInv /\ CleanupInv /\ TreeInv /\ InfoOfEffectiveStrategy
<1>1. Init => Inv
  BY TablesInit, TreeInit, InfoInit
<1>2. Inv /\ [Next]_vars => Inv'
  BY TablesStep, TreeStep, InfoStep
<1> QED
  BY <1>1, <1>2, PTL DEF Spec

----------------------------------------------------------------------------
(* The assertions of AccessStrategy                                        *)

\* Before a strategy is changed or nested, no assertion has failed, and measurements in the
\* namespace of AccessStrategy have its information.
AccessInv ==
  \/ changed \/ Nested
  \/ ~failed /\ \A x \in DOMAIN measured : effective(x) = "access" => "access" \in measured[x].info

\* A name below an access namespace that another strategy is in charge of.
LEMMA NestedFrom ==
  ASSUME TableInv, NEW n \in Names, NEW a \in UpTo[n],
         effective(a) = "access", effective(n) # "access"
  PROVE  Nested
<1> DEFINE A == Longest(UpTo[a] \intersect DOMAIN choice)
           B == Longest(UpTo[n] \intersect DOMAIN choice)
<1>1. a \in Names /\ UpTo[a] \subseteq UpTo[n]
  BY UpToOrder
<1>2. A \in UpTo[a] \intersect DOMAIN choice /\ choice[A] = "access"
  BY <1>1, EffectiveFacts DEF effective
<1>3. /\ B \in UpTo[n] \intersect DOMAIN choice /\ choice[B] # "access"
      /\ \A c \in UpTo[n] \intersect DOMAIN choice : Len(c) <= Len(B)
  BY EffectiveFacts DEF effective
<1> HIDE DEF A, B
<1>4. A \in UpTo[n] /\ Len(A) <= Len(B)
  BY <1>1, <1>2, <1>3
<1>5. A \in UpTo[B]
  BY <1>3, <1>4, UpToOrder
<1> QED
  BY <1>2, <1>3, <1>5 DEF Nested

\* Steps that leave the choices alone: new measurements in an access namespace have
\* information, and an assertion fails only if there is nesting.
LEMMA GrowthKeepsAccess ==
  ASSUME TableInv, AccessInv, choice' = choice, changed' = changed,
         failed' = failed \/ (failed' = TRUE /\ (changed \/ Nested)),
         changed \/ Nested \/ \A x \in DOMAIN measured' :
           \/ x \in DOMAIN measured /\ measured[x].info \subseteq measured'[x].info
           \/ effective(x) = "access" => "access" \in measured'[x].info
  PROVE  AccessInv'
<1>1. \A x : effective(x)' = effective(x)
  BY DEF effective
<1>2. Nested' <=> Nested
  BY DEF Nested
<1>3. CASE changed \/ Nested
  BY <1>2, <1>3 DEF AccessInv
<1>4. CASE ~(changed \/ Nested)
  <2>1. ~failed /\ \A x \in DOMAIN measured : effective(x) = "access" => "access" \in measured[x].info
    BY <1>4 DEF AccessInv
  <2>2. ~failed'
    BY <1>4, <2>1
  <2>3. ASSUME NEW x \in DOMAIN measured', effective(x)' = "access" PROVE "access" \in measured'[x].info
    BY <1>1, <1>4, <2>1, <2>3
  <2> QED
    BY <2>2, <2>3 DEF AccessInv
<1> QED
  BY <1>3, <1>4

\* New entries of NccStrategy are in its namespace, or just above it.
LEMMA NccNew ==
  ASSUME TableInv, NEW n \in Names, effective(n) = "ncc", NEW x,
         \/ x = n \/ effective(x) = "ncc"
         \/ \E a \in UpTo[n] : a # <<>> /\ x = Front(a) /\ effective(a) = "ncc"
  PROVE  Nested \/ effective(x) # "access"
<1> SUFFICES ASSUME effective(x) = "access" PROVE Nested
  OBVIOUS
<1>1. PICK a \in UpTo[n] : a # <<>> /\ x = Front(a) /\ effective(a) = "ncc"
  OBVIOUS
<1>2. a \in Names /\ x \in UpTo[a]
  BY <1>1, UpToOrder, FrontFacts
<1> QED
  BY <1>1, <1>2, NestedFrom

\* An Interest makes no new entry without information in an access namespace.
LEMMA ReceiveAccess ==
  ASSUME TableInv, AccessInv, NEW k \in PitKeys, ReceiveInterest(k)
  PROVE  AccessInv'
<1>1. choice' = choice /\ changed' = changed /\ k[1] \in Names /\ ~failed
  BY ConstantNames DEF ReceiveInterest
<1>2. measured' = measured \/ (measured' = nccReceived(k[1]) /\ effective(k[1]) = "ncc")
  BY DEF ReceiveInterest, NccReceive, AccessReceive, Measure
<1>3. failed' = failed \/ (failed' = TRUE /\ withoutInfo(k[1]))
  BY DEF ReceiveInterest, NccReceive, AccessReceive
<1>4. withoutInfo(k[1]) => changed \/ Nested
  <2> SUFFICES ASSUME withoutInfo(k[1]), ~(changed \/ Nested) PROVE FALSE
    OBVIOUS
  <2>1. PICK a \in prefixMeasurements(k[1]) : "access" \notin measured[a].info
    BY DEF withoutInfo, hasInfo
  <2>2. a \in DOMAIN measured /\ effective(a) = "access"
    BY <2>1 DEF prefixMeasurements
  <2> QED
    BY <2>1, <2>2 DEF AccessInv
<1>5. changed \/ Nested \/ \A x \in DOMAIN measured' :
        \/ x \in DOMAIN measured /\ measured[x].info \subseteq measured'[x].info
        \/ effective(x) = "access" => "access" \in measured'[x].info
  <2>1. CASE measured' = measured
    BY <2>1
  <2>2. CASE measured' = nccReceived(k[1]) /\ effective(k[1]) = "ncc"
    <3>1. "ncc" \in Strategies
      BY <1>1, <2>2, EffectiveFacts
    <3>2. /\ Grown(measured', UpTo[k[1]], "ncc")
          /\ \A x \in DOMAIN measured' \ DOMAIN measured :
               \/ x = k[1] \/ effective(x) = "ncc"
               \/ \E a \in UpTo[k[1]] : a # <<>> /\ x = Front(a) /\ effective(a) = "ncc"
      BY <1>1, <2>2, <3>1, NccReceivedFacts
    <3>3. \A x \in DOMAIN measured' \ DOMAIN measured : Nested \/ effective(x) # "access"
      BY <1>1, <2>2, <3>2, NccNew
    <3> QED
      BY <3>2, <3>3 DEF Grown
  <2> QED
    BY <1>2, <2>1, <2>2
<1> QED
  BY <1>1, <1>3, <1>4, <1>5, GrowthKeepsAccess

\* Nor do the timers of NccStrategy, unless namespaces are nested.
LEMMA NccAccess ==
  ASSUME TableInv, InfoOfEffectiveStrategy, AccessInv, NEW k \in DOMAIN pit,
         DoPropagate(k) \/ NccUpdate(k)
  PROVE  AccessInv'
<1>1. k[1] \in Names /\ choice' = choice /\ changed' = changed /\ failed' = failed
  BY ConstantNames DEF DoPropagate, NccUpdate, TableInv
<1>2. effective(k[1]) = "ncc"
  BY DEF DoPropagate, NccUpdate, InfoOfEffectiveStrategy
<1>3. "ncc" \in Strategies
  BY <1>1, <1>2, EffectiveFacts
<1>4. /\ Grown(measured', UpTo[k[1]], "ncc")
      /\ \A x \in DOMAIN measured' \ DOMAIN measured :
           \/ x = k[1] \/ effective(x) = "ncc"
           \/ \E a \in UpTo[k[1]] : a # <<>> /\ x = Front(a) /\ effective(a) = "ncc"
  <2>1. CASE DoPropagate(k)
    BY <1>1, <1>3, <2>1, NccReceivedFacts DEF DoPropagate, Measure
  <2>2. CASE NccUpdate(k)
    BY <1>1, <1>2, <2>2, NccUpdatedFacts DEF NccUpdate, Measure
  <2> QED
    BY <2>1, <2>2
<1>5. \A x \in DOMAIN measured' \ DOMAIN measured : Nested \/ effective(x) # "access"
  BY <1>1, <1>2, <1>4, NccNew
<1>6. changed \/ Nested \/ \A x \in DOMAIN measured' :
        \/ x \in DOMAIN measured /\ measured[x].info \subseteq measured'[x].info
        \/ effective(x) = "access" => "access" \in measured'[x].info
  BY <1>4, <1>5 DEF Grown
<1> QED
  BY <1>1, <1>6, GrowthKeepsAccess

\* Nor does Data; it is in the namespace of its Interest, unless they are nested.
LEMMA AccessAccess ==
  ASSUME TableInv, AccessInv, NEW k \in DOMAIN pit, NEW d \in DataNames, AccessUpdate(k, d)
  PROVE  AccessInv'
<1> DEFINE at == measuredFor(d)
           g == gotten(measured, lookedUp(d))
           i == informed(extended(g, {at}, ME_LIFETIME), {at}, "access")
<1>1. d \in Names /\ k[1] \in Names
  BY ConstantNames DEF TableInv
<1>2. choice' = choice /\ changed' = changed /\ effective(k[1]) = "access" /\ k[1] \in UpTo[d]
  BY <1>1 DEF AccessUpdate, UpTo
<1>3. CASE effective(at) = "access" /\ measured' = i /\ failed' = failed
  <2>1. /\ Grown(i, UpTo[at], "access") /\ "access" \in i[at].info
        /\ DOMAIN i = DOMAIN measured \union lookedUp(d)
    <3> HIDE DEF at, i
    <3>1. at = measuredFor(d) /\ i = informed(extended(gotten(measured, lookedUp(d)), {at}, ME_LIFETIME), {at}, "access")
      BY DEF at, i
    <3> QED
      BY <1>1, <1>3, <3>1, AccessUpdatedFacts
  <2> HIDE DEF i
  <2>2. \A x \in lookedUp(d) : x # at => effective(x) # "access"
    BY DEF lookedUp, measuredFor
  <2>3. \A x \in DOMAIN measured' :
          \/ x \in DOMAIN measured /\ measured[x].info \subseteq measured'[x].info
          \/ effective(x) = "access" => "access" \in measured'[x].info
    BY <1>3, <2>1, <2>2 DEF Grown
  <2> QED
    BY <1>2, <1>3, <2>3, GrowthKeepsAccess
<1>4. CASE effective(at) # "access" /\ measured' = g /\ failed' = TRUE
  <2>1. at = d
    BY <1>4 DEF measuredFor
  <2>2. Nested
    BY <1>1, <1>2, <1>4, <2>1, NestedFrom
  <2>3. Nested'
    BY <1>2, <2>2 DEF Nested
  <2> QED
    BY <2>3 DEF AccessInv
<1> QED
  BY <1>3, <1>4, Zenon DEF AccessUpdate, Measure

\* A choice that repeats the strategy in charge keeps nested namespaces nested.
LEMMA ChoiceInsertAccess ==
  ASSUME TableInv, TableInv', TreeInv, InfoOfEffectiveStrategy, AccessInv,
         NEW n \in ChoiceNames, NEW s \in Strategies, ChoiceInsert(n, s)
  PROVE  AccessInv'
<1>1. changeStrategy(n, effective(n), s) /\ Switched(n, effective(n), s)
  BY ChoiceInsertInfo
<1>2. /\ ~failed /\ failed' = failed /\ ~(n \in DOMAIN choice /\ choice[n] = s)
      /\ choice' = [c \in DOMAIN choice \union {n} |-> IF c = n THEN s ELSE choice[c]]
  BY DEF ChoiceInsert
<1>3. /\ measured' = [m \in DOMAIN measured |->
                        IF effective(n) # s /\ m \in covered(n) THEN [measured[m] EXCEPT !.info = {}]
                        ELSE measured[m]]
      /\ changed' = (changed \/ (effective(n) # s /\ DOMAIN measured # {}))
  BY <1>1 DEF changeStrategy
<1> SUFFICES ASSUME ~changed', ~Nested'
             PROVE  \A x \in DOMAIN measured' : effective(x)' = "access" => "access" \in measured'[x].info
  BY <1>2 DEF AccessInv
<1>4. CASE DOMAIN measured = {}
  BY <1>3, <1>4
<1>5. CASE effective(n) = s
  <2>1. /\ n \in Names /\ DOMAIN measured \subseteq Names /\ ~changed
        /\ DOMAIN measured' = DOMAIN measured /\ \A x \in DOMAIN measured : measured'[x] = measured[x]
    BY <1>3, <1>5, ConstantNames DEF TableInv, IsMeasured
  <2>2. \A m \in Names : effective(m)' = effective(m)
    BY <1>1, <1>5 DEF Switched
  <2>3. n \notin DOMAIN choice
    <3> SUFFICES ASSUME n \in DOMAIN choice PROVE FALSE
      OBVIOUS
    <3>1. n \in UpTo[n] /\ \A b \in UpTo[n] : Len(b) <= Len(n)
      BY <2>1, UpToOrder
    <3>2. effective(n) = choice[n]
      BY <2>1, <3>1, EffectiveIs
    <3> QED
      BY <1>2, <1>5, <3>2
  <2>4. \A c \in DOMAIN choice : c \in DOMAIN choice' /\ choice'[c] = choice[c]
    BY <1>2, <2>3
  <2>5. ~Nested
    BY <2>4 DEF Nested
  <2> QED
    BY <2>1, <2>2, <2>5 DEF AccessInv
<1> QED
  BY <1>3, <1>4, <1>5

\* So does erasing such a choice.
LEMMA ChoiceEraseAccess ==
  ASSUME TableInv, TableInv', TreeInv, InfoOfEffectiveStrategy, AccessInv,
         NEW n \in ChoiceNames, ChoiceErase(n)
  PROVE  AccessInv'
<1> DEFINE p == Front(n)
<1>1. changeStrategy(n, choice[n], effective(p)) /\ Switched(n, choice[n], effective(p))
  BY ChoiceEraseInfo
<1>2. /\ ~failed /\ failed' = failed /\ n # <<>> /\ n \in DOMAIN choice /\ n \in Names
      /\ choice' = [c \in DOMAIN choice \ {n} |-> choice[c]]
  BY ConstantNames DEF ChoiceErase
<1>3. /\ measured' = [m \in DOMAIN measured |->
                        IF choice[n] # effective(p) /\ m \in covered(n)
                        THEN [measured[m] EXCEPT !.info = {}] ELSE measured[m]]
      /\ changed' = (changed \/ (choice[n] # effective(p) /\ DOMAIN measured # {}))
  BY <1>1 DEF changeStrategy
<1> SUFFICES ASSUME ~changed', ~Nested'
             PROVE  \A x \in DOMAIN measured' : effective(x)' = "access" => "access" \in measured'[x].info
  BY <1>2 DEF AccessInv
<1>4. CASE DOMAIN measured = {}
  BY <1>3, <1>4
<1>5. CASE choice[n] = effective(p)
  <2>1. /\ DOMAIN measured \subseteq Names /\ ~changed
        /\ DOMAIN measured' = DOMAIN measured /\ \A x \in DOMAIN measured : measured'[x] = measured[x]
    BY <1>3, <1>5 DEF TableInv, IsMeasured
  <2>2. \A m \in Names : effective(m)' = effective(m)
    BY <1>1, <1>5 DEF Switched
  <2> DEFINE K == Longest(UpTo[p] \intersect DOMAIN choice)
  <2>3. p \in Names /\ p \in UpTo[n] /\ Len(p) = Len(n) - 1 /\ \A a \in UpTo[n] : a # n => a \in UpTo[p]
    BY <1>2, FrontFacts
  <2>4. /\ K \in UpTo[p] /\ K \in DOMAIN choice /\ choice[K] = choice[n]
        /\ \A b \in UpTo[p] \intersect DOMAIN choice : Len(b) <= Len(K)
    BY <1>5, <2>3, EffectiveFacts DEF effective
  <2> HIDE DEF K, p
  <2>5. K \in UpTo[n] /\ K # n
    <3>1. UpTo[p] \subseteq UpTo[n] /\ Len(K) <= Len(p)
      BY <1>2, <2>3, <2>4, UpToOrder
    <3>2. Len(n) \in Nat
      BY <1>2, PrefixFacts
    <3> QED
      BY <2>3, <2>4, <3>1, <3>2
  <2>6. DOMAIN choice' = DOMAIN choice \ {n} /\ \A c \in DOMAIN choice' : choice'[c] = choice[c]
    BY <1>2
  <2>7. ASSUME Nested PROVE FALSE
    <3>1. PICK a \in DOMAIN choice, b \in DOMAIN choice :
            choice[a] = "access" /\ choice[b] # "access" /\ a \in UpTo[b]
      BY <2>7 DEF Nested
    <3>2. a \in Names /\ b \in Names
      BY <3>1 DEF TableInv
    <3>3. CASE a # n /\ b # n
      BY <2>6, <3>1, <3>3 DEF Nested
    <3>4. CASE a = n
      <4>1. b # n /\ UpTo[n] \subseteq UpTo[b]
        BY <3>1, <3>2, <3>4, UpToOrder
      <4>2. K \in UpTo[b] /\ K \in DOMAIN choice' /\ b \in DOMAIN choice' /\ choice'[K] = "access"
            /\ choice'[b] # "access"
        BY <2>4, <2>5, <2>6, <3>1, <3>4, <4>1
      <4> QED
        BY <4>2 DEF Nested
    <3>5. CASE b = n /\ a # n
      <4>1. a \in UpTo[p] \intersect DOMAIN choice
        BY <2>3, <3>1, <3>5
      <4>2. Len(a) <= Len(K) /\ a \in UpTo[n]
        BY <2>4, <3>1, <3>5, <4>1
      <4>3. a \in UpTo[K]
        BY <1>2, <2>5, <4>2, UpToOrder
      <4>4. a \in DOMAIN choice' /\ K \in DOMAIN choice' /\ choice'[a] = "access" /\ choice'[K] # "access"
        BY <2>4, <2>5, <2>6, <3>1, <3>5
      <4> QED
        BY <4>3, <4>4 DEF Nested
    <3> QED
      BY <3>3, <3>4, <3>5
  <2> QED
    BY <2>1, <2>2, <2>7 DEF AccessInv
<1> QED
  BY <1>3, <1>4, <1>5

\* Every step keeps the information of AccessStrategy.
LEMMA AccessStep ==
  ASSUME TableInv, TableInv', CleanupInv, TreeInv, InfoOfEffectiveStrategy, AccessInv, [Next]_vars
  PROVE  AccessInv'
<1>1. CASE \/ \E n \in FibNames : FibInsert(n) \/ FibErase(n)
           \/ \E k \in DOMAIN pit : PitErase(k)
           \/ \E c \in cleanups : Cleanup(c)
           \/ Tick
           \/ UNCHANGED vars
  <2>1. /\ choice' = choice /\ failed' = failed /\ changed' = changed
        /\ \A x \in DOMAIN measured' : x \in DOMAIN measured /\ measured'[x].info = measured[x].info
    BY <1>1, QuietSteps
  <2> QED
    BY <2>1, GrowthKeepsAccess
<1>2. CASE \E k \in PitKeys : ReceiveInterest(k)
  BY <1>2, ReceiveAccess
<1>3. CASE \E k \in DOMAIN pit : DoPropagate(k) \/ NccUpdate(k)
  BY <1>3, NccAccess
<1>4. CASE \E k \in DOMAIN pit, d \in DataNames : AccessUpdate(k, d)
  BY <1>4, AccessAccess
<1>5. CASE \E n \in ChoiceNames : ChoiceErase(n) \/ \E s \in Strategies : ChoiceInsert(n, s)
  BY <1>5, ChoiceEraseAccess, ChoiceInsertAccess
<1> QED
  BY <1>1, <1>2, <1>3, <1>4, <1>5, Zenon DEF Next

\* The assertions of AccessStrategy fail only after a runtime change of strategies, or when
\* another strategy is in charge of a part of an access namespace (access-strategy.cpp).
THEOREM AssertionsHold == Spec => []AssertedOnlyAcrossNamespaces
<1> DEFINE Inv == TableInv /\ CleanupInv /\ TreeInv /\ InfoOfEffectiveStrategy /\ AccessInv
<1>1. Init => Inv
  <2> SUFFICES ASSUME Init PROVE Inv
    OBVIOUS
  <2>1. AccessInv
    BY DEF Init, AccessInv
  <2> QED
    BY <2>1, TablesInit, TreeInit, InfoInit
<1>2. Inv /\ [Next]_vars => Inv'
  BY TablesStep, TreeStep, InfoStep, AccessStep
<1>3. Inv => AssertedOnlyAcrossNamespaces
  BY DEF AccessInv, AssertedOnlyAcrossNamespaces
<1> QED
  BY <1>1, <1>2, <1>3, PTL DEF Spec
=============================================================================
