-------------------------- MODULE FiniteInduction --------------------------
(***************************************************************************)
(* Induction and recursion over a bounded range of numbers, for the loops  *)
(* that the specifications write as recursive functions.                   *)
(***************************************************************************)
EXTENDS Integers, WellFoundedInduction, TLAPS

\* A non-empty set of natural numbers has a smallest element.
LEMMA SmallestExists ==
  ASSUME NEW S \in SUBSET Nat, S # {}
  PROVE  \E x \in S : \A y \in S : x <= y
<1> DEFINE R == OpToRel(<, Nat)
<1>1. PICK x \in S : \A y \in S : <<y, x>> \notin R
  <2>1. IsWellFoundedOn(R, Nat)
    BY NatLessThanWellFounded
  <2> HIDE DEF R
  <2> QED
    BY <2>1, WFMin, Zenon
<1>2. ASSUME NEW y \in S, ~(x <= y) PROVE FALSE
  <2>1. y \in Nat /\ x \in Nat /\ y < x
    BY <1>2
  <2>2. <<y, x>> \in R
    BY <2>1 DEF OpToRel
  <2> QED
    BY <1>1, <2>2
<1> QED
  BY <1>2

\* A set that has 0 and the successors of its elements up to k has them all.
LEMMA BoundedInduction ==
  ASSUME NEW k \in Nat, NEW S, 0 \in S, \A i \in 1..k : i - 1 \in S => i \in S
  PROVE  \A i \in 0..k : i \in S
<1> DEFINE B == {i \in 0..k : i \notin S}
<1> SUFFICES ASSUME B # {} PROVE FALSE
  OBVIOUS
<1>1. PICK x \in B : \A y \in B : x <= y
  <2>1. B \in SUBSET Nat
    OBVIOUS
  <2> HIDE DEF B
  <2> QED
    BY <2>1, SmallestExists
<1>2. x \in 1..k /\ x - 1 \in 0..k
  BY <1>1
<1>3. x - 1 \in S
  <2>1. x - 1 \notin B
    BY <1>1, <1>2
  <2> QED
    BY <1>2, <2>1
<1> QED
  BY <1>1, <1>2, <1>3

\* F takes an element of T to the next one, and g is defined from t by it.
IsStep(F, T, k) == F \in [T \X (1..k) -> T]
IsRecursive(g, F, T, t, k) ==
  g \in [0..k -> T] /\ g[0] = t /\ \A i \in 1..k : g[i] = F[<<g[i - 1], i>>]

\* What F defines recursively from t, up to k, exists.
LEMMA BoundedRecursion ==
  ASSUME NEW k \in Nat, NEW T, NEW t \in T, NEW F, IsStep(F, T, k)
  PROVE  \E g : IsRecursive(g, F, T, t, k)
<1>0. F \in [T \X (1..k) -> T]
  BY DEF IsStep
<1> DEFINE G(j) == {g \in [0..j -> T] : g[0] = t /\ \A i \in 1..j : g[i] = F[<<g[i - 1], i>>]}
           S == {j \in 0..k : G(j) # {}}
<1>1. 0 \in S
  <2>1. [i \in 0..0 |-> t] \in G(0)
    OBVIOUS
  <2> QED
    BY <2>1
<1>2. ASSUME NEW j \in 1..k, j - 1 \in S PROVE j \in S
  <2>1. PICK g \in G(j - 1) : TRUE
    BY <1>2
  <2>2. /\ g \in [0..(j - 1) -> T] /\ g[0] = t
        /\ \A i \in 1..(j - 1) : g[i] = F[<<g[i - 1], i>>]
    BY <2>1
  <2> DEFINE h == [i \in 0..j |-> IF i = j THEN F[<<g[j - 1], j>>] ELSE g[i]]
  <2>3. \A i \in 0..j : i # j => i \in 0..(j - 1)
    BY <1>2
  <2>4. j - 1 \in 0..(j - 1) /\ g[j - 1] \in T
    BY <1>2, <2>2
  <2>5. F[<<g[j - 1], j>>] \in T
    BY <1>0, <2>4
  <2>6. h \in [0..j -> T] /\ h[0] = t
    BY <1>2, <2>2, <2>3, <2>5
  <2>7. ASSUME NEW i \in 1..j PROVE h[i] = F[<<h[i - 1], i>>]
    <3>1. i - 1 \in 0..j /\ i - 1 # j /\ h[i - 1] = g[i - 1]
      BY <1>2
    <3>2. CASE i = j
      BY <1>2, <3>1, <3>2
    <3>3. CASE i # j
      BY <1>2, <2>2, <3>1, <3>3
    <3> QED
      BY <3>2, <3>3
  <2>8. h \in G(j)
    BY <2>6, <2>7
  <2>9. j \in 0..k
    BY <1>2
  <2> HIDE DEF G
  <2> QED
    BY <2>8, <2>9
<1> HIDE DEF S
<1>3. k \in S
  BY <1>1, <1>2, BoundedInduction
<1>4. PICK g \in G(k) : TRUE
  BY <1>3 DEF S
<1> QED
  BY <1>4 DEF IsRecursive

\* g[x] is v[x] where the recursion stops, and the value at the smaller n[x] elsewhere.
Jumps(g, stop, v, n, k) == g = [x \in 1..k |-> IF stop[x] THEN v[x] ELSE g[n[x]]]

\* A recursion over 1..k that always goes on with a smaller number defines a function.
LEMMA JumpRecursion ==
  ASSUME NEW k \in Nat, NEW stop, NEW v, NEW n,
         \A x \in 1..k : ~stop[x] => n[x] \in 1..(x - 1)
  PROVE  \E g : Jumps(g, stop, v, n, k)
<1> DEFINE S == {j \in 0..k : \E g : Jumps(g, stop, v, n, j)}
<1>1. 0 \in S
  <2>1. Jumps([x \in {} |-> 0], stop, v, n, 0)
    BY DEF Jumps
  <2> QED
    BY <2>1
<1>2. ASSUME NEW j \in 1..k, j - 1 \in S PROVE j \in S
  <2>1. PICK g : Jumps(g, stop, v, n, j - 1)
    BY <1>2
  <2> DEFINE last == IF stop[j] THEN v[j] ELSE g[n[j]]
             h == [x \in 1..j |-> IF x = j THEN last ELSE g[x]]
  <2>2. ASSUME NEW x \in 1..j PROVE h[x] = IF stop[x] THEN v[x] ELSE h[n[x]]
    <3>1. ~stop[x] => n[x] \in 1..j /\ n[x] # j /\ h[n[x]] = g[n[x]]
      BY <1>2
    <3>2. CASE x = j
      BY <3>1, <3>2
    <3>3. CASE x # j
      <4>1. x \in 1..(j - 1)
        BY <3>3
      <4>2. g[x] = IF stop[x] THEN v[x] ELSE g[n[x]]
        BY <2>1, <4>1 DEF Jumps
      <4> QED
        BY <3>1, <3>3, <4>2
    <3> QED
      BY <3>2, <3>3
  <2>3. h = [x \in 1..j |-> h[x]]
    OBVIOUS
  <2> HIDE DEF h
  <2>4. Jumps(h, stop, v, n, j)
    BY <2>2, <2>3 DEF Jumps
  <2> QED
    BY <1>2, <2>4
<1> HIDE DEF S
<1>3. \A j \in 0..k : j \in S
  BY <1>1, <1>2, BoundedInduction
<1>4. k \in S
  BY <1>3
<1> QED
  BY <1>4 DEF S
=============================================================================
