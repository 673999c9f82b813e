--------------------------- MODULE MCContentStore ---------------------------
(* Instances of ContentStore for TLC. *)
EXTENDS ContentStore

(* Four packets: the first has the Interest's own Name, the next two lie   *)
(* under its first child, where they have one Name and two digests, and    *)
(* the last one under its second child.  The second never becomes stale,   *)
(* the third is stale as soon as it is there.                              *)
FourPackets == 1 .. 4
ThreeNames == <<1, 2, 2, 3>>
MixedFreshness == <<2, -1, 0, 1>>

Lookup(matches, mustBeFresh, rightmost) ==
  [matches |-> matches, mustBeFresh |-> mustBeFresh, rightmost |-> rightmost,
   child |-> <<0, 1, 1, 2>>, full |-> FALSE]

\* The Interest for one packet by its full Name.
FullName(d, mustBeFresh, rightmost) ==
  [matches |-> {d}, mustBeFresh |-> mustBeFresh, rightmost |-> rightmost,
   child |-> [e \in 1 .. 4 |-> IF e = d THEN 1 ELSE -1], full |-> TRUE]

Lookups ==
  {Lookup(1 .. 4, TRUE, TRUE), Lookup({1, 3, 4}, TRUE, FALSE),
   Lookup({1, 2, 3}, FALSE, TRUE), Lookup({1}, FALSE, TRUE),
   [Lookup({2, 3, 4}, FALSE, FALSE) EXCEPT !.child = <<-1, 1, 1, 2>>],
   FullName(3, TRUE, TRUE), FullName(3, FALSE, FALSE), FullName(4, TRUE, TRUE)}
=============================================================================
