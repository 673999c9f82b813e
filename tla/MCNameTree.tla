----------------------------- MODULE MCNameTree -----------------------------
(* Model checking of NameTree: one branch of three names and a sibling.     *)
EXTENDS NameTree

FiveNames == {<<>>, <<1>>, <<1, 1>>, <<1, 1, 1>>, <<1, 2>>}

\* Hashes that share buckets in the smaller tables, some beyond the word.
Hashes ==
  (<<>> :> 0) @@ (<<1>> :> 35) @@ (<<1, 1>> :> 6) @@ (<<1, 1, 1>> :> 51) @@ (<<1, 2>> :> 14)

Upper == {<<1>>, <<1, 1>>}
\* Two Interests for one of the names.
Interests == {<<<<1>>, 1>>, <<<<1, 1>>, 1>>, <<<<1, 1>>, 2>>}

Leaf == {<<1, 2>>}
Branch == {<<1>>, <<1, 1>>, <<1, 1, 1>>}
=============================================================================
