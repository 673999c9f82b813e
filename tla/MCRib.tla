------------------------------- MODULE MCRib -------------------------------
(* Model checking of Rib: names nested in one another and two faces.        *)
EXTENDS Rib

Nested2 == {<<1>>, <<1, 1>>}
Nested3 == {<<1>>, <<1, 1>>, <<1, 1, 1>>}

Registration(n, f, cost, childInherit, capture) ==
  [name |-> n, face |-> f,
   route |-> [cost |-> cost, childInherit |-> childInherit, capture |-> capture],
   expires |-> cost > 1]

\* The lowest name captures on face 2.  The route of the highest on face 1 changes its
\* cost and its flag, and expires.
Mixed ==
  {Registration(<<1>>, 1, 1, FALSE, FALSE), Registration(<<1>>, 1, 2, TRUE, FALSE)}
    \union {Registration(<<1, 1>>, f, 1, TRUE, FALSE) : f \in {1, 2}}
    \union {Registration(<<1, 1, 1>>, f, 1, FALSE, f = 2) : f \in {1, 2}}

\* No capture.
Plain == {Registration(n, f, 1, i, FALSE) : n \in Names, f \in Faces, i \in BOOLEAN}

\* The middle name shields the lowest from the route of the highest on face 1.
Shielding ==
  {Registration(<<1>>, 1, 2, TRUE, FALSE), Registration(<<1, 1, 1>>, 2, 1, FALSE, FALSE)}
    \union {Registration(<<1, 1>>, f, 1, TRUE, FALSE) : f \in {1, 2}}
=============================================================================
