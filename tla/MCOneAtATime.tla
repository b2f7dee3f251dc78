------------------------------ MODULE MCOneAtATime -----------------------------
EXTENDS OneAtATime, TLC

\* x1 and x2, and y1 and y2, are two of a kind in each of the three.
CONSTANTS x1, x2, y1, y2, y3, z1, z2, k1, k2

\* Two routes to choose between in one GEO, one route in another.
TwoGeos == y1 :> z1 @@ y2 :> z1 @@ y3 :> z2

\* Every right and every password, though not every pair of them.
SomeForms ==
    {f \in Forms : /\ f.password = "short" => f.rights = "role"
                   /\ f.rights = "custom" => f.password = "none"}

Symmetry == Permutations({x1, x2}) \cup Permutations({y1, y2}) \cup Permutations({k1, k2})
================================================================================
