-------------------------------- MODULE MCPages --------------------------------
EXTENDS Pages, TLC

\* w1, w2 make requests on every page; x1 and x2, and y1 and y2, are two of a
\* kind wherever they stand.
CONSTANTS w1, w2, x1, x2, x3, y1, y2, z1, z2, z3

\* A clear number, a spam mark and a contradiction.
McReplies == {{"clear"}, {"other"}, {"clear", "other"}}

\* Two rows, of one route or of two, the first with or without a known provider.
McFiles ==
    {<<[name |-> n, provider |-> p], [name |-> m, provider |-> z1]>> :
        n \in RouteNames, m \in RouteNames, p \in {z1, z3}}

\* Two spellings of a name, and another name.
McFolded == x1 :> "x" @@ x2 :> "x" @@ x3 :> "y"

PageSymmetry ==
    Permutations({w1, w2}) \cup Permutations({x1, x2}) \cup Permutations({y1, y2})
================================================================================
