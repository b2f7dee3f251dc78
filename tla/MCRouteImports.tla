---------------------------- MODULE MCRouteImports ----------------------------
EXTENDS RouteImports, TLC

CONSTANTS w1, w2, n1, n2, p1, p2, p3

\* Two rows, of one route or of two, with and without a known provider.
McFiles == [1 .. 2 -> [name: RouteNames, provider: {p1, p3}]]

Symmetry == Permutations({w1, w2}) \cup Permutations({n1, n2})
================================================================================
