SPECIFICATION RouteSpec
CONSTANTS
  w1 = w1  w2 = w2  n1 = n1  n2 = n2  p1 = p1  p2 = p2  p3 = p3
  RouteWorkers = {w1, w2}
  RouteNames = {n1, n2}
  KnownProviders = {p1, p2}
  OtherProviders = {p3}
  Files <- McFiles
  LastRoute = 2
SYMMETRY Symmetry
INVARIANT FailureAborts
