SPECIFICATION FeedSpec
CONSTANTS
  w1 = w1  w2 = w2  p1 = p1  p2 = p2
  Writers = {w1, w2}
  Pushers = {p1, p2}
  PageLimit = 1
  LastId = 3
  LastRow = 2
SYMMETRY FeedSymmetry
INVARIANTS NoGaps
