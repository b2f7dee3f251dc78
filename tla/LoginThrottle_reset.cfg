SPECIFICATION Spec
CONSTANTS
  w1 = w1  w2 = w2
  Workers = {w1}
  MaxFailures = 3
  Window = 4
  Lockout = 2
  MaxRows = 5
INVARIANT LockEarned
