SPECIFICATION AccountsSpec
CONSTANTS
  u1 = u1  u2 = u2  w1 = w1  w2 = w2
  Workers = {w1, w2}
  Usernames = {u1, u2}
  Roles = {"admin", "operator"}
  Inputs <- PlainForms
  Serial = FALSE
  Nobody = Nobody
SYMMETRY Symmetry
INVARIANT AdminRemains
