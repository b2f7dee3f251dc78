SPECIFICATION Spec
CONSTANTS
  Workers = {w1, w2}
  Phones = {p1}
  Routes = {r1}
  LinkIds = {k1, k2}
  Forms <- TwoForms
  Absent = Absent
  Reach <- SharedReach
  Ops = {"create", "update"}
PROPERTY ReactivationReviewed
