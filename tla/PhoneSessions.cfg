SPECIFICATION Spec
CONSTANTS
  Workers = {w1, w2}
  Phones = {p1}
  Routes = {r1}
  LinkIds = {k1, k2}
  Forms <- FewForms
  Absent = Absent
  Reach <- SharedReach
  Ops = {"create", "add", "remove", "update", "import", "spam"}
SYMMETRY WorkerSymmetry
INVARIANTS ActiveLinkUnique FlagsSettled ClosingsLogged
