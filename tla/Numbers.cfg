SPECIFICATION NumbersSpec
CONSTANTS
  Phones = {x1, x2}
  Routes = {r1, r2}
  LinkIds = {k1, k2}
  Forms <- AllForms
  Absent = Absent
SYMMETRY Symmetry
INVARIANTS LinkedPhoneInUse FlagsConsistent HistoryExact
PROPERTIES ReactivationReviewed ImplementsPool
