SPECIFICATION ProgressSpec
CONSTANTS
  w1 = w1  w2 = w2  s1 = s1  g1 = g1  g2 = g2  r1 = r1  r3 = r3
  Workers = {w1, w2}
  MaxFailures = 3
  Window = 4
  Lockout = 2
  MaxRows = 5
  Absent = Absent
  None = None
  Phones = {p1}
  PhoneRoutes = {r1}
  LinkIds = {k1}
  Forms <- TwoForms
  Reach <- SharedReach
  Ops = {"create", "add", "remove", "update"}
  Campaigns = {c1, c2}
  Geos = {g1, g2}
  Servers = {s1}
  Routes = {r1, r3}
  SettingIds = {1, 2}
  RouteGeo <- TwoRoutes
  Rows <- FixedRows
  Kinds = {"enable_autorotation", "disable_autorotation"}
INVARIANT FailuresBounded
PROPERTIES RequestsEnd LockEnds
