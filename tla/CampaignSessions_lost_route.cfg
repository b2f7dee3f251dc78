SPECIFICATION Spec
CONSTANTS
  s1 = s1  g1 = g1  g2 = g2  r1 = r1  r2 = r2  r3 = r3
  Workers = {w1, w2}
  Campaigns = {c1}
  Geos = {g1, g2}
  Servers = {s1}
  Routes = {r1, r3}
  SettingIds = {1, 2}
  None = None
  Absent = Absent
  RouteGeo <- TwoRoutes
  Rows <- FixedRows
  Kinds = {"enable_autorotation", "set_campaign_route"}
SYMMETRY Symmetry
PROPERTY OnlyAsked
