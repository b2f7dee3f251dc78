SPECIFICATION SessionsSpec
CONSTANTS
  usd = usd  s1 = s1  g1 = g1  g2 = g2  r1 = r1  r2 = r2  r3 = r3
  Workers = {w1, w2}
  Users = {w1, w2}
  Campaigns = {c1, c2}
  Geos = {g1, g2}
  Servers = {s1}
  Routes = {r1, r3}
  SettingIds = {1, 2}
  None = None
  Absent = Absent
  Nil = Nil
  TariffIds = {1, 2}
  Currencies = {usd}
  Keys = {c1, c2}
  RateIds = {1, 2}
  Prices = {10}
  RateValues = {1, 2}
  Ops = {"create", "edit", "upsert", "import"}
  RouteGeo <- TwoRoutes
  Rows <- MovingRows
  Kinds = {"enable_autorotation", "set_campaign_route", "remove_campaign_route"}
SYMMETRY Symmetry
CONSTRAINT OneImportedRate
INVARIANTS
  OneOpenVersion OpenedAsAnnounced
  CurrentUnique HistoryFollows DeadlocksExplained
PROPERTIES OpenedForCampaign EditsNotLost
