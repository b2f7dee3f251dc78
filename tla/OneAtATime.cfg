SPECIFICATION RegistersSpec
CONSTANTS
  x1 = x1  x2 = x2  y1 = y1  y2 = y2  y3 = y3  z1 = z1  z2 = z2  k1 = k1  k2 = k2
  Absent = Absent  None = None  Nobody = Nobody
  Users = {x1, x2}
  TariffIds = {y1, y2}
  Currencies = {eur, usd}
  Keys = {k1, k2}
  RateIds = {1, 2}
  Prices = {10, 20}
  RateValues = {1, 2}
  Campaigns = {x1, x2}
  Geos = {z1, z2}
  Servers = {z1, z2}
  Routes = {y1, y2, y3}
  SettingIds = {1, 2}
  RouteGeo <- TwoGeos
  Workers = {x1, x2}
  Usernames = {y1, y2}
  Roles = {"admin", "operator"}
  Inputs <- SomeForms
  Serial = TRUE
SYMMETRY Symmetry
INVARIANTS
  EurPriceExact CurrentUsesLatest
  JournalTrue VersionsCoherent PriorityFollowsJournal
  AdminRemains EditComplete
PROPERTY LostToAnother
