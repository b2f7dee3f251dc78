SPECIFICATION Spec
CONSTANTS
  Users = {u1}
  TariffIds = {t1, t2}
  Currencies = {eur, usd}
  Keys = {k1, k2}
  RateIds = {1, 2}
  Prices = {10, 20}
  RateValues = {1, 2}
  Absent = Absent
PROPERTY ImportReplaces
