SPECIFICATION TariffSpec
CONSTANTS
  Users = {w1, w2}
  TariffIds = {1, 2}
  Currencies = {usd}
  Keys = {k1}
  RateIds = {1, 2}
  Prices = {10}
  RateValues = {1, 2}
  Nil = Nil
  Ops = {"import", "upsert"}
INVARIANT CurrentUsesLatest
