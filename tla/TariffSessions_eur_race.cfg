SPECIFICATION TariffSpec
CONSTANTS
  Users = {w1, w2}
  TariffIds = {1, 2}
  Currencies = {usd}
  Keys = {k1}
  RateIds = {1, 2}
  Prices = {10, 20}
  RateValues = {1}
  Nil = Nil
  Ops = {"create", "edit", "upsert"}
INVARIANT EurPriceExact
