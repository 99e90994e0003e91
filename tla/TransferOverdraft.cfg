SPECIFICATION Spec
CONSTANTS
  c1 = c1
  c2 = c2
  a1 = a1
  a2 = a2
  ann = ann
  bob = bob
  Client = {c1}
  Account = {a1, a2}
  Customer = {ann, bob}
  Id = {"i1"}
  Currency = {"USD", "EUR", "XXX"}
  SupportedCurrency = {"USD", "EUR"}
  DefaultCurrency = "USD"
  Money <- MCMoney
  Limit <- MCLimit
  MaxEvents = 4
  MaxFailures = 0
  MaxRebuilds = 0
INVARIANT TransfersAreCovered
CHECK_DEADLOCK FALSE
