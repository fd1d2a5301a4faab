CONSTANTS
  Txns = {1}
  Handlers = {h1, h2}
  NoTxn = NoTxn
  Purposes = {"wallet_topup", "bill", "order"}
  Ops = {"verify", "check", "webhook", "checkout", "subscribe", "cron"}
  Timers = {"created10m", "created20m", "paid20m"}
  FailedAttempts = TRUE
  Refunds = TRUE
  CreditMayFail = TRUE
  BatchSize = 1
  MaxCrashes = 1
SPECIFICATION Spec
SYMMETRY Symmetry
INVARIANTS TypeOK CreditedAtMostOnce OrderedAtMostOnce MoneyBehindEveryEffect ClaimIsBacked NothingStranded
PROPERTIES SettlementSpec SettledStaysClosed AttachedOrderStays
