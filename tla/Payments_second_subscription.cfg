CONSTANTS
  Txns = {1}
  Handlers = {h1, h2}
  NoTxn = NoTxn
  Purposes = {"subscription"}
  Ops = {"subscribe", "webhook"}
  Timers = {"created10m", "created20m", "paid20m"}
  FailedAttempts = FALSE
  Refunds = FALSE
  CreditMayFail = FALSE
  BatchSize = 1
  MaxCrashes = 0
SPECIFICATION Spec
CHECK_DEADLOCK FALSE
INVARIANT PaymentBacksOneSubscription
