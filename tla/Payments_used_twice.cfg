CONSTANTS
  Txns = {1, 2}
  Handlers = {h1, h2}
  NoTxn = NoTxn
  Purposes = {"order"}
  Ops = {"checkout", "cron", "webhook"}
  Timers = {"created10m", "created20m", "paid20m"}
  FailedAttempts = FALSE
  Refunds = FALSE
  CreditMayFail = FALSE
  BatchSize = 1
  MaxCrashes = 0
SPECIFICATION Spec
INVARIANT PaymentUsedOnce
