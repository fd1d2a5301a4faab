CONSTANTS
  Txns = {1}
  Handlers = {h1}
  NoTxn = NoTxn
  Purposes = {"wallet_topup"}
  Ops = {"verify", "webhook", "cron"}
  Timers = {"created10m", "created20m", "paid20m"}
  FailedAttempts = FALSE
  Refunds = FALSE
  CreditMayFail = TRUE
  BatchSize = 1
  MaxCrashes = 0
SPECIFICATION FairSpec
PROPERTY CapturedIsSettled
