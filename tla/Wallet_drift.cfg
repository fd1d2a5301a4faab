CONSTANTS
  Orders = {o1}
  Bills = {}
  Nothing = Nothing
  Handlers = {h1, h2}
  Ops = {"topup", "checkout", "cancel"}
  CreditMayFail = FALSE
  MaxBalance = 2
  MaxEntries = 1
  MaxCrashes = 0
SPECIFICATION Spec
CHECK_DEADLOCK FALSE
INVARIANT LedgerMatches
