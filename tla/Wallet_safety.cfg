CONSTANTS
  Orders = {o1}
  Bills = {b1}
  Nothing = Nothing
  Handlers = {h1, h2}
  Ops = {"topup", "checkout", "status", "bulk", "partner", "cancel", "payBill", "adminPay", "online", "credit", "debit", "subscribe"}
  CreditMayFail = TRUE
  MaxBalance = 2
  MaxEntries = 4
  MaxCrashes = 1
SPECIFICATION Spec
SYMMETRY Symmetry
VIEW View
CONSTRAINT OrdersOrBills
INVARIANTS TypeOK PaidBillHasMoney RefundedOrderHasCredit BillPaidPerHandler RefundedPerHandler DriftOnlyByCrash
