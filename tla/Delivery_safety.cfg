CONSTANTS
  w1 = w1
  o1 = o1
  h1 = h1
  Runs = {w1}
  NoRun = NoRun
  Orders = {o1}
  Handlers = {h1}
  StaffOrder = {"failed"}
  StaffRun = {"cancelled"}
  Reports = {"delivered", "out_for_delivery"}
  MaxLoad = 1
  MaxStock = 2
  MaxTwice = 1
SPECIFICATION Spec
INVARIANTS TypeOK LedgerAgrees DispatchedAsLoaded
PROPERTIES HandedOverStays
VIEW View
