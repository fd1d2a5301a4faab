CONSTANTS
  LastDay = 3
  Scheduled = {2}
  r1 = r1
  r2 = r2
  Requests = {r1, r2}
  Ops = {"adminPause", "resume", "generate", "status", "scan", "review", "reject", "approve"}
  MaxPauses = 1
SPECIFICATION Spec
INVARIANT OpenIsPayable
CHECK_DEADLOCK FALSE
