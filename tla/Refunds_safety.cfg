CONSTANTS
  LastDay = 3
  Scheduled = {2}
  r1 = r1
  r2 = r2
  Requests = {r1, r2}
  Ops = {"adminPause", "resume", "generate", "status", "scan", "review", "reject", "approve"}
  MaxPauses = 1
SYMMETRY Symmetry
SPECIFICATION Spec
INVARIANTS TypeOK RefundMatches NoDayAheadIsRaised
PROPERTY ClaimSpec
CHECK_DEADLOCK FALSE
