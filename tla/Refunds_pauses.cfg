CONSTANTS
  LastDay = 5
  Scheduled = {4}
  r1 = r1
  r2 = r2
  Requests = {r1}
  Ops = {"pause", "resume", "autoResume"}
  MaxPauses = 3
SPECIFICATION Spec
INVARIANT SuspendedAsPaused
CHECK_DEADLOCK FALSE
