CONSTANTS
  o1 = o1  o2 = o2  r1 = r1  r2 = r2  h1 = h1  h2 = h2
  Orders = {o1, o2}
  Referrers = {r1, r2}
  None = None
  Handlers = {h1, h2}
SPECIFICATION Spec
SYMMETRY Symmetry
INVARIANTS TypeOK RewardedOnce UnrewardedHasCause
