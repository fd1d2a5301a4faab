CONSTANTS
  s1 = s1  s2 = s2  o1 = o1  b1 = b1  i1 = i1  i2 = i2  a1 = a1  a2 = a2
  Subs = {s1, s2}
  OneTime = {o1}
  Branches = {b1}
  None = None
  BranchOf <- MCBranchOf
  AllBranches = AllBranches
  Edited = {s1}
  Instances = {i1}
  Admins = {a1}
  Free = Free
  Dead = Dead
  MaxOutlived = 1
SPECIFICATION FairSpec
INVARIANTS TypeOK RunHoldsLock ItemsPerOverlap ItemlessHasCause
PROPERTIES DueIsServed PlacedIsConfirmed
