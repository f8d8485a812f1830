SPECIFICATION Spec
CONSTANTS
  o1 = o1
  o2 = o2
  o3 = o3
  o4 = o4
  s1 = s1
  s2 = s2
  s3 = s3
  c1 = c1
  u1 = u1
  budget = budget
  effective = effective
  on = on
  null = null
  Objects = {o1, o2}
  Fields = {effective}
  Values = {on, null}
  Unset = null
  Sticky = {}
  Absent = Absent
  Unique = {}
  Key <- KeyOrder
  Syncs = {s1, s2}
  Creates = {}
  Updates = {}
  Scope <- AllInScope
  Refreshed <- RefreshAll
  Eager = {}
  Pool <- NoPool
  Content0 <- AsCreated
  Stored <- StoredColumns
  Target <- Targets
  Change <- SetBudget
  Follows <- FollowUp
  Expired = {}
  PageSize = 2
  MaxAttempts = 2
  Budget <- NoFaults
INVARIANTS OneRowPerObject
