SPECIFICATION Spec
CONSTANTS
  b0 = b0
  b1 = b1
  b2 = b2
  b3 = b3
  x0 = x0
  x1 = x1
  x2 = x2
  y = y
  z = z
  k1 = k1
  w1 = w1
  u1 = u1
  u2 = u2
  u3 = u3
  d1 = d1
  Batches = {b0, b1, b2, b3}
  Leads = {x0, x1, x2, y, z}
  BatchOf <- With
  Past = {b0}
  Since <- Starts
  Clients = {k1}
  Walks = {w1}
  Updates = {u1, u2, u3}
  Dashboards = {d1}
  Statuses = {"new", "contacted", "called"}
  Known = {"new", "contacted"}
  Named = {x0, y}
  PageSize = 2
  Mixes <- Groups
  Budget <- OneOfEach
INVARIANTS TypeOK MissedNeedsCause WalkNeedsCause LastUpdateHolds DashboardInOrder
