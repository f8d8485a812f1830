SPECIFICATION FairSpec
CONSTANTS
  k1 = k1
  k2 = k2
  k3 = k3
  t1 = t1
  c1 = c1
  c2 = c2
  e1 = e1
  x1 = x1
  x2 = x2
  u1 = u1
  u2 = u2
  old = old
  new = new
  Contacts = {k1, k2, k3}
  Templates = {t1}
  Creates = {c1}
  Edits = {e1}
  Deletes = {x1}
  Owner <- Owners
  By <- AllByU1
  Lists <- Named
  Contents = {old, new}
  Initial <- AtTheStart
  Budget <- OneOfEach
INVARIANTS TypeOK UnrecordedNeedsCause RowsTellTruth FreshContent
PROPERTIES RequestsEnd
