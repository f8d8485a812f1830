SPECIFICATION FairSpec
CONSTANTS
  o1 = o1
  o2 = o2
  o3 = o3
  c1 = c1
  c2 = c2
  g1 = g1
  s1 = s1
  s2 = s2
  w1 = w1
  w2 = w2
  l1 = l1
  f1 = f1
  f2 = f2
  p1 = p1
  p2 = p2
  p3 = p3
  m1 = m1
  m2 = m2
  m3 = m3
  Mixes <- Groups
  None = None
  Emails = {m1, m2, m3}
  Pages = {p1, p2, p3}
  Callbacks = {o1, o2, c1, c2}
  Registers = {g1}
  Syncs = {o3, s1, s2}
  Named = {s2}
  Subscribes = {w1, w2}
  Attempts = {l1}
  For <- FacebookUsers
  Profile <- Mails
  Manages <- Seen
  PageOf <- LeadsPage
  Rank <- Keys
  PastUsers <- Users
  PastLinks <- Links
  PastPages <- Stored
  Budget <- OneOfEach
INVARIANTS TypeOK OneRowEach LoneLinkHolds OwnersWereLinked LostLeadNeedsCause SubscriptionTold
PROPERTIES RequestsEnd
