SPECIFICATION FairSpec
CONSTANTS
  i1 = i1
  i2 = i2
  i3 = i3
  l1 = l1
  l2 = l2
  l3 = l3
  p1 = p1
  p2 = p2
  Importers = {i1, i2, i3}
  Txs = {i1, i2, i3}
  Leads = {l1, l2, l3}
  Listing <- Crossing
  Partial <- WithoutSome
  Strict = {i3}
  PageRow <- Rows
  Budget <- OneOfEach
INVARIANTS TypeOK LeadStoredOnce AnswerAccountsForAll
PROPERTIES LedgerSpec ImportsEnd
