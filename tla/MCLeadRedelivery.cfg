SPECIFICATION FairSpec
CONSTANTS
  d1 = d1
  d2 = d2
  p1 = p1
  l1 = l1
  l2 = l2
  w1 = w1
  w2 = w2
  NoMsg = NoMsg
  Deliveries = {d1, d2}
  Payload <- Redelivered
  Pages = {p1}
  Leads = {l1}
  Txs = {w1, w2}
  Workers = {w1, w2}
  MaxRetries = 2
  MaxCopies = 1
  MinPageRows = 1
  MaxPageRows = 1
  Budget <- Retried
INVARIANTS TypeOK LeadStoredOnce CompletedImpliesStored
PROPERTIES LedgerSpec TasksEnd QueuedGetsStored CompletesUnlessOutrun
