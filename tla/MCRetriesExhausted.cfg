SPECIFICATION Spec
CONSTANTS
  d1 = d1
  d2 = d2
  p1 = p1
  l1 = l1
  l2 = l2
  w1 = w1
  w2 = w2
  NoMsg = NoMsg
  Deliveries = {d1}
  Payload <- OneLead
  Pages = {p1}
  Leads = {l1}
  Txs = {w1, w2}
  Workers = {w1, w2}
  MaxRetries = 1
  MaxCopies = 1
  MinPageRows = 1
  MaxPageRows = 1
  Budget <- Exhausting
SYMMETRY Slots
INVARIANTS ExhaustedIsMarkedFailed
