-------------------------- MODULE LeadsTableProofs --------------------------
(***************************************************************************)
(* What each operation of the leads table does to its types, to            *)
(* LeadStoredOnce and to InsertsExclusive, whoever the session is: the     *)
(* lemmas that the proofs of its writers share.                            *)
(***************************************************************************)
EXTENDS LeadsTable, TLAPS

LEMMA InsertType ==
    ASSUME TableType, NEW t \in Txs, NEW l \in Leads, InsertRow(t, l)
    PROVE  TableType'
  BY DEF TableType, InsertRow

LEMMA CommitType ==
    ASSUME TableType, NEW t \in Txs, CommitTx(t)
    PROVE  TableType'
  BY DEF TableType, CommitTx

LEMMA RollbackType ==
    ASSUME TableType, NEW t \in Txs, RollbackTx(t)
    PROVE  TableType'
  BY DEF TableType, RollbackTx

-----------------------------------------------------------------------------
\* Exclusive inserts are why no commit stores a lead twice.
TableInv == TableType /\ LeadStoredOnce /\ InsertsExclusive

LEMMA TableInsert ==
    ASSUME TableInv, NEW t \in Txs, NEW l \in Leads, InsertRow(t, l)
    PROVE  TableInv'
  <1>1. TableType'
    BY InsertType DEF TableInv
  <1>2. rows[l] = 0 /\ ~ HeldByOther(t, l)
    BY DEF TableInv, TableType, InsertRow, Visible
  <1>3. \A u \in Txs : open'[u] \subseteq open[u] \cup (IF u = t THEN {l} ELSE {})
    BY DEF TableInv, TableType, InsertRow
  <1>4. InsertsExclusive'
    BY <1>2, <1>3 DEF TableInv, TableType, InsertsExclusive, HeldByOther, InsertRow
  <1> QED
    BY <1>1, <1>4 DEF TableInv, LeadStoredOnce, InsertRow

LEMMA TableCommit ==
    ASSUME TableInv, NEW t \in Txs, CommitTx(t)
    PROVE  TableInv'
  <1>1. TableType'
    BY CommitType DEF TableInv
  <1>2. ASSUME NEW l \in Leads PROVE rows'[l] <= 1
    BY DEF TableInv, TableType, InsertsExclusive, LeadStoredOnce, CommitTx
  <1>3. ASSUME NEW u \in Txs, NEW l \in open'[u]
        PROVE  rows'[l] = 0 /\ ~ HeldByOther(u, l)'
    <2>1. u # t /\ l \in open[u] /\ l \in Leads
      BY <1>3 DEF TableInv, TableType, CommitTx
    <2>2. rows[l] = 0 /\ ~ HeldByOther(u, l)
      BY <2>1 DEF TableInv, InsertsExclusive
    <2>3. l \notin open[t]
      BY <2>1, <2>2 DEF HeldByOther
    <2>4. ~ HeldByOther(u, l)'
      BY <2>2 DEF TableInv, TableType, HeldByOther, CommitTx
    <2> QED
      BY <2>1, <2>2, <2>3, <2>4 DEF CommitTx
  <1> QED
    BY <1>1, <1>2, <1>3 DEF TableInv, LeadStoredOnce, InsertsExclusive

LEMMA TableRollback ==
    ASSUME TableInv, NEW t \in Txs, RollbackTx(t)
    PROVE  TableInv'
  <1>1. \A u \in Txs : open'[u] \subseteq open[u]
    BY DEF TableInv, TableType, RollbackTx
  <1> QED
    BY <1>1, RollbackType
    DEF TableInv, TableType, LeadStoredOnce, InsertsExclusive, HeldByOther, RollbackTx

LEMMA TableSame ==
    ASSUME TableInv, UNCHANGED tableVars
    PROVE  TableInv'
  BY DEF TableInv, TableType, LeadStoredOnce, InsertsExclusive, HeldByOther, tableVars
=============================================================================
