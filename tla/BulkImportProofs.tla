-------------------------- MODULE BulkImportProofs --------------------------
(***************************************************************************)
(* Theorems about BulkImport for every set of imports and leads, every     *)
(* listing, the strict and the tolerant imports, and every fault budget.   *)
(***************************************************************************)
EXTENDS BulkImport, LeadsTableProofs, FiniteSetTheorems, TLAPS

ImportStep(i) == Begin(i) \/ Proceed(i) \/ Fails(i)

\* What an import walks is a sequence of leads.
LEMMA ListingType ==
    ASSUME TypeOK, NEW i \in Importers
    PROVE  /\ i \in Txs /\ walk[i] \in Seq(Leads) /\ Len(walk[i]) \in Nat
           /\ \A n \in 1 .. Len(walk[i]) : n \in DOMAIN walk[i] /\ walk[i][n] \in Leads
           /\ DOMAIN walk[i] = 1 .. Len(walk[i])
  BY ImportConstants DEF TypeOK

-----------------------------------------------------------------------------
(* Types                                                                   *)

LEMMA TypeInit == Init => TypeOK
  BY ImportConstants DEF Init, TypeOK, TableInit, TableType

LEMMA FaultType ==
    ASSUME faults \in [FaultKinds -> Nat], NEW k \in FaultKinds, Fault(k)
    PROVE  /\ faults' \in [FaultKinds -> Nat] /\ faults'[k] = faults[k] + 1
           /\ \A x \in FaultKinds : faults[x] <= faults'[x]
  BY DEF Fault

LEMMA SkipType ==
    ASSUME TypeOK, NEW i \in Importers, Skip(i)
    PROVE  /\ step' = [step EXCEPT ![i] = "find"]
           /\ at' \in [Importers -> Nat \ {0}]
           /\ skipped' \in [Importers -> Nat]
  BY DEF TypeOK, Skip, Goto

\* A request that is to save or announce a lead is within its listing.
LEMMA LeadNowType ==
    ASSUME TypeOK, NEW i \in Importers, SessionOK(i), step[i] \in {"save", "announce"}
    PROVE  /\ at[i] \in 1 .. Len(walk[i]) /\ LeadNow(i) \in Leads
           /\ LeadNow(i) \in {walk[i][n] : n \in DOMAIN walk[i]}
  <1>1. at[i] \in 1 .. Len(walk[i])
    BY ListingType DEF TypeOK, SessionOK
  <1> QED
    BY <1>1, ListingType DEF LeadNow

\* TypeOK alone is not inductive: that a lead is inserted needs that the request
\* is within its listing.
LEMMA TypeStep ==
    ASSUME TypeOK, NEW i \in Importers, SessionOK(i), ImportStep(i)
    PROVE  TypeOK'
  <1> USE DEF TypeOK, Goto, tableVars
  <1>0. i \in Txs /\ TableType
    BY ListingType
  <1>1. CASE Begin(i)
    BY <1>1 DEF Begin, TableType
  <1>2. CASE Find(i)
    <2>1. TableType'
      BY <1>2 DEF Find, TableType
    <2> QED
      BY <1>2, <2>1, SkipType DEF Find
  <1>3. CASE Insert(i)
    <2>1. TableType'
      BY <1>0, <1>3, LeadNowType, InsertType DEF Insert
    <2> QED
      BY <1>3, <2>1 DEF Insert
  <1>4. CASE InsertFails(i)
    <2>1. TableType'
      BY <1>0, <1>4, RollbackType DEF InsertFails, Abandon
    <2> QED
      BY <1>4, <2>1, SkipType DEF InsertFails, Abandon, SaveRaises
  <1>5. CASE LookupFails(i)
    <2>1. TableType'
      BY <1>5 DEF LookupFails, TableType
    <2>2. faults' \in [FaultKinds -> Nat]
      BY <1>5, FaultType DEF LookupFails, FaultKinds
    <2> QED
      BY <1>5, <2>1, <2>2, SkipType DEF LookupFails, SaveRaises
  <1>6. CASE Announce(i)
    <2>1. LeadNow(i) \in Leads
      BY <1>6, LeadNowType DEF Announce
    <2> QED
      BY <1>6, <2>1 DEF Announce, TableType
  <1>7. CASE Commit(i)
    <2>1. TableType'
      BY <1>0, <1>7, CommitType DEF Commit
    <2> QED
      BY <1>7, <2>1 DEF Commit
  <1>8. CASE CommitRaises(i)
    BY <1>8 DEF CommitRaises, TableType
  <1>9. CASE Rollback(i)
    <2>1. TableType'
      BY <1>0, <1>9, RollbackType DEF Rollback, Abandon
    <2> QED
      BY <1>9, <2>1 DEF Rollback, Abandon
  <1>10. CASE FetchFails(i)
    <2>1. faults' \in [FaultKinds -> Nat]
      BY <1>10, FaultType DEF FetchFails, FaultKinds
    <2> QED
      BY <1>10, <2>1 DEF FetchFails, TableType
  <1>11. CASE Crash(i)
    <2>1. TableType'
      BY <1>0, <1>11, RollbackType DEF Crash, Abandon
    <2>2. faults' \in [FaultKinds -> Nat]
      BY <1>11, FaultType DEF Crash, FaultKinds
    <2> QED
      BY <1>11, <2>1, <2>2 DEF Crash, Abandon
  <1>12. CASE ListingFails(i)
    <2>1. faults' \in [FaultKinds -> Nat]
      BY <1>12, FaultType DEF ListingFails, FaultKinds
    <2>2. walk' \in [Importers -> Seq(Leads)]
      <3>1. PICK w \in Partial[i] : walk' = [walk EXCEPT ![i] = w]
        BY <1>12 DEF ListingFails
      <3>2. w \in Seq(Leads)
        BY ImportConstants
      <3> QED BY <3>1, <3>2
    <2> QED
      BY <1>12, <2>1, <2>2 DEF ListingFails, TableType
  <1>13. CASE CommitUnclear(i)
    <2>1. TableType'
      BY <1>0, <1>13, CommitType, RollbackType DEF CommitUnclear
    <2>2. faults' \in [FaultKinds -> Nat]
      BY <1>13, FaultType DEF CommitUnclear, FaultKinds
    <2> QED
      BY <1>13, <2>1, <2>2 DEF CommitUnclear
  <1> QED
    BY <1>1, <1>2, <1>3, <1>4, <1>5, <1>6, <1>7, <1>8, <1>9, <1>10, <1>11, <1>12, <1>13
    DEF ImportStep, Proceed, Fails

-----------------------------------------------------------------------------
(* The table and what others do                                            *)

LEMMA TableStep ==
    ASSUME TypeOK, TableInv, NEW i \in Importers, SessionOK(i), ImportStep(i)
    PROVE  TableInv'
  <1>1. CASE Insert(i)
    BY <1>1, ListingType, LeadNowType, TableInsert DEF Insert
  <1>2. CASE Commit(i)
    BY <1>2, ListingType, TableCommit DEF Commit
  <1>5. CASE CommitUnclear(i)
    BY <1>5, ListingType, TableCommit, TableRollback DEF CommitUnclear
  <1>3. CASE InsertFails(i) \/ Rollback(i) \/ Crash(i)
    BY <1>3, ListingType, TableRollback DEF InsertFails, Rollback, Crash, Abandon
  <1>4. CASE UNCHANGED tableVars
    BY <1>4, TableSame
  <1> QED
    BY <1>1, <1>2, <1>3, <1>4, <1>5
    DEF ImportStep, Begin, Proceed, Fails, Find, LookupFails, Announce, CommitRaises,
        FetchFails, ListingFails

\* No step takes a committed lead away or forgets a fault.
LEMMA StepGrows ==
    ASSUME TypeOK, NEW i \in Importers, ImportStep(i)
    PROVE  /\ \A l \in Leads : Stored(l) => Stored(l)'
           /\ faults'["lookup"] = 0 => faults["lookup"] = 0
           /\ faults'["listing"] = 0 => faults["listing"] = 0
  <1>1. \A l \in Leads : Stored(l) => Stored(l)'
    <2>1. CASE CommitTx(i)
      BY <2>1, ListingType DEF CommitTx, Stored, TypeOK, TableType
    <2>2. CASE rows' = rows
      BY <2>2 DEF Stored
    <2> QED
      BY <2>1, <2>2
      DEF ImportStep, Begin, Proceed, Fails, Find, Insert, InsertRow, InsertFails,
          LookupFails, Announce, Commit, CommitRaises, Rollback, FetchFails, ListingFails,
          CommitUnclear, Crash, Abandon, RollbackTx, tableVars
  <1>2. \A k \in {"lookup", "listing"} : faults'[k] = 0 => faults[k] = 0
    <2>1. CASE \E k \in FaultKinds : Fault(k)
      BY <2>1, FaultType DEF TypeOK, FaultKinds
    <2>2. CASE faults' = faults
      BY <2>2 DEF TypeOK, FaultKinds
    <2> QED
      BY <2>1, <2>2
      DEF ImportStep, Begin, Proceed, Fails, Find, Insert, InsertFails, LookupFails,
          Announce, Commit, CommitRaises, Rollback, FetchFails, ListingFails, CommitUnclear, Crash, FaultKinds
  <1> QED
    BY <1>1, <1>2

\* What a step of import i leaves to another one.
LEMMA StepLeaves ==
    ASSUME TypeOK, NEW i \in Importers, ImportStep(i), NEW k \in Importers \ {i}
    PROVE  /\ step'[k] = step[k] /\ at'[k] = at[k] /\ active'[k] = active[k]
           /\ walk'[k] = walk[k] /\ (k \in unclear' <=> k \in unclear)
           /\ imported'[k] = imported[k] /\ skipped'[k] = skipped[k]
           /\ answer'[k] = answer[k] /\ open'[k] = open[k]
  BY ListingType
  DEF TypeOK, TableType, ImportStep, Begin, Proceed, Fails, Find, Insert, InsertRow,
      InsertFails, LookupFails, Announce, Commit, CommitTx, CommitRaises, Rollback,
      FetchFails, ListingFails, CommitUnclear, Crash, Abandon, RollbackTx, SaveRaises, Skip, Goto, tableVars

LEMMA OthersOK ==
    ASSUME TypeOK, NEW i \in Importers, ImportStep(i), NEW k \in Importers \ {i},
           SessionOK(k), CountsOK(k)
    PROVE  SessionOK(k)' /\ CountsOK(k)'
  <1>1. /\ step'[k] = step[k] /\ at'[k] = at[k] /\ active'[k] = active[k]
        /\ walk'[k] = walk[k] /\ (k \in unclear' <=> k \in unclear)
        /\ imported'[k] = imported[k] /\ skipped'[k] = skipped[k]
        /\ answer'[k] = answer[k] /\ open'[k] = open[k]
    BY StepLeaves
  <1>2. SessionOK(k)'
    BY <1>1 DEF SessionOK, LeadNow
  <1>3. \A n \in DOMAIN walk[k] : Visible(k, walk[k][n]) => Visible(k, walk[k][n])'
    BY <1>1, ListingType, StepGrows DEF Visible, Stored
  <1>4. \A x \in {"lookup", "listing"} : faults'[x] = 0 => faults[x] = 0
    BY StepGrows
  <1> QED
    BY <1>1, <1>2, <1>3, <1>4 DEF CountsOK, Walking

-----------------------------------------------------------------------------
(* The request itself                                                      *)

\* A transaction that is rolled back, or committed, leaves nothing uncommitted.
LEMMA SessionOver ==
    ASSUME TypeOK, NEW i \in Importers, RollbackTx(i) \/ CommitTx(i)
    PROVE  open'[i] = {} /\ IsFiniteSet(open'[i])
  BY ListingType, FS_EmptySet DEF RollbackTx, CommitTx, TypeOK, TableType

\* The steps that leave what the request walks, and whose outcome it learns.
LEMMA OwnerGoesOn ==
    ASSUME TypeOK, NEW i \in Importers, SessionOK(i), CountsOK(i), ImportStep(i),
           walk' = walk, unclear' = unclear
    PROVE  SessionOK(i)' /\ CountsOK(i)'
  <1> USE DEF Goto
  <1>0. /\ i \in Txs /\ Len(walk[i]) \in Nat
        /\ at[i] \in Nat \ {0} /\ imported[i] \in Nat /\ skipped[i] \in Nat
        /\ open[i] \subseteq Leads /\ IsFiniteSet(open[i])
        /\ faults["lookup"] \in Nat
        /\ walk[i] \in Partial[i] \cup {Listing[i]}
        /\ faults'["listing"] = 0 => walk[i] = Listing[i]
    BY ListingType, StepGrows DEF TypeOK, TableType, SessionOK, CountsOK, FaultKinds
  <1>1. faults'["lookup"] = 0 => faults["lookup"] = 0
    BY StepGrows
  <1>2. CASE Begin(i)
    <2>1. /\ step[i] = "idle" /\ step'[i] = "find" /\ open'[i] = open[i]
          /\ UNCHANGED <<at, active, imported, skipped, answer, faults>>
      BY <1>2 DEF Begin, TypeOK, tableVars
    <2>2. at[i] = 1 /\ imported[i] = 0 /\ skipped[i] = 0 /\ open[i] = {} /\ Cardinality({}) = 0
      BY <2>1, FS_EmptySet DEF SessionOK
    <2>3. \A n \in DOMAIN walk[i] : ~ n < 1
      BY ListingType
    <2> QED
      BY <1>0, <2>1, <2>2, <2>3 DEF SessionOK, CountsOK, Walking
  <1>3. ASSUME step[i] \in {"find", "save"}, at[i] <= Len(walk[i]), Skip(i), imported' = imported,
               answer' = answer, active'[i] => active[i] /\ UNCHANGED tableVars,
               \/ UNCHANGED tableVars
               \/ open'[i] = {} /\ IsFiniteSet(open'[i]),
               active'[i] /\ faults'["lookup"] = 0 => Visible(i, LeadNow(i)),
               ~ active'[i] => open'[i] = {}
        PROVE  SessionOK(i)' /\ CountsOK(i)'
    <2>1. /\ step'[i] = "find" /\ at'[i] = at[i] + 1
          /\ skipped'[i] = IF i \in Strict THEN skipped[i] ELSE skipped[i] + 1
      BY <1>3 DEF Skip, TypeOK
    <2>2. SessionOK(i)'
      BY <1>0, <1>3, <2>1 DEF SessionOK, tableVars
    <2>3. ASSUME active'[i], faults'["lookup"] = 0, NEW n \in DOMAIN walk[i], n < at[i] + 1
          PROVE  Visible(i, walk[i][n])'
      <3>1. n \in Nat
        BY ListingType
      <3>2. n < at[i] \/ n = at[i]
        BY <1>0, <2>3, <3>1
      <3>3. Visible(i, walk[i][n])
        BY <1>1, <1>3, <2>3, <3>2 DEF CountsOK, Walking, LeadNow
      <3> QED
        BY <1>3, <2>3, <3>3 DEF Visible, tableVars
    <2>4. CASE active'[i]
      <3>1. /\ step[i] \in {"find", "save"} /\ active[i] /\ UNCHANGED tableVars
            /\ UNCHANGED <<imported, walk>>
        BY <1>3, <2>4
      <3>2. Cardinality(open[i]) = imported[i]
        BY <3>1 DEF CountsOK, Walking
      <3>3. Cardinality(open'[i]) = imported'[i]
        BY <3>1, <3>2 DEF tableVars
      <3>4. i \notin Strict => imported'[i] + skipped'[i] = at'[i] - 1
        BY <1>0, <1>3, <2>1 DEF CountsOK, Walking
      <3>5. step'[i] # "announce"
        BY <2>1
      <3>6. faults'["lookup"] = 0 =>
              \A n \in DOMAIN walk'[i] : n < at'[i] => Visible(i, walk[i][n])'
        BY <2>1, <2>3, <2>4
      <3> QED
        BY <1>0, <2>2, <3>3, <3>4, <3>5, <3>6 DEF CountsOK
    <2>5. CASE ~ active'[i]
      <3>1. i \notin Strict => imported'[i] + skipped'[i] = at'[i] - 1
        BY <1>0, <1>3, <2>1 DEF CountsOK, Walking
      <3> QED
        BY <1>0, <2>2, <2>5, <3>1 DEF CountsOK
    <2> QED
      BY <2>4, <2>5
  <1>4. ASSUME step'[i] = "failing", at' = at, answer' = answer,
               step[i] \notin {"idle", "done"}, ~ active'[i] => open'[i] = {},
               \/ open'[i] = open[i]
               \/ open'[i] = {} /\ IsFiniteSet(open'[i])
        PROVE  SessionOK(i)' /\ CountsOK(i)'
    BY <1>0, <1>4 DEF SessionOK, CountsOK, Walking
  <1>5. CASE Find(i)
    <2>0. /\ step[i] = "find" /\ at[i] <= Len(walk[i])
          /\ UNCHANGED <<tableVars, active, imported, answer, faults>>
      BY <1>5 DEF Find
    <2>1. CASE Skip(i)
      BY <1>3, <1>5, <2>0, <2>1 DEF Find, Skip, TypeOK, SessionOK, tableVars
    <2>2. CASE active[i] /\ step'[i] = "save" /\ UNCHANGED <<at, skipped>>
      BY <1>0, <1>1, <2>0, <2>2
      DEF SessionOK, CountsOK, Walking, Visible, tableVars
    <2>3. CASE ~ active[i] /\ step'[i] = "failing" /\ UNCHANGED <<at, skipped>>
      BY <1>4, <2>0, <2>3 DEF SessionOK, tableVars
    <2> QED
      BY <1>5, <2>1, <2>2, <2>3 DEF Find, TypeOK
  <1>6. CASE Insert(i)
    <2> DEFINE l == LeadNow(i)
    <2>1. /\ step[i] = "save" /\ step'[i] = "announce" /\ active[i]
          /\ UNCHANGED <<rows, at, active, imported, skipped, answer, faults>>
          /\ open'[i] = open[i] \cup {l} /\ l \notin open[i]
      BY <1>0, <1>6 DEF Insert, InsertRow, Visible, TypeOK, TableType, SessionOK
    <2>2. IsFiniteSet(open'[i]) /\ Cardinality(open'[i]) = Cardinality(open[i]) + 1
      BY <1>0, <2>1, FS_AddElement
    <2>3. l \in {walk[i][n] : n \in DOMAIN walk[i]} /\ l' = l
      BY <2>1, LeadNowType DEF LeadNow
    <2>4. SessionOK(i)'
      BY <1>0, <2>1, <2>2, <2>3 DEF SessionOK
    <2> QED
      BY <1>0, <2>1, <2>2, <2>4 DEF CountsOK, Walking, Visible
  <1>7. CASE InsertFails(i)
    <2>1. /\ step[i] = "save" /\ ~ active'[i] /\ SaveRaises(i)
          /\ open'[i] = {} /\ IsFiniteSet(open'[i])
          /\ UNCHANGED <<imported, answer, faults>> /\ at[i] <= Len(walk[i])
      BY <1>7, SessionOver DEF InsertFails, Abandon, TypeOK, SessionOK
    <2>2. CASE Skip(i)
      BY <1>3, <2>1, <2>2
    <2>3. CASE step'[i] = "failing" /\ at' = at
      BY <1>4, <2>1, <2>3
    <2> QED
      BY <2>1, <2>2, <2>3 DEF SaveRaises, TypeOK
  <1>8. CASE LookupFails(i)
    <2>1. /\ step[i] = "save" /\ SaveRaises(i) /\ active[i] /\ active'[i] /\ UNCHANGED tableVars
          /\ UNCHANGED <<imported, answer>> /\ at[i] <= Len(walk[i])
      BY <1>8 DEF LookupFails, SessionOK
    <2>2. faults'["lookup"] # 0
      BY <1>0, <1>8, FaultType DEF LookupFails, TypeOK, FaultKinds
    <2>3. CASE Skip(i)
      BY <1>3, <2>1, <2>2, <2>3
    <2>4. CASE step'[i] = "failing" /\ at' = at
      BY <1>4, <2>1, <2>4 DEF tableVars
    <2> QED
      BY <2>1, <2>3, <2>4 DEF SaveRaises, TypeOK
  <1>9. CASE Announce(i)
    <2>1. /\ step[i] = "announce" /\ step'[i] = "find" /\ active[i]
          /\ at[i] <= Len(walk[i]) /\ at'[i] = at[i] + 1 /\ imported'[i] = imported[i] + 1
          /\ UNCHANGED <<tableVars, active, skipped, answer, faults>>
      BY <1>9 DEF Announce, TypeOK, SessionOK
    <2>2. SessionOK(i)'
      BY <1>0, <2>1 DEF SessionOK, tableVars
    <2>3. ASSUME faults["lookup"] = 0, NEW n \in DOMAIN walk[i], n < at[i] + 1
          PROVE  Visible(i, walk[i][n])'
      <3>1. n \in Nat
        BY ListingType
      <3>2. n < at[i] \/ n = at[i]
        BY <1>0, <2>3, <3>1
      <3>3. Visible(i, walk[i][n])
        BY <2>1, <2>3, <3>2 DEF CountsOK, Walking, SessionOK, LeadNow, Visible
      <3> QED
        BY <2>1, <3>3 DEF Visible, tableVars
    <2>4. Cardinality(open'[i]) = imported'[i]
      BY <1>0, <2>1 DEF CountsOK, Walking, tableVars
    <2>5. i \notin Strict => imported'[i] + skipped'[i] = at'[i] - 1
      BY <1>0, <2>1 DEF CountsOK, Walking
    <2> QED
      BY <1>0, <2>1, <2>2, <2>3, <2>4, <2>5 DEF CountsOK
  <1>10. CASE Commit(i) \/ Rollback(i) \/ Crash(i)
    <2>1. /\ step'[i] = "done" /\ UNCHANGED at /\ open'[i] = {} /\ IsFiniteSet(open'[i])
      BY <1>10, SessionOver DEF Commit, Rollback, Crash, Abandon, TypeOK
    <2> QED
      BY <1>0, <2>1 DEF SessionOK, CountsOK, Walking
  <1>11. CASE CommitRaises(i) \/ FetchFails(i)
    <2>1. /\ step[i] = "find" /\ step'[i] = "failing"
          /\ UNCHANGED <<tableVars, at, active, answer>>
      BY <1>11 DEF CommitRaises, FetchFails, TypeOK
    <2> QED
      BY <1>4, <2>1 DEF SessionOK, tableVars
  <1>12. ~ ListingFails(i) /\ ~ CommitUnclear(i)
    <2>1. ASSUME ListingFails(i) PROVE FALSE
      <3>1. PICK w \in Partial[i] : walk' = [walk EXCEPT ![i] = w]
        BY <2>1 DEF ListingFails
      <3>2. walk'[i] = w /\ walk[i] = Listing[i] /\ Len(w) < Len(Listing[i])
        BY <2>1, <3>1, ImportConstants DEF ListingFails, TypeOK
      <3> QED BY <1>0, <3>2
    <2>2. ASSUME CommitUnclear(i) PROVE FALSE
      BY <2>2 DEF CommitUnclear, SessionOK
    <2> QED BY <2>1, <2>2
  <1> QED
    BY <1>2, <1>5, <1>6, <1>7, <1>8, <1>9, <1>10, <1>11, <1>12
    DEF ImportStep, Proceed, Fails

\* A request that forms are not listed to has not walked any lead yet.
LEMMA OwnerUnlisted ==
    ASSUME TypeOK, NEW i \in Importers, SessionOK(i), CountsOK(i), ListingFails(i)
    PROVE  SessionOK(i)' /\ CountsOK(i)'
  <1>1. /\ step[i] = "find" /\ at[i] = 1 /\ walk'[i] \in Partial[i]
        /\ UNCHANGED <<rows, open, step, at, active, imported, skipped, answer, unclear>>
        /\ faults'["listing"] # 0
    BY FaultType DEF ListingFails, FaultKinds, TypeOK, tableVars
  <1>2. /\ open[i] \subseteq Leads /\ IsFiniteSet(open[i]) /\ imported[i] \in Nat
        /\ skipped[i] \in Nat /\ walk'[i] \in Seq(Leads) /\ Len(walk'[i]) \in Nat
        /\ \A n \in DOMAIN walk'[i] : ~ n < 1
    BY <1>1, ListingType, ImportConstants DEF TypeOK, TableType, SessionOK
  <1>3. open[i] = {}
    <2>1. CASE active[i]
      <3>1. imported[i] + skipped[i] = 0
        BY <1>1, ImportConstants DEF CountsOK, Walking
      <3> QED
        BY <1>1, <1>2, <2>1, <3>1, FS_EmptySet DEF CountsOK, Walking, SessionOK
    <2>2. CASE ~ active[i]
      BY <2>2 DEF SessionOK
    <2> QED BY <2>1, <2>2
  <1> QED
    BY <1>1, <1>2, <1>3 DEF SessionOK, CountsOK, Walking

\* A commit of unknown outcome ends the request.
LEMMA OwnerUnclear ==
    ASSUME TypeOK, NEW i \in Importers, SessionOK(i), CountsOK(i), CommitUnclear(i)
    PROVE  SessionOK(i)' /\ CountsOK(i)'
  <1>1. /\ step'[i] = "done" /\ UNCHANGED <<at, walk>> /\ open'[i] = {} /\ IsFiniteSet(open'[i])
    BY SessionOver DEF CommitUnclear, Goto, TypeOK
  <1>2. faults'["listing"] = 0 => faults["listing"] = 0
    BY StepGrows DEF ImportStep, Fails
  <1> QED
    BY <1>1, <1>2 DEF SessionOK, CountsOK, Walking

LEMMA OwnerOK ==
    ASSUME TypeOK, NEW i \in Importers, SessionOK(i), CountsOK(i), ImportStep(i)
    PROVE  SessionOK(i)' /\ CountsOK(i)'
  <1>1. \/ ListingFails(i) \/ CommitUnclear(i)
        \/ walk' = walk /\ unclear' = unclear
    BY DEF ImportStep, Begin, Proceed, Fails, Find, Insert, InsertFails, LookupFails,
           Announce, Commit, CommitRaises, Rollback, FetchFails, Crash
  <1> QED BY <1>1, OwnerGoesOn, OwnerUnlisted, OwnerUnclear

-----------------------------------------------------------------------------
(* The inductive invariant                                                 *)

\* A commit finds every lead of the listing visible to the session, hence
\* stored afterwards, and every one of them counted.
LEMMA CommitAccounts ==
    ASSUME TypeOK, NEW i \in Importers, SessionOK(i), CountsOK(i), Commit(i)
    PROVE  /\ faults'["lookup"] = 0 => \A n \in DOMAIN walk[i] : Stored(walk[i][n])'
           /\ i \notin Strict => imported'[i] + skipped'[i] = Len(walk[i])
  <1>1. /\ step[i] = "find" /\ active[i] /\ at[i] > Len(walk[i]) /\ CommitTx(i)
        /\ UNCHANGED <<walk, imported, skipped, faults>>
    BY DEF Commit
  <1>2. at[i] = Len(walk[i]) + 1
    BY <1>1, ListingType DEF SessionOK, TypeOK
  <1>3. ASSUME faults["lookup"] = 0, NEW n \in DOMAIN walk[i]
        PROVE  Stored(walk[i][n])'
    <2>1. n < at[i] /\ walk[i][n] \in Leads
      BY <1>2, ListingType
    <2>2. Visible(i, walk[i][n])
      BY <1>1, <1>3, <2>1 DEF CountsOK, Walking
    <2> QED
      BY <1>1, <2>1, <2>2, ListingType DEF Visible, Stored, CommitTx, TypeOK, TableType
  <1> QED
    BY <1>1, <1>2, <1>3, ListingType DEF CountsOK, Walking, TypeOK

LEMMA AnswersNext ==
    ASSUME IInv, NEW i \in Importers, ImportStep(i)
    PROVE  AnswerAccountsForAll'
  <1>0. TypeOK /\ AnswerAccountsForAll /\ \A k \in Importers : SessionOK(k) /\ CountsOK(k)
    BY DEF IInv
  <1>k. \A k \in Importers : CountsOK(k)'
    BY <1>0, OwnerOK, OthersOK
  <1> SUFFICES ASSUME NEW k \in Importers, answer'[k] = "ok"
               PROVE  /\ faults'["lookup"] = 0 => \A n \in DOMAIN walk[k] : Stored(walk[k][n])'
                      /\ k \notin Strict => imported'[k] + skipped'[k] = Len(walk[k])
                      /\ walk'[k] = walk[k]
    BY <1>k DEF AnswerAccountsForAll, CountsOK
  <1>1. CASE answer[k] = "ok"
    <2>1. step[k] = "done"
      BY <1>0, <1>1 DEF SessionOK
    <2>2. imported'[k] = imported[k] /\ skipped'[k] = skipped[k] /\ walk'[k] = walk[k]
      <3>1. CASE k # i
        BY <1>0, <3>1, StepLeaves
      <3>2. CASE k = i
        BY <2>1, <3>2
        DEF ImportStep, Begin, Proceed, Fails, Find, Insert, InsertFails, LookupFails,
            Announce, Commit, CommitRaises, Rollback, FetchFails, ListingFails, CommitUnclear, Crash
      <3> QED
        BY <3>1, <3>2
    <2> QED
      BY <1>0, <1>1, <2>2, ListingType, StepGrows DEF AnswerAccountsForAll
  <1>2. CASE answer[k] # "ok"
    <2>1. k = i
      BY <1>0, <1>2, StepLeaves
    <2>2. Commit(i)
      BY <1>0, <1>2, <2>1
      DEF ImportStep, Begin, Proceed, Fails, Find, Insert, InsertFails, LookupFails,
          Announce, CommitRaises, Rollback, FetchFails, ListingFails, CommitUnclear, Crash, TypeOK
    <2> QED
      BY <1>0, <2>1, <2>2, CommitAccounts DEF Commit
  <1> QED
    BY <1>1, <1>2

LEMMA IInvInit == Init => IInv
  <1> SUFFICES ASSUME Init PROVE IInv
    OBVIOUS
  <1>1. TypeOK
    BY TypeInit
  <1>2. LeadStoredOnce /\ InsertsExclusive
    BY DEF Init, TableInit, LeadStoredOnce, InsertsExclusive
  <1>3. ASSUME NEW i \in Importers PROVE SessionOK(i) /\ CountsOK(i)
    <2>1. open[i] = {} /\ walk[i] = Listing[i]
      BY <1>1, ListingType DEF Init, TableInit
    <2> QED
      BY <1>1, <2>1, ListingType, FS_EmptySet DEF Init, SessionOK, CountsOK, Walking
  <1> QED
    BY <1>1, <1>2, <1>3 DEF Init, IInv, AnswerAccountsForAll

LEMMA IInvNext == IInv /\ [Next]_vars => IInv'
  <1> SUFFICES ASSUME IInv, [Next]_vars PROVE IInv'
    OBVIOUS
  <1>0. TypeOK /\ TableInv /\ \A k \in Importers : SessionOK(k) /\ CountsOK(k)
    BY DEF IInv, TableInv, TypeOK
  <1>1. ASSUME NEW i \in Importers, ImportStep(i) PROVE IInv'
    <2>1. TypeOK' /\ TableInv'
      BY <1>0, <1>1, TypeStep, TableStep
    <2>2. \A k \in Importers : SessionOK(k)' /\ CountsOK(k)'
      BY <1>0, <1>1, OwnerOK, OthersOK
    <2> QED
      BY <1>1, <2>1, <2>2, AnswersNext DEF IInv, TableInv
  <1>2. CASE UNCHANGED vars
    BY <1>2 DEF vars, IInv, TypeOK, TableType, LeadStoredOnce, InsertsExclusive,
       HeldByOther, SessionOK, CountsOK, Walking, Visible, LeadNow,
       AnswerAccountsForAll, Stored
  <1> QED
    BY <1>1, <1>2 DEF Next, ImportStep, Done

\* The conjunction of the parts is an invariant, for all constants.
THEOREM Inductive == Spec => []IInv
  BY IInvInit, IInvNext, PTL DEF Spec

\* Every variable keeps to its type, for all constants.
THEOREM TypeCorrect == Spec => []TypeOK
  <1>1. IInv => TypeOK
    BY DEF IInv
  <1> QED
    BY <1>1, Inductive, PTL

\* No import stores a lead a second time, whatever others of the same leads it
\* meets: models/lead.py's UNIQUE facebook_lead_id, for bulk imports.
THEOREM StoredOnce == Spec => []LeadStoredOnce
  <1>1. IInv => LeadStoredOnce
    BY DEF IInv
  <1> QED
    BY <1>1, Inductive, PTL

\* An answer accounts for every lead of the listing: each is stored, unless a
\* lookup failed, and a tolerant import counts each as imported or as skipped.
THEOREM AnswersAreComplete == Spec => []AnswerAccountsForAll
  <1>1. IInv => AnswerAccountsForAll
    BY DEF IInv
  <1> QED
    BY <1>1, Inductive, PTL

-----------------------------------------------------------------------------
(* Refinement: imports implement the ledger                                *)

LEMMA LedgerInit == Init => Ledger!Init
  BY DEF Init, TableInit, Ledger!Init, Stored

LEMMA StoredSame ==
    ASSUME rows' = rows
    PROVE  {l \in Leads : Stored(l)}' = {l \in Leads : Stored(l)}
  BY DEF Stored

\* The rows that a commit adds are the leads of the transaction, which the
\* table lacked and whose number the request has counted.
LEMMA LedgerCount ==
    ASSUME IInv, NEW i \in Importers, step[i] = "find", active[i],
           imported' = imported, answer[i] = "none",
           \/ answer' = [answer EXCEPT ![i] = "ok"] /\ unclear' = unclear
           \/ /\ answer' \in {[answer EXCEPT ![i] = a] : a \in {"error", "lost"}}
              /\ unclear' = unclear \cup {i}
    PROVE  \E new \in SUBSET [k \in Importers |-> {Listing[k][n] : n \in DOMAIN Listing[k]}][i] :
              new = open[i] /\ Ledger!Count(i, new)
  <1>0. /\ TypeOK /\ InsertsExclusive /\ SessionOK(i) /\ CountsOK(i) /\ i \in Txs
        /\ open[i] \subseteq Leads
    BY ListingType DEF IInv, TypeOK, TableType
  <1>1. imported[i] = Cardinality(open[i])
    BY <1>0 DEF CountsOK, Walking
  <1>2. open[i] \subseteq {Listing[i][n] : n \in DOMAIN Listing[i]}
    BY <1>0, ImportConstants DEF SessionOK
  <1>3. \A l \in open[i] : ~ Stored(l)
    BY <1>0 DEF InsertsExclusive, Stored
  <1>4. open[i] \subseteq {Listing[i][n] : n \in DOMAIN Listing[i]} \ {l \in Leads : Stored(l)}
    BY <1>2, <1>3
  <1> DEFINE told == [k \in Importers |->
                        IF answer[k] = "ok" \/ k \in unclear THEN imported[k] ELSE 0]
  <1>5. told' = [told EXCEPT ![i] = Cardinality(open[i])]
    <2>1. answer \in [Importers -> {"none", "ok", "error", "lost"}]
      BY <1>0 DEF TypeOK
    <2>2. answer'[i] = "ok" \/ i \in unclear'
      BY <2>1
    <2>3. \A k \in Importers \ {i} : answer'[k] = answer[k] /\ (k \in unclear' <=> k \in unclear)
      BY <2>1
    <2> QED BY <1>1, <2>2, <2>3
  <1>6. Ledger!Cardinality(open[i]) = Cardinality(open[i])
    BY DEF Cardinality, Ledger!Cardinality, IsFiniteSet, Ledger!IsFiniteSet
  <1>7. PICK new : new = open[i]
    OBVIOUS
  <1>8. told' = [told EXCEPT ![i] = Ledger!Cardinality(new)]
    BY <1>5, <1>6, <1>7
  <1>9. Ledger!Count(i, new)
    BY <1>4, <1>7, <1>8 DEF Ledger!Count
  <1> QED
    BY <1>2, <1>7, <1>9

LEMMA CommitStores ==
    ASSUME TypeOK, NEW i \in Importers, CommitTx(i)
    PROVE  {l \in Leads : Stored(l)}' = {l \in Leads : Stored(l)} \cup open[i]
  <1>1. open[i] \subseteq Leads
    BY ListingType DEF TypeOK, TableType
  <1>2. \A l \in Leads : Stored(l)' <=> Stored(l) \/ l \in open[i]
    BY <1>1 DEF CommitTx, Stored, TypeOK, TableType
  <1> QED BY <1>1, <1>2

LEMMA LedgerCommit ==
    ASSUME IInv, NEW i \in Importers, Commit(i)
    PROVE  Ledger!Succeed(i)
  <1>1. /\ step[i] = "find" /\ active[i] /\ CommitTx(i) /\ imported' = imported
        /\ answer' = [answer EXCEPT ![i] = "ok"] /\ answer[i] = "none" /\ unclear' = unclear
    BY DEF Commit, IInv, SessionOK
  <1>2. TypeOK
    BY DEF IInv
  <1>3. PICK new \in SUBSET [k \in Importers |-> {Listing[k][n] : n \in DOMAIN Listing[k]}][i] :
              new = open[i] /\ Ledger!Count(i, new)
    BY <1>1, LedgerCount
  <1>4. {l \in Leads : Stored(l)}' = {l \in Leads : Stored(l)} \cup open[i]
    BY <1>1, <1>2, CommitStores
  <1> QED
    BY <1>1, <1>3, <1>4 DEF Ledger!Succeed

LEMMA LedgerUnclear ==
    ASSUME IInv, NEW i \in Importers, CommitUnclear(i)
    PROVE  Ledger!FailUnclear(i)
  <1>1. /\ step[i] = "find" /\ active[i] /\ (CommitTx(i) \/ RollbackTx(i)) /\ imported' = imported
        /\ answer' \in {[answer EXCEPT ![i] = a] : a \in {"error", "lost"}}
        /\ answer[i] = "none" /\ unclear' = unclear \cup {i}
    BY DEF CommitUnclear, IInv, SessionOK
  <1>2. TypeOK
    BY DEF IInv
  <1>3. PICK new \in SUBSET [k \in Importers |-> {Listing[k][n] : n \in DOMAIN Listing[k]}][i] :
              new = open[i] /\ Ledger!Count(i, new)
    BY <1>1, LedgerCount
  <1>4. CASE CommitTx(i)
    BY <1>1, <1>2, <1>3, <1>4, CommitStores DEF Ledger!FailUnclear
  <1>5. CASE RollbackTx(i)
    BY <1>1, <1>3, <1>5, StoredSame DEF RollbackTx, Ledger!FailUnclear
  <1> QED BY <1>1, <1>4, <1>5

\* The counters of an import that has ended do not change.
LEMMA CountersKept ==
    ASSUME IInv, NEW i \in Importers, ImportStep(i), unclear' = unclear
    PROVE  \A k \in Importers : answer[k] = "ok" \/ k \in unclear => imported'[k] = imported[k]
  <1> SUFFICES ASSUME NEW k \in Importers, answer[k] = "ok" \/ k \in unclear
               PROVE  imported'[k] = imported[k]
    OBVIOUS
  <1>1. step[k] = "done" /\ TypeOK
    BY DEF IInv, SessionOK
  <1>2. CASE Announce(i)
    BY <1>1, <1>2 DEF Announce, TypeOK
  <1>3. CASE ~ Announce(i)
    BY <1>3
    DEF ImportStep, Begin, Proceed, Fails, Find, Insert, InsertFails, LookupFails,
        Commit, CommitRaises, Rollback, FetchFails, ListingFails, CommitUnclear, Crash
  <1> QED
    BY <1>2, <1>3

LEMMA LedgerNext == IInv /\ [Next]_vars => [Ledger!Next]_(Ledger!vars)
  <1> SUFFICES ASSUME IInv, [Next]_vars PROVE [Ledger!Next]_(Ledger!vars)
    OBVIOUS
  <1> DEFINE told == [k \in Importers |->
                        IF answer[k] = "ok" \/ k \in unclear THEN imported[k] ELSE 0]
  <1>0. TypeOK /\ \A k \in Importers : SessionOK(k)
    BY DEF IInv
  <1>1. ASSUME NEW i \in Importers, Commit(i) \/ CommitUnclear(i) PROVE Ledger!Next
    BY <1>1, LedgerCommit, LedgerUnclear DEF Ledger!Next
  <1>2. ASSUME NEW i \in Importers, ImportStep(i), unclear' = unclear,
               \A k \in Importers : answer'[k] = "ok" <=> answer[k] = "ok"
        PROVE  told' = told
    BY <1>2, CountersKept
  <1>3. ASSUME NEW i \in Importers, Rollback(i) \/ Crash(i) PROVE Ledger!Next
    <2>1. /\ rows' = rows /\ unclear' = unclear /\ answer[i] = "none"
          /\ \/ answer' = [answer EXCEPT ![i] = "error"]
             \/ answer' = [answer EXCEPT ![i] = "lost"]
      BY <1>0, <1>3 DEF Rollback, Crash, Abandon, RollbackTx, SessionOK
    <2>2. \A k \in Importers : answer'[k] = "ok" <=> answer[k] = "ok"
      BY <1>0, <2>1 DEF TypeOK
    <2>3. told' = told
      BY <1>2, <1>3, <2>1, <2>2 DEF ImportStep, Proceed, Fails
    <2>4. answer' \in {[answer EXCEPT ![i] = a] : a \in {"error", "lost"}}
      BY <2>1
    <2> QED
      BY <2>1, <2>3, <2>4, StoredSame DEF Ledger!Next, Ledger!Fail
  <1>4. ASSUME NEW i \in Importers, ImportStep(i), ~ Commit(i), ~ CommitUnclear(i),
               ~ Rollback(i), ~ Crash(i)
        PROVE  UNCHANGED <<rows, answer, unclear>> /\ told' = told
    <2>1. UNCHANGED <<rows, answer, unclear>>
      BY <1>4
      DEF ImportStep, Begin, Proceed, Fails, Find, Insert, InsertRow, InsertFails,
          LookupFails, Announce, CommitRaises, FetchFails, ListingFails, Abandon,
          RollbackTx, tableVars
    <2> QED
      BY <1>2, <1>4, <2>1
  <1>5. CASE UNCHANGED vars
    <2>1. UNCHANGED <<rows, answer, unclear>> /\ told' = told
      BY <1>5 DEF vars
    <2> QED BY <2>1, StoredSame DEF Ledger!vars
  <1>6. ASSUME NEW i \in Importers, ImportStep(i), ~ Commit(i), ~ CommitUnclear(i),
               ~ Rollback(i), ~ Crash(i)
        PROVE  UNCHANGED Ledger!vars
    BY <1>4, <1>6, StoredSame DEF Ledger!vars
  <1> QED
    BY <1>1, <1>3, <1>5, <1>6 DEF Next, ImportStep, Done

\* The imports implement ImportLedger: each is all or nothing, and what it
\* answers to have imported is what it has added, whoever imports beside it.
THEOREM Refinement == Spec => LedgerSpec
  BY LedgerInit, LedgerNext, Inductive, PTL DEF Spec, LedgerSpec, Ledger!Spec

-----------------------------------------------------------------------------
(* Progress                                                                *)

LEMMA WaitInit == Init => WaitInv
  BY IInvInit DEF Init, WaitInv, TableInit

LEMMA WaitNext == WaitInv /\ [Next]_vars => WaitInv'
  <1> SUFFICES ASSUME WaitInv, [Next]_vars PROVE WaitInv'
    OBVIOUS
  <1>0. IInv' /\ TypeOK /\ \A i \in Importers : SessionOK(i)
    BY IInvNext DEF WaitInv, IInv
  <1>1. ASSUME NEW i \in Importers, ImportStep(i) PROVE WaitInv'
    <2>1. \A t \in Txs \ Importers : open'[t] = open[t]
      BY <1>0, <1>1
      DEF TypeOK, TableType, ImportStep, Begin, Proceed, Fails, Find, Insert, InsertRow,
          InsertFails, LookupFails, Announce, Commit, CommitTx, CommitRaises, Rollback,
          FetchFails, ListingFails, CommitUnclear, Crash, Abandon, RollbackTx, tableVars
    <2>2. step'[i] = "save" => Find(i) /\ ~ Visible(i, LeadNow(i)) /\ UNCHANGED <<tableVars, walk, at>>
      BY <1>0, <1>1
      DEF TypeOK, ImportStep, Begin, Proceed, Fails, Find, Insert, InsertFails, LookupFails,
          Announce, Commit, CommitRaises, Rollback, FetchFails, ListingFails, CommitUnclear, Crash, SaveRaises, Skip, Goto
    <2>3. step'[i] = "save" => LeadNow(i)' \notin open'[i]
      BY <2>2 DEF Visible, LeadNow, tableVars
    <2>4. ASSUME NEW k \in Importers \ {i}, step'[k] = "save" PROVE LeadNow(k)' \notin open'[k]
      BY <1>0, <1>1, <2>4, StepLeaves DEF WaitInv, LeadNow
    <2> QED
      BY <1>0, <2>1, <2>3, <2>4 DEF WaitInv
  <1>2. CASE UNCHANGED vars
    BY <1>0, <1>2 DEF WaitInv, vars, LeadNow
  <1> QED
    BY <1>1, <1>2 DEF Next, ImportStep, Done

THEOREM WaitInductive == Spec => []WaitInv
  BY WaitInit, WaitNext, PTL DEF Spec

\* Among finitely many imports that each wait for one of them, some form a cycle:
\* of the sets of imports that wait within the set, take one with none smaller.
LEMMA CycleOfWaits ==
    ASSUME NEW B \in SUBSET Importers, IsFiniteSet(B), B # {},
           \A i \in B : \E k \in B : WaitsFor(i, k)
    PROVE  \E i \in B : InDeadlock(i)
  <1> DEFINE Within == {T \in SUBSET B : T # {} /\ \A i \in T : \E k \in T : WaitsFor(i, k)}
             R == StrictSubsetOrdering(B)
  <1>1. IsWellFoundedOn(R, SUBSET B)
    BY FS_StrictSubsetOrderingWellFounded, FS_FiniteSubsetsOfFinite
  <1>2. Within \subseteq SUBSET B /\ B \in Within
    OBVIOUS
  <1> HIDE DEF R
  <1>3. PICK T \in Within : \A U \in Within : ~ (<<U, T>> \in R)
    <2> HIDE DEF Within
    <2> QED BY <1>1, <1>2, WFMin
  <1> DEFINE U == {k \in T : \E i \in T : WaitsFor(i, k)}
  <1>4. U \in Within
    OBVIOUS
  <1>5. U = T
    <2>1. U \in SUBSET B /\ T \in SUBSET B /\ U \subseteq T /\ ~ (<<U, T>> \in R)
      BY <1>3, <1>4
    <2> HIDE DEF U
    <2> QED BY <2>1 DEF R, StrictSubsetOrdering
  <1>6. T \in SUBSET Importers /\ T # {}
    OBVIOUS
  <1>7. \A k \in T : (\E m \in T : WaitsFor(k, m)) /\ (\E m \in T : WaitsFor(m, k))
    BY <1>5
  <1>8. \A i \in T : InDeadlock(i)
    BY <1>6, <1>7 DEF InDeadlock
  <1> QED BY <1>6, <1>8

\* An import that has to wait does so for the lead of one that is under way.
LEMMA WaitsForOneUnderWay ==
    ASSUME WaitInv, NEW i \in Importers, step[i] \notin {"idle", "done"}, ~ MayGoOn(i)
    PROVE  \E k \in Importers : step[k] \notin {"idle", "done"} /\ WaitsFor(i, k)
  <1>1. step[i] = "save" /\ ~ Stored(LeadNow(i))
    BY DEF MayGoOn, WaitInv, IInv, TypeOK
  <1>2. ~ Visible(i, LeadNow(i))
    BY <1>1 DEF WaitInv, Visible, Stored
  <1>3. PICK k \in Txs \ {i} : LeadNow(i) \in open[k]
    BY <1>1, <1>2 DEF MayGoOn, HeldByOther
  <1>4. k \in Importers
    BY <1>3 DEF WaitInv
  <1>5. step[k] \notin {"idle", "done"}
    BY <1>3, <1>4 DEF WaitInv, IInv, SessionOK
  <1> QED BY <1>1, <1>3, <1>4, <1>5 DEF WaitsFor

\* Of finitely many imports, whatever they have inserted and wait for, those
\* under way never wait all: the safety half of ImportsEnd.
THEOREM OneMayGoOn == ASSUME IsFiniteSet(Importers) PROVE Spec => []NoStandstill
  <1>1. WaitInv => NoStandstill
    <2> SUFFICES ASSUME WaitInv, NEW i \in Importers, step[i] \notin {"idle", "done"},
                        \A k \in Importers : ~ MayGoOn(k)
                 PROVE  FALSE
      BY DEF NoStandstill
    <2> DEFINE B == {k \in Importers : step[k] \notin {"idle", "done"}}
    <2>1. B \in SUBSET Importers /\ B # {} /\ IsFiniteSet(B)
      BY FS_Subset
    <2>2. \A k \in B : \E m \in B : WaitsFor(k, m)
      BY WaitsForOneUnderWay
    <2>3. PICK k \in B : InDeadlock(k)
      BY <2>1, <2>2, CycleOfWaits
    <2>4. step[k] = "save"
      BY <2>2 DEF WaitsFor
    <2> QED BY <2>3, <2>4 DEF MayGoOn
  <1> QED BY <1>1, WaitInductive, PTL

LEMMA StepsLeftType ==
    ASSUME TypeOK, NEW i \in Importers, SessionOK(i)
    PROVE  StepsLeft(i) \in Nat
  <1>1. at[i] \in Nat /\ Len(walk[i]) \in Nat /\ at[i] <= Len(walk[i]) + 1
    BY ListingType DEF TypeOK, SessionOK
  <1> QED BY <1>1 DEF StepsLeft

LEMMA StepUsesUp ==
    ASSUME TypeOK, NEW i \in Importers, ImportStep(i)
    PROVE  StepsLeft(i)' < StepsLeft(i)
  <1>0. at[i] \in Nat /\ Len(walk[i]) \in Nat
    BY ListingType DEF TypeOK
  <1>l. CASE ListingFails(i)
    <2>1. PICK w \in Partial[i] : walk' = [walk EXCEPT ![i] = w]
      BY <1>l DEF ListingFails
    <2>0. w \in Seq(Leads) /\ Len(w) < Len(Listing[i])
      BY ImportConstants
    <2>2. /\ walk'[i] = w /\ Len(w) < Len(walk[i]) /\ w \in Seq(Leads) /\ Len(w) \in Nat
          /\ step' = step /\ at' = at /\ step[i] = "find"
      BY <1>l, <2>0, <2>1 DEF ListingFails, TypeOK
    <2>3. /\ StepsLeft(i) = 4 * (Len(walk[i]) + 1 - at[i]) + 3
          /\ StepsLeft(i)' = 4 * (Len(w) + 1 - at[i]) + 3
      BY <2>2 DEF StepsLeft
    <2> QED BY <1>0, <2>2, <2>3
  <1> SUFFICES ASSUME ~ ListingFails(i) PROVE StepsLeft(i)' < StepsLeft(i)
    BY <1>l
  <1>w. walk' = walk
    BY DEF TypeOK, ImportStep, Begin, Proceed, Fails, Find, Insert, InsertFails, LookupFails,
           Announce, Commit, CommitRaises, Rollback, FetchFails, CommitUnclear, Crash
  <1>1. \/ /\ at'[i] = at[i]
           /\ \/ step[i] = "idle" /\ step'[i] = "find"
              \/ step[i] = "find" /\ step'[i] \in {"save", "failing", "done"}
              \/ step[i] = "save" /\ step'[i] \in {"announce", "failing"}
              \/ step[i] \notin {"idle", "done"} /\ step'[i] = "done"
        \/ /\ at'[i] = at[i] + 1 /\ step'[i] = "find"
           /\ step[i] \in {"find", "save", "announce"}
    BY DEF TypeOK, ImportStep, Begin, Proceed, Fails, Find, Insert, InsertFails, LookupFails,
           Announce, Commit, CommitRaises, Rollback, FetchFails, CommitUnclear, Crash,
           SaveRaises, Skip, Goto
  <1>2. step[i] \in {"idle", "find", "save", "announce", "failing", "done"}
    BY DEF TypeOK
  <1> DEFINE rank(s) == CASE s = "idle" -> 4 [] s = "find" -> 3 [] s = "save" -> 2
                          [] s = "done" -> 0 [] OTHER -> 1
  <1>3. /\ rank("idle") = 4 /\ rank("find") = 3 /\ rank("save") = 2 /\ rank("announce") = 1
        /\ rank("failing") = 1 /\ rank("done") = 0
    OBVIOUS
  <1>4. /\ StepsLeft(i) = 4 * (Len(walk[i]) + 1 - at[i]) + rank(step[i])
        /\ StepsLeft(i)' = 4 * (Len(walk[i]) + 1 - at'[i]) + rank(step'[i])
    BY <1>w DEF StepsLeft
  <1> HIDE DEF rank
  <1>5. CASE at'[i] = at[i]
    <2>1. rank(step'[i]) < rank(step[i]) /\ rank(step[i]) \in Nat /\ rank(step'[i]) \in Nat
      BY <1>0, <1>1, <1>2, <1>3, <1>5
    <2> QED BY <1>0, <1>4, <1>5, <2>1
  <1>6. CASE at'[i] = at[i] + 1
    <2>1. rank(step'[i]) = 3 /\ rank(step[i]) \in {1, 2, 3}
      BY <1>0, <1>1, <1>3, <1>6
    <2>2. \A L, a \in Nat : \A r \in {1, 2, 3} : 4 * (L + 1 - (a + 1)) + 3 < 4 * (L + 1 - a) + r
      OBVIOUS
    <2>3. 4 * (Len(walk[i]) + 1 - (at[i] + 1)) + 3 < 4 * (Len(walk[i]) + 1 - at[i]) + rank(step[i])
      BY <1>0, <2>1, <2>2
    <2> QED BY <1>4, <1>6, <2>1, <2>3
  <1> QED BY <1>1, <1>5, <1>6

\* The steps of an import are numbered before it begins, whatever the others do:
\* with OneMayGoOn, all that have begun end.
THEOREM StepsAreBounded == Spec => StepsRunOut
  <1>1. IInv /\ IInv' /\ [Next]_vars =>
          [\E i \in Importers :
              /\ StepsLeft(i) \in Nat /\ StepsLeft(i)' \in Nat /\ StepsLeft(i)' < StepsLeft(i)
              /\ \A k \in Importers \ {i} : StepsLeft(k)' = StepsLeft(k)]_vars
    <2> SUFFICES ASSUME IInv, IInv', NEW i \in Importers, ImportStep(i)
                 PROVE  /\ StepsLeft(i) \in Nat /\ StepsLeft(i)' \in Nat
                        /\ StepsLeft(i)' < StepsLeft(i)
                        /\ \A k \in Importers \ {i} : StepsLeft(k)' = StepsLeft(k)
      BY DEF Next, ImportStep, Done
    <2>1. StepsLeft(i) \in Nat
      BY StepsLeftType DEF IInv
    <2>2. StepsLeft(i)' \in Nat
      <3>1. at'[i] \in Nat /\ walk'[i] \in Seq(Leads) /\ at'[i] <= Len(walk'[i]) + 1
        BY DEF IInv, TypeOK, SessionOK
      <3>2. Len(walk'[i]) \in Nat
        BY <3>1
      <3> QED BY <3>1, <3>2 DEF StepsLeft
    <2>3. StepsLeft(i)' < StepsLeft(i)
      BY StepUsesUp DEF IInv
    <2>4. \A k \in Importers \ {i} : StepsLeft(k)' = StepsLeft(k)
      BY StepLeaves DEF IInv, StepsLeft
    <2> QED BY <2>1, <2>2, <2>3, <2>4
  <1> QED BY <1>1, Inductive, PTL DEF Spec, StepsRunOut
=============================================================================
