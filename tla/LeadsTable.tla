----------------------------- MODULE LeadsTable -----------------------------
(***************************************************************************)
(* The `leads` table as PostgreSQL at READ COMMITTED shows it to the       *)
(* sessions of the program: a column `facebook_lead_id` with a UNIQUE      *)
(* index, and transactions that each hold the rows they have inserted but  *)
(* not committed.  A row's other columns play no part in what may be       *)
(* inserted, so the table is the number of committed rows of every lead.   *)
(* The count is not capped at one: that no lead is stored twice is to be   *)
(* shown of the writers.                                                   *)
(***************************************************************************)
EXTENDS Naturals

CONSTANTS
    Leads,  \* values of Lead.facebook_lead_id
    Txs     \* database sessions that write the table

VARIABLES
    rows,   \* rows[l]: committed rows of lead l
    open    \* open[t]: leads inserted by session t's open transaction

tableVars == <<rows, open>>

TableInit ==
    /\ rows = [l \in Leads |-> 0]
    /\ open = [t \in Txs |-> {}]

TableType ==
    /\ rows \in [Leads -> Nat]
    /\ open \in [Txs -> SUBSET Leads]

\* get_by_facebook_lead_id as session t: committed rows and its own.
Visible(t, l) == rows[l] > 0 \/ l \in open[t]

\* Another open transaction has inserted l: an INSERT of l has to wait for it.
HeldByOther(t, l) == \E u \in Txs \ {t} : l \in open[u]

\* Flush of a new Lead: the unique index lets the INSERT through.
InsertRow(t, l) ==
    /\ ~ Visible(t, l)
    /\ ~ HeldByOther(t, l)
    /\ open' = [open EXCEPT ![t] = @ \cup {l}]
    /\ UNCHANGED rows

CommitTx(t) ==
    /\ rows' = [l \in Leads |-> IF l \in open[t] THEN rows[l] + 1 ELSE rows[l]]
    /\ open' = [open EXCEPT ![t] = {}]

RollbackTx(t) ==
    /\ open' = [open EXCEPT ![t] = {}]
    /\ UNCHANGED rows

Stored(l) == rows[l] > 0

-----------------------------------------------------------------------------
\* No lead has two rows, committed or about to be: what UNIQUE on
\* facebook_lead_id (models/lead.py) has to give every writer of the table.
LeadStoredOnce == \A l \in Leads : rows[l] <= 1

\* At most one session has inserted a lead and not committed it, and then no
\* committed row of the lead exists: why two commits cannot store it twice.
InsertsExclusive ==
    \A t \in Txs : \A l \in open[t] :
        /\ rows[l] = 0
        /\ ~ HeldByOther(t, l)
=============================================================================
