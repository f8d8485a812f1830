----------------------------- MODULE BulkImport -----------------------------
(***************************************************************************)
(* The bulk imports of LeadService (sync_page_leads, fetch_form_leads,     *)
(* fetch_page_leads, fetch_leads_by_asset): one request, one database      *)
(* session and one transaction for all leads of a listing.                 *)
(*                                                                         *)
(* A listing is what the Graph API returns form by form and page by page,  *)
(* in the order the code walks it.  SQLAlchemy rolls the transaction back  *)
(* when a flush fails and leaves the session inactive: every later         *)
(* statement and the commit raise PendingRollbackError.                    *)
(***************************************************************************)
EXTENDS LeadsTable, Sequences, FiniteSets

CONSTANTS
    Importers,   \* import requests
    Listing,     \* Listing[i]: the leads import i walks
    Partial,     \* Partial[i]: what import i walks instead, should Meta fail to list
                 \* some of its forms and the import go on (fetch_leads_by_asset)
    Strict,      \* imports without a try around a save (fetch_form_leads)
    PageRow,     \* PageRow[i]: the facebook_pages row whose token i refreshes
    Budget       \* Budget[k]: how often fault k may happen

FaultKinds == {"listing", "fetch", "lookup", "commit", "crash"}

ASSUME ImportConstants ==
    /\ Importers \subseteq Txs
    /\ Listing \in [Importers -> Seq(Leads)]
    /\ Strict \subseteq Importers
    /\ Partial \in [Importers -> SUBSET Seq(Leads)]
    /\ \A i \in Strict : Partial[i] = {}
    /\ \A i \in Importers : \A w \in Partial[i] :
          /\ Len(w) < Len(Listing[i])
          /\ \A n \in DOMAIN w : \E m \in DOMAIN Listing[i] : w[n] = Listing[i][m]
    /\ Budget \in [FaultKinds -> Nat]

VARIABLES
    step,        \* step[i]: where the request stands
    walk,        \* walk[i]: the leads of the forms that Meta has listed to it
    at,          \* at[i]: the lead of walk[i] it is at
    active,      \* active[i]: its session may still be used
    locked,      \* locked[i]: it has updated PageRow[i] and not committed
    imported,    \* imported[i], skipped[i]: the counters of the answer
    skipped,
    answer,      \* answer[i]: "none", "ok", "error" or, the process dead, "lost"
    unclear,     \* imports that sent their commit and never learnt its outcome
    faults       \* faults[k]: how often fault k has happened

vars == <<rows, open, step, walk, at, active, locked, imported, skipped, answer,
          unclear, faults>>

TypeOK ==
    /\ TableType
    /\ step \in [Importers ->
                    {"idle", "find", "save", "announce", "failing", "done"}]
    /\ walk \in [Importers -> Seq(Leads)]
    /\ at \in [Importers -> Nat \ {0}]
    /\ active \in [Importers -> BOOLEAN]
    /\ locked \in [Importers -> BOOLEAN]
    /\ imported \in [Importers -> Nat]
    /\ skipped \in [Importers -> Nat]
    /\ answer \in [Importers -> {"none", "ok", "error", "lost"}]
    /\ unclear \subseteq Importers
    /\ faults \in [FaultKinds -> Nat]

Init ==
    /\ TableInit
    /\ step = [i \in Importers |-> "idle"]
    /\ walk = Listing
    /\ at = [i \in Importers |-> 1]
    /\ active = [i \in Importers |-> TRUE]
    /\ locked = [i \in Importers |-> FALSE]
    /\ imported = [i \in Importers |-> 0]
    /\ skipped = [i \in Importers |-> 0]
    /\ answer = [i \in Importers |-> "none"]
    /\ unclear = {}
    /\ faults = [k \in FaultKinds |-> 0]

Fault(k) ==
    /\ faults[k] < Budget[k]
    /\ faults' = [faults EXCEPT ![k] = @ + 1]

Goto(i, s) == step' = [step EXCEPT ![i] = s]

LeadNow(i) == walk[i][at[i]]

\* The tolerant imports count a lead they do not import.
Skip(i) ==
    /\ Goto(i, "find")
    /\ at' = [at EXCEPT ![i] = @ + 1]
    /\ skipped' = IF i \in Strict THEN skipped
                  ELSE [skipped EXCEPT ![i] = @ + 1]

\* What is left in the database of a transaction that is rolled back.
Abandon(i) ==
    /\ RollbackTx(i)
    /\ locked' = [locked EXCEPT ![i] = FALSE]

-----------------------------------------------------------------------------
\* Token and page context.  A fresh page token is flushed to the page's row,
\* whose lock is then held to the end; another import that refreshes the same
\* row waits.  Without a fresh token, or a row, nothing is locked.
Begin(i) ==
    /\ step[i] = "idle"
    /\ \/ /\ \A k \in Importers : locked[k] => PageRow[k] # PageRow[i]
          /\ locked' = [locked EXCEPT ![i] = TRUE]
       \/ UNCHANGED locked
    /\ Goto(i, "find")
    /\ UNCHANGED <<tableVars, walk, at, active, imported, skipped,
                   answer, unclear, faults>>

\* get_by_facebook_lead_id, which no try surrounds.
Find(i) ==
    /\ step[i] = "find"
    /\ at[i] <= Len(walk[i])
    /\ \/ /\ active[i] /\ Visible(i, LeadNow(i))
          /\ Skip(i)
       \/ /\ active[i] /\ ~ Visible(i, LeadNow(i))
          /\ Goto(i, "save")
          /\ UNCHANGED <<at, skipped>>
       \/ /\ ~ active[i]
          /\ Goto(i, "failing")
          /\ UNCHANGED <<at, skipped>>
    /\ UNCHANGED <<tableVars, walk, active, locked, imported, answer, unclear, faults>>

\* The exception of a save: it ends a strict import; a tolerant one logs it and
\* counts the lead as skipped.
SaveRaises(i) ==
    \/ /\ i \in Strict
       /\ Goto(i, "failing")
       /\ UNCHANGED <<at, skipped>>
    \/ /\ i \notin Strict
       /\ Skip(i)

\* Mutant: facebook_lead_id without its unique index.
InsertUnindexed(i) ==
    /\ step[i] = "save"
    /\ open' = [open EXCEPT ![i] = @ \cup {LeadNow(i)}]
    /\ UNCHANGED rows
    /\ Goto(i, "announce")
    /\ UNCHANGED <<walk, at, active, locked, imported, skipped,
                   answer, unclear, faults>>

\* The flush of a lead goes through.
Insert(i) ==
    /\ step[i] = "save"
    /\ InsertRow(i, LeadNow(i))
    /\ Goto(i, "announce")
    /\ UNCHANGED <<walk, at, active, locked, imported, skipped,
                   answer, unclear, faults>>

WaitsFor(i, k) == step[i] = "save" /\ i # k /\ LeadNow(i) \in open[k]

\* i is on a cycle of sessions waiting for each other's leads.
InDeadlock(i) ==
    \E S \in SUBSET Importers :
        /\ i \in S
        /\ \A k \in S : /\ \E m \in S : WaitsFor(k, m)
                        /\ \E m \in S : WaitsFor(m, k)

\* Mutant: the handler of a failed save rolls the session back, which makes it
\* usable again without the rows already counted.
InsertFailsReviving(i) ==
    /\ step[i] = "save"
    /\ Stored(LeadNow(i)) \/ InDeadlock(i)
    /\ Abandon(i)
    /\ SaveRaises(i)
    /\ UNCHANGED <<walk, active, imported, answer, unclear, faults>>

\* Mutant: the handler takes back the count of a lead that was not counted yet.
InsertFailsUncounting(i) ==
    /\ step[i] = "save"
    /\ Stored(LeadNow(i)) \/ InDeadlock(i)
    /\ Abandon(i)
    /\ active' = [active EXCEPT ![i] = FALSE]
    /\ SaveRaises(i)
    /\ imported' = [imported EXCEPT ![i] = @ - 1]
    /\ UNCHANGED <<walk, answer, unclear, faults>>

\* Mutant: only a duplicate ends the wait for another session's lead.
InsertFailsNoVictim(i) ==
    /\ step[i] = "save"
    /\ Stored(LeadNow(i))
    /\ Abandon(i)
    /\ active' = [active EXCEPT ![i] = FALSE]
    /\ SaveRaises(i)
    /\ UNCHANGED <<walk, imported, answer, unclear, faults>>

\* The flush fails: somebody has committed the lead since Find (IntegrityError),
\* or PostgreSQL chooses the session as the victim of a deadlock.  The
\* transaction, with every lead inserted so far, is gone; the session is inactive.
InsertFails(i) ==
    /\ step[i] = "save"
    /\ Stored(LeadNow(i)) \/ InDeadlock(i)
    /\ Abandon(i)
    /\ active' = [active EXCEPT ![i] = FALSE]
    /\ SaveRaises(i)
    /\ UNCHANGED <<walk, imported, answer, unclear, faults>>

\* A lookup before the INSERT raises (two rows of a campaign, ad set, ad or
\* form id); the session stays usable.
LookupFails(i) ==
    /\ step[i] = "save"
    /\ Fault("lookup")
    /\ SaveRaises(i)
    /\ UNCHANGED <<tableVars, walk, active, locked, imported, answer, unclear>>

\* publish_new_lead, whose failure is swallowed, and whose event LeadBoard
\* follows; then the lead counts.
Announce(i) ==
    /\ step[i] = "announce"
    /\ imported' = [imported EXCEPT ![i] = @ + 1]
    /\ at' = [at EXCEPT ![i] = @ + 1]
    /\ Goto(i, "find")
    /\ UNCHANGED <<tableVars, walk, active, locked, skipped, answer, unclear, faults>>

\* The handler has returned and get_db commits, before the answer is sent.
Commit(i) ==
    /\ step[i] = "find"
    /\ at[i] > Len(walk[i])
    /\ active[i]
    /\ CommitTx(i)
    /\ locked' = [locked EXCEPT ![i] = FALSE]
    /\ answer' = [answer EXCEPT ![i] = "ok"]
    /\ Goto(i, "done")
    /\ UNCHANGED <<walk, at, active, imported, skipped, unclear, faults>>

\* The connection is lost, or the process dies, with the COMMIT under way: it
\* may have gone through.  The request fails either way, or nobody answers it.
CommitUnclear(i) ==
    /\ step[i] = "find"
    /\ at[i] > Len(walk[i])
    /\ active[i]
    /\ \/ /\ Fault("commit")
          /\ answer' = [answer EXCEPT ![i] = "error"]
       \/ /\ Fault("crash")
          /\ answer' = [answer EXCEPT ![i] = "lost"]
    /\ CommitTx(i) \/ RollbackTx(i)
    /\ locked' = [locked EXCEPT ![i] = FALSE]
    /\ unclear' = unclear \cup {i}
    /\ Goto(i, "done")
    /\ UNCHANGED <<walk, at, active, imported, skipped>>

\* The commit of an inactive session raises.
CommitRaises(i) ==
    /\ step[i] = "find"
    /\ at[i] > Len(walk[i])
    /\ ~ active[i]
    /\ Goto(i, "failing")
    /\ UNCHANGED <<tableVars, walk, at, active, locked, imported, skipped,
                   answer, unclear, faults>>

\* get_db rolls back and the request answers with an error.
Rollback(i) ==
    /\ step[i] = "failing"
    /\ Abandon(i)
    /\ answer' = [answer EXCEPT ![i] = "error"]
    /\ Goto(i, "done")
    /\ UNCHANGED <<walk, at, active, imported, skipped, unclear, faults>>

\* Mutant: a failed page of leads is taken for the end of the listing.
FetchEndsListing(i) ==
    /\ step[i] = "find"
    /\ Fault("fetch")
    /\ at' = [at EXCEPT ![i] = Len(walk[i]) + 1]
    /\ UNCHANGED <<tableVars, walk, step, active, locked, imported,
                   skipped, answer, unclear>>

\* Meta does not list the forms of the asset, or those of the business, or
\* neither.  fetch_leads_by_asset logs each failure and goes on with what it has.
ListingFails(i) ==
    /\ step[i] = "find"
    /\ at[i] = 1
    /\ walk[i] = Listing[i]
    /\ Fault("listing")
    /\ \E w \in Partial[i] : walk' = [walk EXCEPT ![i] = w]
    /\ UNCHANGED <<tableVars, step, at, active, locked, imported,
                   skipped, answer, unclear>>

\* A Graph API call for a page of leads raises, or the listing of forms in the
\* imports that do not go on without it; no try surrounds it.
FetchFails(i) ==
    /\ step[i] = "find"
    /\ Fault("fetch")
    /\ Goto(i, "failing")
    /\ UNCHANGED <<tableVars, walk, at, active, locked, imported,
                   skipped, answer, unclear>>

\* The API process dies: nobody gets an answer.
Crash(i) ==
    /\ step[i] \notin {"idle", "done"}
    /\ Fault("crash")
    /\ Abandon(i)
    /\ answer' = [answer EXCEPT ![i] = "lost"]
    /\ Goto(i, "done")
    /\ UNCHANGED <<walk, at, active, imported, skipped, unclear>>

Proceed(i) ==
    \/ Find(i) \/ Insert(i) \/ InsertFails(i) \/ Announce(i)
    \/ Commit(i) \/ CommitRaises(i) \/ Rollback(i)

Fails(i) ==
    ListingFails(i) \/ FetchFails(i) \/ LookupFails(i) \/ CommitUnclear(i) \/ Crash(i)

Done ==
    /\ \A i \in Importers : step[i] \in {"idle", "done"}
    /\ UNCHANGED vars

Next ==
    \/ \E i \in Importers : Begin(i) \/ Proceed(i) \/ Fails(i)
    \/ Done

\* A request that has begun is served on; PostgreSQL breaks deadlocks.
Fairness == \A i \in Importers : WF_vars(Proceed(i))

Spec == Init /\ [][Next]_vars

FairSpec == Spec /\ Fairness

-----------------------------------------------------------------------------
(* Properties                                                              *)

\* An import is all or nothing, and its "imported" is what it added: a failed
\* flush cannot lose some rows and let the rest be committed and counted.  One
\* that fails has added nothing, unless its commit went unanswered.
Ledger == INSTANCE ImportLedger WITH
    captured  <- {l \in Leads : Stored(l)},
    ListingOf <- [i \in Importers |->
                    {Listing[i][n] : n \in DOMAIN Listing[i]}],
    counted   <- [i \in Importers |->
                    IF answer[i] = "ok" \/ i \in unclear THEN imported[i] ELSE 0]
LedgerSpec == Ledger!Spec

\* After an answer, every lead of the forms that Meta has listed to the request
\* is in the table, whoever stored it, unless a lookup failed; a tolerant import
\* has counted each of them.  Forms are missing only when their listing failed:
\* the leads of those are neither stored nor counted.
AnswerAccountsForAll ==
    \A i \in Importers : answer[i] = "ok" =>
        /\ faults["lookup"] = 0 =>
              \A n \in DOMAIN walk[i] : Stored(walk[i][n])
        /\ i \notin Strict => imported[i] + skipped[i] = Len(walk[i])
        /\ faults["listing"] = 0 => walk[i] = Listing[i]

\* Every import ends, although sessions wait for each other's leads.
ImportsEnd == \A i \in Importers : step[i] # "idle" ~> step[i] = "done"

-----------------------------------------------------------------------------
(* Why the safety properties hold: an inductive invariant                  *)

Walking(i) == step[i] \in {"find", "save", "announce"}

\* Where the request stands agrees with its session: before its first and after
\* its last step, and once a flush has failed, nothing of it is uncommitted, and
\* a lead is flushed and announced only in a session that works.
SessionOK(i) ==
    /\ at[i] <= Len(walk[i]) + 1
    /\ step[i] \in {"save", "announce"} => active[i] /\ at[i] <= Len(walk[i])
    /\ step[i] = "announce" => LeadNow(i) \in open[i]
    /\ step[i] \in {"idle", "done"} \/ ~ active[i] => open[i] = {}
    /\ step[i] = "idle" => at[i] = 1 /\ imported[i] = 0 /\ skipped[i] = 0
    /\ step[i] # "done" => answer[i] = "none" /\ i \notin unclear
    /\ IsFiniteSet(open[i])
    /\ open[i] \subseteq {walk[i][n] : n \in DOMAIN walk[i]}
    /\ walk[i] \in Partial[i] \cup {Listing[i]}

\* What the request has counted is what its transaction holds, one lead later
\* while it announces, and what it has passed it sees, unless a lookup failed.
CountsOK(i) ==
    /\ Walking(i) /\ active[i] =>
          /\ Cardinality(open[i]) = IF step[i] = "announce" THEN imported[i] + 1
                                                             ELSE imported[i]
          /\ faults["lookup"] = 0 =>
                \A n \in DOMAIN walk[i] : n < at[i] => Visible(i, walk[i][n])
    /\ Walking(i) /\ i \notin Strict => imported[i] + skipped[i] = at[i] - 1
    /\ faults["listing"] = 0 => walk[i] = Listing[i]

\* The inductive invariant behind LeadStoredOnce, AnswerAccountsForAll and
\* LedgerSpec.
IInv ==
    /\ TypeOK
    /\ LeadStoredOnce
    /\ InsertsExclusive
    /\ \A i \in Importers : SessionOK(i) /\ CountsOK(i)
    /\ AnswerAccountsForAll

-----------------------------------------------------------------------------
(* Why the imports end: one may always go on, and none goes on for ever    *)

\* The next statement of import i goes through or fails; else it waits.
MayGoOn(i) ==
    \/ step[i] \in {"find", "announce", "failing"}
    \/ /\ step[i] = "save"
       /\ \/ Stored(LeadNow(i)) \/ InDeadlock(i)
          \/ ~ Visible(i, LeadNow(i)) /\ ~ HeldByOther(i, LeadNow(i))

\* However many imports wait for each other's leads, one of those under way may
\* go on: whoever holds a lead is under way too, and PostgreSQL breaks cycles.
NoStandstill ==
    (\E i \in Importers : step[i] \notin {"idle", "done"}) => \E i \in Importers : MayGoOn(i)

\* Only imports hold leads, and none waits for itself.
WaitInv ==
    /\ IInv
    /\ \A t \in Txs \ Importers : open[t] = {}
    /\ \A i \in Importers : step[i] = "save" => LeadNow(i) \notin open[i]

\* A bound on the steps that import i has before it.
StepsLeft(i) ==
    4 * (Len(walk[i]) + 1 - at[i]) +
        CASE step[i] = "idle" -> 4 [] step[i] = "find" -> 3 [] step[i] = "save" -> 2
          [] step[i] = "done" -> 0 [] OTHER -> 1

\* Every step, of a fault too, takes one import nearer to its end and leaves the
\* others where they are.
StepsRunOut ==
    [][\E i \in Importers :
          /\ StepsLeft(i) \in Nat /\ StepsLeft(i)' \in Nat /\ StepsLeft(i)' < StepsLeft(i)
          /\ \A k \in Importers \ {i} : StepsLeft(k)' = StepsLeft(k)]_vars
=============================================================================
