---------------------------- MODULE LeadPipeline ----------------------------
(***************************************************************************)
(* How a lead delivered by Meta's webhook reaches the leads table: the     *)
(* background task of the webhook route (_process_webhook_payload), the    *)
(* Celery queue "leads" on Redis, the task process_lead_from_webhook in    *)
(* every worker slot, and the tables they share.                           *)
(*                                                                         *)
(* A job is one leadgen change of one delivery; its WebhookLog row and its *)
(* Celery task are known by the job.  A session's uncommitted WebhookLog   *)
(* rows are in `staged`, committed ones in `logs`; uncommitted and         *)
(* committed leads are in `open` and `rows` (module LeadsTable).           *)
(***************************************************************************)
EXTENDS LeadsTable, Sequences

CONSTANTS
    Deliveries,   \* webhook POSTs, Meta's redeliveries included
    Payload,      \* Payload[d]: the changes of delivery d, entry by entry
    Pages,        \* Facebook page ids
    Workers,      \* worker slots of the queue "leads"
    NoMsg,        \* the message of an idle slot
    MaxRetries,   \* max_retries of process_lead_from_webhook
    MaxCopies,    \* messages one publish may leave (kombu retries a publish)
    MinPageRows,  \* facebook_pages rows of a page: at the start at least,
    MaxPageRows,  \* and ever at most
    Budget        \* Budget[k]: how often fault k may happen

FaultKinds == {"delay", "ingest", "api", "task", "reject", "kill", "crash"}

Change == [leadgen : BOOLEAN, page : Pages, lead : Leads]

ASSUME PipelineConstants ==
    /\ Workers \subseteq Txs
    /\ Payload \in [Deliveries -> Seq(Change)]
    /\ MaxRetries \in Nat
    /\ MaxCopies \in Nat \ {0}
    /\ MinPageRows \in Nat /\ MaxPageRows \in Nat /\ MinPageRows <= MaxPageRows
    /\ Budget \in [FaultKinds -> Nat]

Jobs == {j \in Deliveries \X (UNION {DOMAIN Payload[d] : d \in Deliveries}) :
            j[2] \in DOMAIN Payload[j[1]] /\ Payload[j[1]][j[2]].leadgen}

DeliveryOf == [j \in Jobs |-> j[1]]
LeadOf     == [j \in Jobs |-> Payload[j[1]][j[2]].lead]
PageOf     == [j \in Jobs |-> Payload[j[1]][j[2]].page]

Message == [job : Jobs, retries : 0..MaxRetries]

ASSUME NoMsgAssumption == NoMsg \notin Message

VARIABLES
    hook,       \* hook[d]: where the background task of delivery d stands
    pos,        \* pos[d]: the change it is at
    staged,     \* staged[j]: processing_status of an uncommitted WebhookLog row
    logs,       \* logs[j]: processing_status of the committed row
    queue,      \* queue[m]: copies of message m in the broker
    pc, msg,    \* pc[w], msg[w]: step and unacknowledged message of slot w
    seen,       \* seen[w]: session.get found the WebhookLog row
    outcome,    \* outcome[w]: how the attempt of slot w ended
    results,    \* results[j]: the task's entry in the Celery result backend
    rejected,   \* jobs whose retry could not be published (task-rejected event)
    announced,  \* leads for which a new_lead event was published
    pageRows,   \* pageRows[p]: facebook_pages rows with page_id p
    faults      \* faults[k]: how often fault k has happened

hookVars == <<hook, pos, staged>>
taskVars == <<pc, msg, seen, outcome>>
tailVars == <<results, rejected, announced, pageRows>>
vars     == <<rows, open, hook, pos, staged, logs, queue, pc, msg, seen,
              outcome, results, rejected, announced, pageRows, faults>>

LogStatus == {"none", "pending", "queued", "failed", "completed"}

\* Steps of the task in which a database session is open, and all its steps.
InSession == {"page", "existing", "fetch", "insert", "announce", "mark", "commit"}
TaskPc    == {"idle", "raised", "settle", "ack"} \cup InSession

TypeOK ==
    /\ TableType
    /\ hook \in [Deliveries -> {"new", "loop", "delay", "done", "aborted"}]
    /\ pos \in [Deliveries -> Nat \ {0}]
    /\ staged \in [Jobs -> LogStatus]
    /\ logs \in [Jobs -> LogStatus]
    /\ queue \in [Message -> Nat]
    /\ pc \in [Workers -> TaskPc]
    /\ msg \in [Workers -> Message \cup {NoMsg}]
    /\ \A w \in Workers : pc[w] # "idle" => msg[w] \in Message
    /\ seen \in [Workers -> BOOLEAN]
    /\ outcome \in [Workers -> {"none", "ok", "skipped", "retry", "failure"}]
    /\ results \in [Jobs -> {"none", "ok", "skipped", "retry", "failure"}]
    /\ rejected \subseteq Jobs
    /\ announced \subseteq Leads
    /\ pageRows \in [Pages -> Nat]
    /\ faults \in [FaultKinds -> Nat]

Init ==
    /\ TableInit
    /\ hook = [d \in Deliveries |-> "new"]
    /\ pos = [d \in Deliveries |-> 1]
    /\ staged = [j \in Jobs |-> "none"]
    /\ logs = [j \in Jobs |-> "none"]
    /\ queue = [m \in Message |-> 0]
    /\ pc = [w \in Workers |-> "idle"]
    /\ msg = [w \in Workers |-> NoMsg]
    /\ seen = [w \in Workers |-> FALSE]
    /\ outcome = [w \in Workers |-> "none"]
    /\ results = [j \in Jobs |-> "none"]
    /\ rejected = {}
    /\ announced = {}
    /\ pageRows \in [Pages -> MinPageRows..MaxPageRows]
    /\ faults = [k \in FaultKinds |-> 0]

Fault(k) ==
    /\ faults[k] < Budget[k]
    /\ faults' = [faults EXCEPT ![k] = @ + 1]

-----------------------------------------------------------------------------
(* The webhook route and its background task                               *)

AtChange(d) == hook[d] = "loop" /\ pos[d] <= Len(Payload[d])

ToNextChange(d) ==
    /\ hook' = [hook EXCEPT ![d] = "loop"]
    /\ pos' = [pos EXCEPT ![d] = @ + 1]

\* The session of delivery d ends: no row of it stays uncommitted.
Unstage(d) ==
    staged' = [j \in Jobs |-> IF DeliveryOf[j] = d THEN "none" ELSE staged[j]]

Publish(m, n) == queue' = [queue EXCEPT ![m] = @ + n]

\* receive_webhook answers 200 and leaves the payload to a background task.
Receive(d) ==
    /\ hook[d] = "new"
    /\ hook' = [hook EXCEPT ![d] = "loop"]
    /\ UNCHANGED <<tableVars, pos, staged, logs, queue, taskVars, tailVars, faults>>

SkipChange(d) ==
    /\ AtChange(d)
    /\ ~ Payload[d][pos[d]].leadgen
    /\ ToNextChange(d)
    /\ UNCHANGED <<tableVars, staged, logs, queue, taskVars, tailVars, faults>>

\* session.add(log) and flush: a row that only this session sees.
LogChange(d) ==
    /\ AtChange(d)
    /\ Payload[d][pos[d]].leadgen
    /\ staged' = [staged EXCEPT ![<<d, pos[d]>>] = "pending"]
    /\ hook' = [hook EXCEPT ![d] = "delay"]
    /\ UNCHANGED <<tableVars, pos, logs, queue, taskVars, tailVars, faults>>

FirstMessage(d) == [job |-> <<d, pos[d]>>, retries |-> 0]

\* .delay() returns: a worker may take the task from now on.
DelayOk(d) ==
    /\ hook[d] = "delay"
    /\ \E n \in 1..MaxCopies : Publish(FirstMessage(d), n)
    /\ staged' = [staged EXCEPT ![<<d, pos[d]>>] = "queued"]
    /\ ToNextChange(d)
    /\ UNCHANGED <<tableVars, logs, taskVars, tailVars, faults>>

\* Mutant of DelayFails: the row says "queued" although .delay() raised.
DelayFailsQueued(d) ==
    /\ hook[d] = "delay"
    /\ Fault("delay")
    /\ \E n \in 0..MaxCopies : Publish(FirstMessage(d), n)
    /\ staged' = [staged EXCEPT ![<<d, pos[d]>>] = "queued"]
    /\ ToNextChange(d)
    /\ UNCHANGED <<tableVars, logs, taskVars, tailVars>>

\* .delay() raises; the broker may have taken the message nevertheless.
DelayFails(d) ==
    /\ hook[d] = "delay"
    /\ Fault("delay")
    /\ \E n \in 0..MaxCopies : Publish(FirstMessage(d), n)
    /\ staged' = [staged EXCEPT ![<<d, pos[d]>>] = "failed"]
    /\ ToNextChange(d)
    /\ UNCHANGED <<tableVars, logs, taskVars, tailVars>>

\* The one commit, for the rows of all changes.
CommitLogs(d) ==
    /\ hook[d] = "loop"
    /\ pos[d] > Len(Payload[d])
    /\ logs' = [j \in Jobs |-> IF DeliveryOf[j] = d THEN staged[j] ELSE logs[j]]
    /\ Unstage(d)
    /\ hook' = [hook EXCEPT ![d] = "done"]
    /\ UNCHANGED <<tableVars, pos, queue, taskVars, tailVars, faults>>

\* Mutant of IngestFails: the rows written so far are committed.
IngestFailsCommitting(d) ==
    /\ hook[d] = "loop"
    /\ Fault("ingest")
    /\ logs' = [j \in Jobs |-> IF DeliveryOf[j] = d THEN staged[j] ELSE logs[j]]
    /\ Unstage(d)
    /\ hook' = [hook EXCEPT ![d] = "aborted"]
    /\ UNCHANGED <<tableVars, pos, queue, taskVars, tailVars>>

\* An exception outside the inner try (a malformed change, a failing flush or
\* commit): rollback.  Messages already published stay published.
IngestFails(d) ==
    /\ hook[d] = "loop"
    /\ Fault("ingest")
    /\ Unstage(d)
    /\ hook' = [hook EXCEPT ![d] = "aborted"]
    /\ UNCHANGED <<tableVars, pos, logs, queue, taskVars, tailVars>>

\* The API process dies after the 200: nobody delivers the rest again.
ApiCrash(d) ==
    /\ hook[d] \in {"loop", "delay"}
    /\ Fault("api")
    /\ Unstage(d)
    /\ hook' = [hook EXCEPT ![d] = "aborted"]
    /\ UNCHANGED <<tableVars, pos, logs, queue, taskVars, tailVars>>

Ingest(d) == SkipChange(d) \/ LogChange(d) \/ DelayOk(d) \/ CommitLogs(d)

IngestFault(d) == DelayFails(d) \/ IngestFails(d) \/ ApiCrash(d)

-----------------------------------------------------------------------------
(* The task process_lead_from_webhook in slot w                            *)

JobAt(w)  == msg[w].job
LeadAt(w) == LeadOf[msg[w].job]

Goto(w, step) == pc' = [pc EXCEPT ![w] = step]

\* The attempt is over for the Celery tracer, with this outcome.
Ends(w, how) ==
    /\ Goto(w, "settle")
    /\ outcome' = [outcome EXCEPT ![w] = how]

\* Slot w is rid of its message and of what the attempt kept in memory.
Release(w) ==
    /\ Goto(w, "idle")
    /\ msg' = [msg EXCEPT ![w] = NoMsg]
    /\ seen' = [seen EXCEPT ![w] = FALSE]
    /\ outcome' = [outcome EXCEPT ![w] = "none"]

\* A retry is due default_retry_delay (60 s) after it was published, by when
\* the attempt that published it has had its result stored.
Due(m) ==
    \A w \in Workers :
        pc[w] = "settle" /\ outcome[w] = "retry" /\ JobAt(w) = m.job
            => m.retries <= msg[w].retries

\* Mutant of Take: off by one, a message that is not there is taken.
TakeNone(w) ==
    /\ pc[w] = "idle"
    /\ \E m \in Message :
          /\ queue[m] >= 0 /\ Due(m)
          /\ queue' = [queue EXCEPT ![m] = @ - 1]
          /\ msg' = [msg EXCEPT ![w] = m]
    /\ Goto(w, "page")
    /\ UNCHANGED <<tableVars, hookVars, logs, seen, outcome, tailVars, faults>>

\* A slot takes a message; acks_late: it stays unacknowledged until the end.
Take(w) ==
    /\ pc[w] = "idle"
    /\ \E m \in Message :
          /\ queue[m] > 0 /\ Due(m)
          /\ queue' = [queue EXCEPT ![m] = @ - 1]
          /\ msg' = [msg EXCEPT ![w] = m]
    /\ Goto(w, "page")
    /\ UNCHANGED <<tableVars, hookVars, logs, seen, outcome, tailVars, faults>>

\* scalar_one_or_none on facebook_pages, whose page_id is not unique: no row
\* skips the job, two rows raise MultipleResultsFound.
FindPage(w) ==
    /\ pc[w] = "page"
    /\ \/ /\ pageRows[PageOf[JobAt(w)]] = 0
          /\ Ends(w, "skipped")
       \/ /\ pageRows[PageOf[JobAt(w)]] = 1
          /\ Goto(w, "existing")
          /\ UNCHANGED outcome
       \/ /\ pageRows[PageOf[JobAt(w)]] > 1
          /\ Goto(w, "raised")
          /\ UNCHANGED outcome
    /\ UNCHANGED <<tableVars, hookVars, logs, queue, msg, seen, tailVars, faults>>

\* A lead stored before is returned as it is.
FindExisting(w) ==
    /\ pc[w] = "existing"
    /\ Goto(w, IF Visible(w, LeadAt(w)) THEN "mark" ELSE "fetch")
    /\ UNCHANGED <<tableVars, hookVars, logs, queue, msg, seen, outcome, tailVars, faults>>

\* Mutant of FetchLead: the event is published before the INSERT.
FetchLeadAnnouncing(w) ==
    /\ pc[w] = "fetch"
    /\ announced' = announced \cup {LeadAt(w)}
    /\ Goto(w, "insert")
    /\ UNCHANGED <<tableVars, hookVars, logs, queue, msg, seen, outcome,
                   results, rejected, pageRows, faults>>

\* Account and token, the Graph API call, the lookups of the foreign keys.
FetchLead(w) ==
    /\ pc[w] = "fetch"
    /\ Goto(w, "insert")
    /\ UNCHANGED <<tableVars, hookVars, logs, queue, msg, seen, outcome, tailVars, faults>>

\* Mutant of InsertLead: facebook_lead_id without its unique index.
InsertLeadNoIndex(w) ==
    /\ pc[w] = "insert"
    /\ open' = [open EXCEPT ![w] = @ \cup {LeadAt(w)}]
    /\ Goto(w, "announce")
    /\ UNCHANGED <<rows, hookVars, logs, queue, msg, seen, outcome, tailVars, faults>>

\* Mutant of InsertLead: the INSERT is tried again until it succeeds.
InsertLeadAgain(w) ==
    /\ pc[w] = "insert"
    /\ \/ InsertRow(w, LeadAt(w)) /\ Goto(w, "announce")
       \/ Stored(LeadAt(w)) /\ RollbackTx(w) /\ Goto(w, "fetch")
    /\ UNCHANGED <<hookVars, logs, queue, msg, seen, outcome, tailVars, faults>>

\* The flush in LeadRepository.create; it waits while another transaction
\* holds the lead (InsertRow is then disabled), and raises IntegrityError once
\* the lead is committed.
InsertLead(w) ==
    /\ pc[w] = "insert"
    /\ \/ InsertRow(w, LeadAt(w)) /\ Goto(w, "announce")
       \/ Stored(LeadAt(w)) /\ RollbackTx(w) /\ Goto(w, "raised")
    /\ UNCHANGED <<hookVars, logs, queue, msg, seen, outcome, tailVars, faults>>

\* publish_new_lead, before the commit; a failure of Redis is swallowed.
Announce(w) ==
    /\ pc[w] = "announce"
    /\ announced' \in {announced, announced \cup {LeadAt(w)}}
    /\ Goto(w, "mark")
    /\ UNCHANGED <<tableVars, hookVars, logs, queue, msg, seen, outcome,
                   results, rejected, pageRows, faults>>

\* Mutant of FindLog: the row is found before the ingest committed it.
FindLogDirty(w) ==
    /\ pc[w] = "mark"
    /\ seen' = [seen EXCEPT ![w] = TRUE]
    /\ Goto(w, "commit")
    /\ UNCHANGED <<tableVars, hookVars, logs, queue, msg, outcome, tailVars, faults>>

\* session.get(WebhookLog, ...) sees the row only once the ingest committed.
FindLog(w) ==
    /\ pc[w] = "mark"
    /\ seen' = [seen EXCEPT ![w] = logs[JobAt(w)] # "none"]
    /\ Goto(w, "commit")
    /\ UNCHANGED <<tableVars, hookVars, logs, queue, msg, outcome, tailVars, faults>>

\* Mutant of CommitWrites: the audit row is committed, the lead is not.
CommitLogOnly(w) ==
    /\ pc[w] = "commit"
    /\ RollbackTx(w)
    /\ logs' = IF seen[w] THEN [logs EXCEPT ![JobAt(w)] = "completed"] ELSE logs

\* Mutant of CommitWrites: only a task that inserts the lead marks its row.
CommitMarkingNew(w) ==
    /\ pc[w] = "commit"
    /\ CommitTx(w)
    /\ logs' = IF seen[w] /\ open[w] # {}
               THEN [logs EXCEPT ![JobAt(w)] = "completed"] ELSE logs

\* The lead and the audit row, if it was found, are committed together.
CommitWrites(w) ==
    /\ pc[w] = "commit"
    /\ CommitTx(w)
    /\ logs' = IF seen[w] THEN [logs EXCEPT ![JobAt(w)] = "completed"] ELSE logs

CommitTask(w) ==
    /\ CommitWrites(w)
    /\ Ends(w, "ok")
    /\ UNCHANGED <<hookVars, queue, msg, seen, tailVars, faults>>

\* self.retry: the task is published again with one retry more.  At the last
\* retry Celery raises exc itself, which is not a MaxRetriesExceededError, so
\* _mark_webhook_log_failed does not run.
Retry(w) ==
    /\ pc[w] = "raised"
    /\ \/ /\ msg[w].retries < MaxRetries
          /\ \E n \in 1..MaxCopies :
                Publish([msg[w] EXCEPT !.retries = @ + 1], n)
          /\ Ends(w, "retry")
       \/ /\ msg[w].retries = MaxRetries
          /\ Ends(w, "failure")
          /\ UNCHANGED queue
    /\ UNCHANGED <<tableVars, hookVars, logs, msg, seen, tailVars, faults>>

Success == {"ok", "skipped"}

\* The result backend never overwrites a success.
StoreResult(j, how) ==
    results' = IF results[j] \in Success THEN results
               ELSE [results EXCEPT ![j] = how]

Settle(w) ==
    /\ pc[w] = "settle"
    /\ StoreResult(JobAt(w), outcome[w])
    /\ Goto(w, "ack")
    /\ UNCHANGED <<tableVars, hookVars, logs, queue, msg, seen, outcome,
                   rejected, announced, pageRows, faults>>

Ack(w) ==
    /\ pc[w] = "ack"
    /\ Release(w)
    /\ UNCHANGED <<tableVars, hookVars, logs, queue, tailVars, faults>>

-----------------------------------------------------------------------------
(* What can go wrong in slot w                                             *)

\* The session ends with the attempt and is rolled back; at the commit, the
\* writes may have landed before the attempt was cut off.
Interrupted(w) ==
    \/ RollbackTx(w) /\ UNCHANGED logs
    \/ CommitWrites(w)

\* An exception or the soft time limit.
TaskFails(w) ==
    /\ pc[w] \in InSession
    /\ Fault("task")
    /\ Interrupted(w)
    /\ Goto(w, "raised")
    /\ UNCHANGED <<hookVars, queue, msg, seen, outcome, tailVars>>

\* The retry cannot be published: Reject(requeue=False), no result is stored.
RetryRejected(w) ==
    /\ pc[w] = "raised"
    /\ msg[w].retries < MaxRetries
    /\ Fault("reject")
    /\ \E n \in 0..MaxCopies : Publish([msg[w] EXCEPT !.retries = @ + 1], n)
    /\ rejected' = rejected \cup {JobAt(w)}
    /\ Goto(w, "ack")
    /\ UNCHANGED <<tableVars, hookVars, logs, msg, seen, outcome, results,
                   announced, pageRows>>

\* Hard time limit, or the child process is killed: the message is acknowledged
\* all the same (acks_on_failure_or_timeout) and the result is a failure.
HardKill(w) ==
    /\ pc[w] \in InSession \cup {"raised", "settle"}
    /\ Fault("kill")
    /\ Interrupted(w)
    /\ StoreResult(JobAt(w), "failure")
    /\ Release(w)
    /\ UNCHANGED <<hookVars, queue, rejected, announced, pageRows>>

\* Mutant of WorkerCrash: acknowledged on receipt, the message dies with the slot.
WorkerCrashLosing(w) ==
    /\ pc[w] # "idle"
    /\ Fault("crash")
    /\ Interrupted(w)
    /\ Release(w)
    /\ UNCHANGED <<hookVars, queue, tailVars>>

\* The worker dies: its unacknowledged message is delivered again.
WorkerCrash(w) ==
    /\ pc[w] # "idle"
    /\ Fault("crash")
    /\ Interrupted(w)
    /\ Publish(msg[w], 1)
    /\ Release(w)
    /\ UNCHANGED <<hookVars, tailVars>>

\* FacebookService.sync_pages, for some user: check, then insert, no unique
\* constraint; two users may connect the same page.
SyncPage(p) ==
    /\ pageRows[p] < MaxPageRows
    /\ pageRows' = [pageRows EXCEPT ![p] = @ + 1]
    /\ UNCHANGED <<tableVars, hookVars, logs, queue, taskVars, results,
                   rejected, announced, faults>>

Work(w) ==
    \/ FindPage(w) \/ FindExisting(w) \/ FetchLead(w) \/ InsertLead(w)
    \/ Announce(w) \/ FindLog(w) \/ CommitTask(w) \/ Retry(w)
    \/ Settle(w) \/ Ack(w)

WorkerFault(w) ==
    TaskFails(w) \/ RetryRejected(w) \/ HardKill(w) \/ WorkerCrash(w)

-----------------------------------------------------------------------------
Outstanding(j) ==
    \/ \E m \in Message : m.job = j /\ queue[m] > 0
    \/ \E w \in Workers : pc[w] # "idle" /\ JobAt(w) = j

\* Every delivery received is through and no task is left: the program waits.
Quiet ==
    /\ \A d \in Deliveries : hook[d] \in {"new", "done", "aborted"}
    /\ \A j \in Jobs : ~ Outstanding(j)

Done == Quiet /\ UNCHANGED vars

Next ==
    \/ \E d \in Deliveries : Receive(d) \/ Ingest(d) \/ IngestFault(d)
    \/ \E w \in Workers : Take(w) \/ Work(w) \/ WorkerFault(w)
    \/ \E p \in Pages : SyncPage(p)
    \/ Done

\* The event loop resumes the background task, the worker's consumer takes what
\* is queued and a slot goes on with what it has begun; no fault has to happen.
Fairness ==
    /\ \A d \in Deliveries : WF_vars(Ingest(d))
    /\ \A w \in Workers : WF_vars(Take(w)) /\ WF_vars(Work(w))

Spec == Init /\ [][Next]_vars

FairSpec == Spec /\ Fairness

-----------------------------------------------------------------------------
(* Properties                                                              *)

\* An audit row says "completed" only of a lead that is in the leads table:
\* the task writes both in one transaction, whatever attempts came before it.
CompletedImpliesStored ==
    \A j \in Jobs : logs[j] = "completed" => Stored(LeadOf[j])

\* A change recorded as queued is not forgotten: its task is still queued or
\* running, or its lead is stored, or the failure is on record somewhere else
\* (the result backend, or the worker's task-rejected event).  This is what
\* acks_late and publishing a retry before acknowledging are there for.
NoSilentLoss ==
    \A j \in Jobs :
        logs[j] = "queued" \/ staged[j] = "queued" =>
            \/ Outstanding(j)
            \/ Stored(LeadOf[j])
            \/ results[j] \in {"skipped", "failure"}
            \/ j \in rejected

\* A new_lead event for a lead that is neither stored nor being stored (the
\* event precedes the commit) is left behind only by an attempt that failed
\* after publishing it.
PhantomNeedsFault ==
    \A l \in announced :
        \/ Stored(l)
        \/ \E w \in Workers : l \in open[w]
        \/ \E k \in {"task", "kill", "crash"} : faults[k] > 0

\* The webhook side implements the ledger: audit rows of a delivery appear
\* together and leave "queued" or "failed" only for "completed", with the
\* lead captured in the same step or before.
Ledger == INSTANCE LeadLedger WITH
    captured <- {l \in Leads : Stored(l)},
    audit    <- logs
LedgerSpec == Ledger!Spec

\* No task waits or is retried for ever, whoever holds the lead it wants.
TasksEnd == \A j \in Jobs : Outstanding(j) ~> ~ Outstanding(j)

\* With the page synced once and fewer failures than retries, a change that is
\* recorded as queued has its lead stored in the end, in spite of crashes.
QueuedGetsStored ==
    \A j \in Jobs : logs[j] = "queued" ~> Stored(LeadOf[j])

\* If no task looks for its audit row before the webhook committed it, and
\* failures are fewer than retries (losing the race for the unique index costs
\* one as well), every row recorded as queued is completed in the end.
CompletesUnlessOutrun ==
    [](\A w \in Workers : pc[w] = "commit" => seen[w]) =>
        \A j \in Jobs : logs[j] = "queued" ~> logs[j] = "completed"

-----------------------------------------------------------------------------
(* Why the safety properties hold: an inductive invariant                  *)

\* Between its INSERT, or its finding the lead stored, and its commit a task
\* sees the lead it is to report, and has inserted no other; outside it has
\* nothing uncommitted.
SessionOK(w) ==
    /\ pc[w] \in {"announce", "mark", "commit"} =>
          open[w] \subseteq {LeadAt(w)} /\ Visible(w, LeadAt(w))
    /\ pc[w] \notin {"announce", "mark", "commit"} => open[w] = {}
    /\ seen[w] => pc[w] # "idle" /\ logs[JobAt(w)] # "none"

\* The rows of a delivery stay out of sight until all its changes are through,
\* and then say "queued" or "failed".
IngestOK ==
    /\ \A d \in Deliveries :
          /\ hook[d] = "new" => pos[d] = 1
          /\ hook[d] = "delay" => <<d, pos[d]>> \in Jobs
    /\ \A j \in Jobs :
          /\ hook[DeliveryOf[j]] # "done" => logs[j] = "none"
          /\ hook[DeliveryOf[j]] \in {"loop", "delay"} /\ j[2] < pos[DeliveryOf[j]]
                => staged[j] \in {"queued", "failed"}
          /\ logs[j] # "pending"

\* The inductive invariant behind LeadStoredOnce, CompletedImpliesStored and
\* LedgerSpec: exclusive inserts make a commit add a lead the table lacks, what
\* a task sees at its commit makes the row it completes true, and the staging
\* of a delivery makes its audit rows appear at once.
IInv ==
    /\ TypeOK
    /\ LeadStoredOnce
    /\ InsertsExclusive
    /\ \A w \in Workers : SessionOK(w)
    /\ IngestOK
    /\ CompletedImpliesStored

\* Slot w may still bring the job of its message to an end by itself: it is at
\* work, or has an outcome other than a retry that is not stored yet.
Responsible(w) ==
    \/ pc[w] \in InSession \cup {"raised"}
    \/ pc[w] = "settle" /\ outcome[w] # "retry"

InHand(j) ==
    \/ \E m \in Message : m.job = j /\ queue[m] > 0
    \/ \E w \in Workers : Responsible(w) /\ JobAt(w) = j

Accounted(j) ==
    \/ InHand(j)
    \/ Stored(LeadOf[j])
    \/ results[j] \in {"skipped", "failure"}
    \/ j \in rejected

\* The retry that slot w has published waits in the queue: it is not due before
\* the result of w's attempt is stored, which may overwrite a failure.
RetryWaits(w) ==
    \E m \in Message : m.job = JobAt(w) /\ m.retries > msg[w].retries /\ queue[m] > 0

\* The inductive invariant behind NoSilentLoss, beside IInv.  NoSilentLoss counts
\* on a slot until it acknowledges, which is too long: at the acknowledgement
\* something else has to account for the job already.
LossInv ==
    /\ \A j \in Jobs : logs[j] = "queued" \/ staged[j] = "queued" => Accounted(j)
    /\ \A w \in Workers : pc[w] = "settle" =>
          /\ outcome[w] # "none"
          /\ outcome[w] = "ok" => Stored(LeadAt(w))
          /\ outcome[w] = "retry" => RetryWaits(w)
    /\ \A j \in Jobs : results[j] = "ok" => Stored(LeadOf[j])

-----------------------------------------------------------------------------
(* What the repository says of the program, and the program does not do    *)

\* lead_tasks.py, the handler of MaxRetriesExceededError: once the retries are
\* used up the audit row is marked failed.
ExhaustedIsMarkedFailed ==
    \A j \in Jobs :
        Quiet /\ results[j] = "failure" => logs[j] # "queued"
=============================================================================
