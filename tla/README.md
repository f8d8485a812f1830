# TLA+ models of marketing-api

marketing-api is a FastAPI service with Celery workers. It connects users'
Facebook accounts, receives leads that Meta delivers by webhook, imports leads in
bulk through the Graph API, and manages campaigns and WhatsApp messages.
PostgreSQL keeps the data, Redis is the Celery broker and result backend and
carries lead events to the browsers. This directory holds TLA+ models of it, the
TLC configurations that check them, and proofs for TLAPS.

    tlc -workers 2 -config MCLeadRedelivery.cfg MCLeadPipeline.tla
    tlapm AccountLinkProofs.tla

## The system

| Part | State | Operations | Talks to |
|---|---|---|---|
| Webhook route `api/v1/webhooks/routes.py` | `webhook_logs` rows of one delivery, in one transaction | verify; receive (answers 200, leaves the payload to a background task); log, queue, commit | Celery broker, database |
| Celery app `workers/celery_app.py` | queue `leads`, unacknowledged messages, results | publish, deliver, retry, acknowledge late, kill, redeliver | worker slots |
| Lead task `workers/tasks/lead_tasks.py` | one session per attempt | find page, process lead, mark audit row, commit, retry | lead service, database |
| Lead service `services/lead.py` | `leads`, page tokens | webhook lead, four bulk imports, status, listings | Graph API, database, Redis events |
| Sessions `core/database.py` | one transaction per request or attempt | commit after the handler, roll back on an exception | PostgreSQL |
| Lead events `core/redis.py`, stream and lead routes `leads/routes.py` | Redis channel per user, the status of a lead | publish, subscribe, heartbeat, listings, change of a status | browsers |
| Sign-in `services/auth.py` | `users`, `facebook_accounts` | OAuth callback, registration | Graph API, database |
| Accounts and pages `services/facebook.py` | `facebook_pages`, `ad_accounts`, `forms` | syncs, subscribe | Graph API, database |
| Campaigns `services/campaign.py` | `campaigns`, `adsets`, `ads` | syncs, create, update, pause, resume | Graph API, database |
| WhatsApp `whatsapp/routes.py`, `services/whatsapp.py` | contacts, templates, campaigns, messages' status | CRUD, create-and-send | WhatsApp API, database |
| Graph client `integrations/facebook/client.py` | none | request with three attempts on transport errors | Meta |
| Analytics `services/analytics.py` | none | counts of leads, campaigns, pages | database |
| Middleware, configuration, scripts | none that the others see | logging, start-up | |

What is hard here: the webhook answers before it works; the task is published
before its audit row is committed; a message may be delivered twice, an attempt
be cut off at its commit, a retry not be published; several sessions check for a
lead and then insert it, with only a unique index between them; a failed INSERT
takes a whole transaction down while the code counts on; events are published
before the commit and may get lost; syncs check and insert where no index
protects them; messages are sent while the transaction that records them is open;
an account may change hands while its pages are in use; a listing, a dashboard and
a stream of events read in several steps what is being written. `PROJECT.json`
lists each hazard at its line. Several of these do happen in this code (a lost event, a lead
without a token, a row duplicated by two syncs, a lead pushed off its page): of those a property
names the causes, and says that nothing else brings them about. That the webhook answers
before it works loses changes that nothing records, so no property speaks of them.

What makes the parts correct:

- *Leads table*: no lead is stored twice, whoever writes it.
- *Pipeline*: a change that was recorded as queued is not lost without a trace,
  and is stored in the end if failures are fewer than retries; a row that says
  "completed" is true; audit rows of a delivery appear at once and never step back.
- *Bulk import*: all or nothing; the counts of an answer are what happened to the
  leads it was told of; every request ends.
- *Events*: no event for a lead that is not stored, except by a failed attempt.
- *Mirror of Meta's objects* (pages, ad accounts, forms, Instagram accounts,
  campaigns, ad sets, ads): one row per object, columns that agree with Meta after
  the last write (those the code means to keep so), a sync that leaves what it was
  told, no object lost at Meta except by a fault, an end for every request.
- *Sign-in and accounts*: one user per email and one account per Facebook user,
  pages kept for users who were linked to their account, a token for the lead task
  unless for a reason, a subscription mark that says what Meta answered.
- *WhatsApp*: a message accepted is on record unless for a reason, the record is
  true, what is sent is not older than the request, references hold.
- *What a user sees of leads*: a stream and a listing miss a lead only for a reason,
  the status of a lead is not set back, the figures of a dashboard fit together.

## The modules

`LeadsTable` is the `leads` table: committed rows per lead (`rows`), and for each
session the leads its open transaction has inserted (`open`). A second INSERT of
a lead that is uncommitted elsewhere is not enabled (it waits); of a committed
one it fails. Rows are counted and not capped, so `LeadStoredOnce` says something
about the writers.

`LeadPipeline` EXTENDS it. A *job* is one leadgen change of one delivery; its
audit row (`staged` uncommitted, `logs` committed) and its Celery task are known
by the job.

| Actions | Code |
|---|---|
| `Receive`, `SkipChange`, `LogChange`, `DelayOk`, `DelayFails`, `CommitLogs`, `IngestFails` | `receive_webhook`, `_process_webhook_payload` |
| `ApiCrash` | the process dies between the 200 and the commit |
| `Take`, `Settle`, `Ack`, `HardKill`, `WorkerCrash` | Celery with `task_acks_late`, prefetch 1, time limits |
| `FindPage`, `FindLog`, `CommitTask`, `Retry`, `TaskFails`, `RetryRejected` | `process_lead_from_webhook` |
| `FindExisting`, `FetchLead` | `LeadService.process_webhook_lead` |
| `InsertLead`, `Announce` | `_save_lead_from_data`, `publish_new_lead` |
| `SyncPage` | a second `facebook_pages` row for a page (`sync_pages`) |

The steps of a task are separated where another session can come in between: at
every statement that reads or writes the shared tables. The lookups of foreign
keys read nothing the model keeps and are part of `FetchLead` and `InsertLead`;
that one of them raises is `TaskFails`. A retry is due 60 s after it is published; `Due`
abstracts that delay to "not before the attempt that published it has stored its
result". Celery's result backend does not overwrite a success (`StoreResult`). At
the last retry `self.retry(exc=exc)` raises `exc`, so `_mark_webhook_log_failed`
is not part of the model: it is not reached. When a slot is cut off at its
commit, the commit may have landed (`Interrupted`).

`LeadLedger` is what the pipeline promises: leads are only ever added, and a
delivery's audit rows go from nothing to "queued" or "failed" together and from there to
"completed" only when the lead is captured. `LeadPipeline!LedgerSpec` instantiates it
with the committed leads and rows.

`BulkImport` EXTENDS `LeadsTable` with import requests: `Begin` (token refresh,
which holds the page's row lock), `Find`, `Insert`, `InsertFails`, `LookupFails`,
`Announce`, `Commit`, `CommitRaises`, `CommitUnclear`, `Rollback`, `FetchFails`,
`ListingFails`, `Crash`. The four imports of `LeadService` differ, for the state, in the
listing they walk, in whether a try surrounds a save (`Strict`: `fetch_form_leads`) and
in what is left of the listing when Meta fails to list one form: `fetch_leads_by_asset`
logs that, goes on with the next form and answers as if nothing had been there
(`ListingFails`; `Partial` is what is left, the whole listing for an import without that
try). After a failed flush
SQLAlchemy has rolled the transaction back and raises PendingRollbackError on
every further statement: `active` is FALSE. FastAPI runs `get_db`'s commit before the
answer is sent, so `Commit` sets the answer. Of a commit under way when the connection or
the process is lost it is not known whether it landed (`CommitUnclear`): the request
answers an error, or nobody answers (`"lost"`), and its leads may be stored.
`ImportLedger` is the abstract promise: an import answers with what it added in one
step; one that fails adds nothing, unless its commit was `unclear`, and then all or nothing.

`MetaMirror` is every table that mirrors objects of Meta. The services repeat one
pattern per table, so the module has three kinds of request over a set of
`Objects` and the instances say which table they are: `Unique` (only
`instagram_accounts` has a unique index on Meta's id), `Eager` (`sync_campaigns`
flushes row by row, the others at the end, in the order of the primary keys),
`Refreshed` (the columns a sync assigns in a row it finds), `Sticky` (those of them
it leaves alone when the listing has no value for them: name, status and budgets),
`Pool` (what each phase of a create may bring about), `Stored` (the columns a create
fills: not a campaign's `effective_status`, nor the `bid_amount`, `billing_event` and
`optimization_goal` of an ad set), `Follows` (what Meta changes of itself after an
update: `effective_status` after a pause), `Expired` (requests that answer with a row
whose `updated_at` their UPDATE has expired). `Unset` is a NULL column and a field that
Meta leaves out.

| Actions | Code |
|---|---|
| `BeginSync`, `Fetch`, `FetchFails`, `Look` | `sync_campaigns`, `sync_adsets`, `sync_ads`, `sync_pages`, `sync_ad_accounts`, `get_lead_forms`, `sync_accounts` of Instagram |
| `BeginCreate`, `PostCreate`, `CommitPhase` | `create_campaign` with its automatic ad set, `create_adset`, `create_ad` |
| `BeginUpdate`, `PostUpdate` | `update_campaign`, `pause_campaign`, `resume_campaign`, `update_adset`, `update_ad` |
| `PostUnanswered`, `PostGarbled`, `PostRefused` | `FacebookGraphClient._request`: transport errors are repeated; an answer of 500 and more or without JSON raises, and Meta may have acted; an error of Meta raises, and it has not |
| `Flush`, `UniqueFails`, `AnswerFails`, `Commit`, `StoreFails`, `Rollback` | the session: `BaseRepository.update`, the response, `get_db` |
| `LockFails`, `Crash`, `ChangeOutside` | PostgreSQL's deadlock detector, the process dying, Meta's own tools |

`meta` is what exists at Meta and `rows` what is committed, per object. A session
has what it was told (`got`), the listed objects it has not looked up (`todo`),
the column changes it has not flushed (`plan`) or has (`wrote`, which hold the row
locks until the commit), and the rows it will add (`added`). SQLAlchemy updates only
columns that differ from the values loaded, hence `Differing`. `onupdate` sets `updated_at`
in the database (models/mixins.py:26); where nothing refreshes the row before the response
is built from it, reading the expired column in an asynchronous session raises, before
`get_db` commits (`AnswerFails`): so end `update_adset`, and `sync_adsets`,
`sync_ad_accounts` and the Instagram sync if they have written to a row that was there.
`made` and `met` are
history: what a create's posts have created, and which requests over a common object
were under way at once.

`AccountLink` is sign-in and what hangs on it. A row is known by the request that
inserts it: a user by its callback or registration, an account by its callback, a
page by sync and page. An uncommitted row is `"open"`; `locks` holds the rows a
transaction has updated.

| Actions | Code |
|---|---|
| `AskFacebook`, `FindUser`, `InsertUser`, `UpdateUser`, `FindAccount`, `InsertAccount`, `UpdateAccount` | `AuthService.facebook_callback` |
| `Submit`, `FindUser`, `InsertUser` | `AuthService.register` |
| `BeginSync`, `TakeAccount`, `ListPages`, `FindPage`, `FlushPage`, `InsertPages`, `AllSynced`, `Deadlocked` | `sync_all_user_pages`, `sync_pages` |
| `FindOwnPage`, `AskMeta`, `SaveSubscription` | `subscribe_page_webhook` |
| `FindOwner`, `FetchLead` | the lead task's way from a page to a token |
| `Commit`, `Reply`, `MetaFails`, `CutOff` | `get_db`, the error answers, `FacebookGraphClient._request` |

`LinkOf` is what SQLAlchemy writes at the end of a callback: the token always, since
its encryption is never the same, and `user_id` only where it differs from the one
loaded. Meta may refuse a subscription: `subscribe_page_to_app` returns an error body as it
is, the route stores `resp.get("success", False)` and answers 200. So `SaveSubscription`
changes the mark either way (`Changes`, `Marks`) and a refusal takes away the mark of a
page that is subscribed; a call without any answer ends in an error, and may have
subscribed the page. `marked` is what the request has loaded, `accepted` what Meta
granted. The sync of one account (`Named`: `sync_pages` as a route) answers with the rows
it has flushed and fails if it updated one, as `AnswerFails` above; `sync_all_user_pages`
reads them anew. `FetchLead` leaves out what does not touch this state: the foreign-key
lookups of a lead (services/lead.py:74-108), and the second lookup of the page
(services/lead.py:178-184), which finds the same rows as `FindOwner` or, a second one
having come in between, raises like `FindOwner` over two. `linked` and
`alone` are history: who was ever linked to an account, and which callbacks no other
for their account has met.

`WhatsAppCampaigns` has contacts, templates and campaigns with one life each
(`"unborn"`, `"there"`, `"gone"`), and requests that create a campaign, edit and delete.

| Actions | Code |
|---|---|
| `Add`, `Load`, `CommitEdit`, `CommitDelete` | the routes of contacts and templates, `delete_campaign` |
| `FindTemplate`, `FlushCampaign` | `create_campaign` up to its first flush, which locks the template |
| `LookUpContact`, `Send`, `SendRefused`, `SendUnclear` | its loop, one entry of `contact_ids` at a time |
| `CommitCreate`, `Reply`, `StoreFails`, `Crash` | the second flush with all messages, `get_db` |

`sent` is what WhatsApp has accepted, `pending` the rows a create holds in its
session and `rows` what is committed. A contact is read anew for each entry, except
that the identity map still has it when the entry before named it too (`Kept`). A
delete cascades to messages, and the foreign key of a campaign keeps its template.

`LeadBoard` is the reading side. A batch is a transaction that stores leads; its leads
have the same `created_at`, PostgreSQL's time of the transaction's begin.

| Actions | Code |
|---|---|
| `BeginBatch`, `Announce`, `EndBatch` | the transactions of `_save_lead_from_data`, seen from outside |
| `Connect`, `Subscribed`, `ListLeads`, `Forward`, `EndStream` | `stream_leads`, `list_leads`, redis-py |
| `StartWalk`, `CountLeads`, `ReadPage` | `LeadRepository.get_by_user`, page after page |
| `BeginUpdate`, `Save`, `CommitUpdate`, `Reply`, `CutOff` | `update_lead_status` |
| `BeginDashboard`, `CountNext` | `AnalyticsService.get_dashboard`, a figure at a time |

A stream ends when the client goes or when Redis does: `get_message` raises, nothing in
`stream_leads` catches it, and what was on its way is lost (`EndStream`). A browser may
connect again and lists the leads anew.

`MCLeadPipeline`, `MCBulkImport`, `MCMetaMirror`, `MCAccountLink`,
`MCWhatsAppCampaigns` and `MCLeadBoard` hold the instances. Definitions marked
*Mutant* stand beside the definition they deform; nothing uses them but the
mutation runs listed in `PROJECT.json`, where the property named must fail.

## The runs

| Configuration | Instance | Shows |
|---|---|---|
| `MCLeadRedelivery` | fair; 2 deliveries of one lead, 2 slots, 2 retries, a task failure and a crash; 259 143 states | `TypeOK`, `LeadStoredOnce`, `CompletedImpliesStored`, `LedgerSpec`, `TasksEnd`, `QueuedGetsStored`, `CompletesUnlessOutrun` |
| `MCLeadFaults` | one lead, a publish that may leave 2 messages, 1 or 2 page rows, one of every fault of the worker side; 1 038 783 states | `NoSilentLoss`, `PhantomNeedsFault` |
| `MCWebhookIngest` | one delivery: lead, other change, lead; failing delay, ingest and API process; 7 512 states | `NoSilentLoss`, `LedgerSpec`: the ingest |
| `MCRetriesExhausted` | failures use up the retries | violates `ExhaustedIsMarkedFailed` |
| `MCBulkImport` | fair; 3 imports (one strict) crossing 3 leads, one of every fault, a swallowed listing and an unanswered commit among them; 234 750 states | `TypeOK`, `LeadStoredOnce`, `AnswerAccountsForAll`, `LedgerSpec`, `ImportsEnd` |
| `MCCampaignSync` | fair; 2 syncs that flush row by row and an update of a campaign, a failed commit, a change at Meta; a budget the listing may leave out, an effective status that follows the update; 189 761 states | `DuplicateNeedsOverlap`, `RowsInStep`, `LoneSyncMirrors`, `RequestsEnd` |
| `MCCampaignCreate` | a campaign and its ad set are created while a sync lists ad sets and an update changes the campaign; 3 posts without an answer that tells, one of each other fault; 575 683 states | `TypeOK`, `OrphansCostFaults` |
| `MCInstagramSync` | 3 syncs over the unique index that fail once they have updated a row, one of every fault; 34 794 states | `OneRowPerObject` |
| `MCSyncRaces` | two syncs at once, no fault | violates `OneRowPerObject` |
| `MCAccountLink` | fair; two users with an account and a page each; in seven mixes two sign-ins, a registration, three syncs (one `Named`), two subscriptions, a lead task; a failing call and a cut-off; 353 350 states | `TypeOK`, `OneRowEach`, `LoneLinkHolds`, `OwnersWereLinked`, `LostLeadNeedsCause`, `SubscriptionTold`, `RequestsEnd` |
| `MCWhatsAppCampaigns` | fair; a campaign to a contact named twice or to one of another user and one that comes late, an edit, a delete, one of every fault; 515 492 states | `TypeOK`, `UnrecordedNeedsCause`, `RowsTellTruth`, `FreshContent`, `RequestsEnd` |
| `MCLeadBoard` | an import of two leads and two webhook leads, in four mixes with a stream, a walk, three updates, a dashboard; one of every fault; 391 924 states | `TypeOK`, `MissedNeedsCause`, `WalkNeedsCause`, `LastUpdateHolds`, `DashboardInOrder` |

Why these bounds: every race in the pipeline is between two parties for one lead
(two tasks, a task and its webhook, an attempt and its redelivered successor), so
two slots and two jobs make each of them happen; a cycle of waiting imports needs
two, and the third import shows that a victim's partner may meet another. Named bounds: `Budget`
(how often each fault happens), `MaxRetries` (3 in the code, 1 or 2 here: one
retry exercises the recursion, two the liveness with a lost race),
`MaxCopies` (messages one publish may leave, since kombu retries publishes),
`MinPageRows`, `MaxPageRows`, `MaxAttempts` (3 posts in the code, 2 here: the first
and a repeated one), `PageSize` (Meta's default page; 2 here, which is the listing
or part of it). In the mirror a duplicate needs two requests, a deadlock two syncs
with two rows in common, and a third sync meets the result of the first two. Two columns are
enough to tell one the code keeps in step, and a listing may leave out (`budget`), from one
that follows of itself and a create does not store (`effective`). The race, the retry and the
redelivery that `TasksEnd` is about are those of `MCLeadRedelivery`; the ingest needs one
delivery of several changes. Where
many kinds of request share a module, `Mixes` says which come together, and the rest
have been served or stay away: an account changes hands between two users with a
sign-in of the one for the account of the other, which the mixes put beside each of
the requests that use the account; a third sign-in adds a rival for the same email.
A stream needs a batch that overlaps it and one that does not, a walk three batches
over pages of two (`PageSize`) to be pushed off, a status three updates for an answered
one to be followed and met; `Named` are the leads that updates name, an old one and a
new one. Two entries of a list are enough for one to be sent before the other fails,
and to name a contact twice. Slots are symmetric in the safety runs only.

Fairness: weak, on the steps of a background task that has begun (`Ingest`), on
a slot taking a message (`Take`) and going on with it (`Work`), and on an import
or a request to the mirror or to WhatsApp that has begun (`Proceed`). `AccountLink`
asks for less, that some request goes on while one can: each has finitely many steps.
`LeadBoard` states none: an open stream may go unread for ever. The event loop, the Celery consumer and PostgreSQL's lock queue and
deadlock detector give that. No fault has to happen, no delivery has to arrive.

## The proofs

`LeadPipelineProofs` proves, for every set of deliveries, slots and leads, every
payload, every bound on faults and retries:

- `TypeCorrect`, `StoredOnce`, `CompletedIsTrue`: `Spec => []TypeOK`,
  `[]LeadStoredOnce`, `[]CompletedImpliesStored`;
- `Inductive`: `Spec => []IInv`, from which the others follow. `LeadStoredOnce` alone is
  not inductive: two sessions that hold the same uncommitted lead could both
  commit it. `IInv` adds that a lead is held by at most one session and then has no
  committed row (`InsertsExclusive`), that a session between its INSERT and its
  commit sees the lead it reports and holds no other (`SessionOK`), and that
  a delivery's rows are staged until its changes are through (`IngestOK`);
- `Refinement`: `Spec => LedgerSpec`, one lemma per kind of step: `CommitLogs`
  records, a commit of a task captures and acknowledges, everything else leaves the ledger unchanged;
- `NothingLostSilently`, `LossInductive`: `[]NoSilentLoss`, `[]LossInv`. `NoSilentLoss`
  counts on a slot until it acknowledges. That is too long to be inductive: at the
  acknowledgement something else has to answer for the job. `LossInv` says what: a stored
  lead, a result that is a failure, or, after a retry was published, a message in the
  queue, where it waits because it is not due before this attempt's result is stored;
- `PhantomsNeedFaults`: `[]PhantomNeedsFault`. Between event and commit the lead is in a
  session, and a session that holds a lead gives it up in a commit or in a step that
  counts a fault.

`LeadsTableProofs` has the lemmas about the shared table that this module and the
next one rest on: what an INSERT, a commit and a rollback do to rows and to exclusiveness.

`BulkImportProofs` proves, for every set of leads and imports and every listing:

- `TypeCorrect`, `StoredOnce`, `AnswersAreComplete`: the three invariants of the run, the
  last of the leads the import was told of, which are `Listing` or `Partial`;
- `Inductive`: `Spec => []IInv`. An answer's counts are fixed at the commit, so the invariant
  says of an import on its way that the leads its session holds are as many as it has
  counted, one more between a save and its announcement, and that it sees all it has
  passed (`CountsOK`); a session that is not `active` holds nothing (`SessionOK`);
- `Refinement`: `Spec => LedgerSpec`: a commit is the ledger's `Succeed`, one whose fate is
  open its `FailUnclear`, the end of any other import its `Fail`;
- `OneMayGoOn`: `[]NoStandstill`, for finitely many imports. If none could go on, each
  would wait for a lead of another, which is under way too and waits in turn; of the sets
  of imports that wait within the set a smallest one is a cycle, which the deadlock
  detector breaks (`InDeadlock`);
- `StepsAreBounded`: `Spec => StepsRunOut`, every step lowers `StepsLeft` of one import and
  leaves that of the others. These two are the part of `ImportsEnd` that is safety.

`MetaMirrorProofs` proves, for every set of objects, syncs, creates and updates,
every scope, page size and fault budget:

- `TypeCorrect`: `Spec => []TypeOK`, that no post goes beyond `MaxAttempts` included;
- `Inductive`: `Spec => []IInv`;
- `OnlyOverlapDuplicates`: `Spec => []DuplicateNeedsOverlap`. The argument: whoever
  has listed an object, or sees a row of it, knows that it exists at Meta, so
  no create adds a row over one (`Known`); a row is added only in a lookup that finds
  none, so if there is one at the commit somebody else committed it in between
  (`Adding`), and that request was under way together with this one (`Meeting`).
  Each step has one of four shapes (`Begins`, `GoesOn`, `Drops`, `Outside`), and each
  part of `IInv` is shown for the shapes instead of for every action.

`MetaMirrorRowsProofs` goes on from there with what the rows hold:

- `UniqueIndexKeeps` and `OneRowWhereUnique`: an object under the unique index never has
  two rows; where all are (`Unique = Objects`, the Instagram accounts), `[]OneRowPerObject`.
  `MCSyncRaces` shows that without the index it fails;
- `OrphansAreCharged`: `[]OrphansCostFaults`. A create has at most one object in its
  session at a time (`Posting`), so a rollback loses at most one, and a post whose outcome is not told one (`Lost`);
- `LoneSyncsMirror`: `Spec => LoneSyncMirrors`, an action property. A sync writes only
  what it was told (`Told`), into objects it has looked up once (`Writing`), and what it found of
  them is still so if it met nobody (`LookedUp`);
- `RowsKeepStep`: `[]RowsInStep`, column by column. It speaks of those the code keeps in step
  (`Mirrored`): of an object created here the ones the create stores, and none that an
  update has left behind (`LeftBehind`), since Meta changed it of itself or the answer
  rolled the update back. The row and Meta differ while an update is between its
  post and its commit, so `InStep` says what the session under way will make of the row
  (`Covered`): an assignment is planned, written, or not needed since the column has the value.
  `SessionsInductive` is the invariant of both;
- `OneMayGoOn`: `[]NoStandstill`, for finitely many requests, objects and columns and as long as
  Meta can create what is posted (the instances have finitely many objects for it). A
  session writes rows only at work, so whoever holds a row that another waits for is at
  work or rolls back, and a circle of waits is a deadlock that is broken;
- `StepsAreBounded`: `Spec => StepsRunOut`, for finitely many objects and columns: a sync has
  its listing to look up and the columns to write, a create its phases and the posts
  of each. These two are the part of `RequestsEnd` that is safety; `ProgressInductive` is
  their invariant.

`AccountLinkProofs` proves, for every set of users, Facebook users, accounts, pages
and requests, whatever each Facebook user manages and whatever emails it comes with:

- `TypeCorrect`, `OneRowForEach`, `LoneLinkStands`, `OwnersLinked`,
  `LostOnlyWithCause`, `SubscriptionsTold`: the five invariants of the run and `TypeOK`.
  `SubscriptionsTold` says that a marked page is subscribed at Meta, and that one whose
  subscription Meta accepted stays marked unless Meta refused another for it;
- `Inductive`: `Spec => []IInv`. None of them is inductive alone. That a callback's
  commit leaves its own user and token needs that the account it has found is that of
  its Facebook user, that its user is the one with its email, and, where the user is
  not written, that nobody has linked the account since it was loaded (`SigningIn`,
  `Linking`, `Alone`). That a sync stores pages for a user who was linked needs that it
  found the account linked when it took it, though not that it still is (`Syncing`,
  `Owned`); a lead is lost after a handover because the owner of its page was linked
  once and the account has a user now who is another (`Attempting`).
  For each part one lemma says which of a request's own steps disturb it; that others'
  do not follows from two lemmas on what a step leaves to others (`StepPassive`)
  and never takes back (`StepGrown`);
- `OneMayGoOn`: `[]NoStandstill`, for any number of requests. Others wait for accounts only
  while a sign-in is at its commit, which waits for nobody, and for pages only while
  a subscription is at its commit or a sync is on its way (`LockInv`, by `LocksInductive`).
  If nobody could go on, the syncs at their flush would wait for each other, and
  PostgreSQL breaks that;
- `StepsAreBounded`: `Spec => StepsRunOut`, for finitely many sign-ins, syncs and pages. Both
  together are the part of `RequestsEnd` that is safety; TLC has found
  `MayGoOn(r)` to be what enables `Proceed(r)`.

`WhatsAppCampaignsProofs` proves, for every list of recipients, every set of contacts,
templates and requests, and every fault budget:

- `TypeCorrect`, `RowsAreTrue`, `ReferencesKept`, `ContentIsFresh`,
  `UnrecordedOnlyWithCause`: the three invariants of the run, `TypeOK`, and that what a row refers to is there;
- `Inductive`: `Spec => []IInv`. The rows are written long after the messages go out,
  so the invariant says of a create in progress what its answer would have to say: each
  status it holds agrees with what was sent for that entry (`Marks`), what it has read
  was so since it began (`Reads`), what it has sent are entries it has gone
  through (`Sends`), and the rows are those it held, less deleted contacts (`Record`).

`LeadBoardProofs` proves, for every set of leads, batches, clients, walks, updates and
dashboards and every page size:

- `TypeCorrect`, `MissedOnlyWithCause`, `LastUpdateStands`: `[]TypeOK`,
  `[]MissedNeedsCause`, `[]LastUpdateHolds`;
- `Inductive`: `Spec => []IInv`. Leads are announced before they are stored, so the
  invariant speaks of all that are saved, not of the stored ones: each has been shown
  to a client, is on its way, or cannot come (`Streams`). For the status it says that
  the last writer is not one that an answered update followed, and that an open
  update that has seen it answered has loaded its status (`LastWriter`):
  SQLAlchemy writes nothing when the new status equals the loaded one, and without
  this such an update could leave an older status standing;
- `WalksMissOnlyWithCause`, `DashboardsInOrder`, `BoardInductive`: `[]WalkNeedsCause`,
  `[]DashboardInOrder`, `[]BoardInv`. The place of a lead in the listing only moves
  back as newer ones come in, so that a walk never passes a lead it has not
  shown, unless another has its very time (`Walking`, with page arithmetic for every
  `PageSize`). What a SELECT of the dashboard has counted lies within what a wider one
  has counted after it or, if it is still to come, would count now (`Counting`).

`IInv`, `LossInv`, `WaitInv`, `LostInv`, `SessionInv`, `ProgressInv`, `LockInv`, `BoardInv` and
`NoStandstill` are defined beside their specifications and can be added to the INVARIANTS of
the module's configuration, `StepsRunOut` to its PROPERTIES: TLC finds them true on those
instances. The runs leave them out, since they are there for the proofs.

All rest on the assumptions about the constants in `PipelineConstants`,
`NoMsgAssumption`, `ImportConstants`, `MirrorConstants`, `AccountConstants`,
`WhatsAppConstants` and `BoardConstants`, which TLC evaluates on every run; `Rank`, the order
of primary keys, is a number for each page row. Some theorems have hypotheses of their own,
named above: finitely many imports or requests where a circle of waits is looked for; one
index over all objects; finitely many objects, columns, requests or pages where
steps are counted. Every invariant and safety property of the
passing runs has a theorem. Only model-checked is liveness (`QueuedGetsStored`, `CompletesUnlessOutrun`,
`TasksEnd`, `ImportsEnd`, `RequestsEnd`), since fairness speaks of ENABLED, which is beyond the prover.

## The disagreements found

1. `ExhaustedIsMarkedFailed`: rows of tasks out of retries stay "queued".
2. `OneRowPerObject`: two syncs at once store an object twice, after which
   `scalar_one_or_none` raises for it.

Seen while modelling, without a run of their own:

- an ingest that fails late rolls back the audit rows of tasks it has published (the
  repository's README.md:257, webhooks/routes.py:101);
- an import that loses the race for one lead fails as a whole, where
  leads/routes.py:220 says that imported leads are counted as skipped (services/lead.py:586);
- a create whose answer is lost is posted again and leaves two campaigns at Meta
  (campaigns/routes.py:67, client.py:40);
- a failed publish of `new_lead` is swallowed (leads/routes.py:109, services/lead.py:154),
  a stream ends without a word when Redis does (leads/routes.py:127), and a lead whose event
  is published then is not shown in it (`MissedNeedsCause` names the causes);
- an import answers ok after Meta failed to list some of its forms, where
  leads/routes.py:218 says "every lead gen form" (services/lead.py:530), and one whose commit
  goes unanswered fails with its leads stored (core/database.py:61);
- a subscription that Meta refuses answers 200 and takes away the mark of a page that is
  subscribed (services/facebook.py:190, client.py:351);
- the sync of a named account, of ad sets, of ad accounts and of an Instagram account, and
  `update_adset`, fail and are rolled back whenever they update a row, the last one after Meta
  has changed: their answers read an expired `updated_at` (models/mixins.py:26,
  facebook/routes.py:84 and 99, campaigns/routes.py:165 and 178);
- a pause leaves `effective_status` as it was (services/campaign.py:292, which the sync at
  line 81 mirrors), and a new ad set's row lacks `bid_amount`, `billing_event` and
  `optimization_goal` (services/campaign.py:189);
- a gateway's 5xx after a post that Meta has carried out counts as a refusal (client.py:61);
- any status of a lead may follow any other (leads/routes.py:177);
- the "full dashboard snapshot" of analytics/routes.py:23 is several statements, so
  that today's leads may be more than all (`DashboardInOrder` says what is left);
- `total_pages` is counted before the page is read, and leads of one import have
  no order between pages (`WalkNeedsCause`);
- a known form is never refreshed (facebook/routes.py:126, services/facebook.py:225);
- listings are read to the end of their first page (facebook/routes.py:82, client.py:128);
- an account that is handed over leaves its pages, subscriptions and leads with the user
  before (services/auth.py:93), and the lead task takes any account of the page's owner
  (services/lead.py:189): `LostLeadNeedsCause` lists what that costs;
- `create_campaign` of WhatsApp answers 400 for a contact or template deleted meanwhile
  after messages have gone out, its answer drops `send_results`, `scheduled_at` is
  stored and never acted on, and the campaign's status stays DRAFT (whatsapp/routes.py:241).

## Not modelled

Columns of a lead beyond its id, status and time, objects deleted at Meta, the wording
of answers and logs, token encryption, password hashing, the schemas and the start-up.
Login, the refresh of tokens and the change of a password read and write one row of
one user. The dashboard's counts of campaigns and pages and the other analytics routes
are single reads. The WhatsApp webhook (webhooks/routes.py:105) only prints, the test
send keeps nothing, `whatsapp_message_logs` is never written, and routes of templates
that are declared twice have the first declaration served. `bulk_import_form_leads`
and the campaign tasks are never enqueued. The connection pool and the event loop of a
task are inside "an attempt may fail". The creatives, images and audiences of the
Facebook routes are passed through to Meta and stored nowhere.

## Plan

Done: the pipeline with its ledger, the imports, the mirror, sign-in and accounts,
WhatsApp, the board, and the proofs above. What is left, in this order:

1. Proofs of progress, as for imports, accounts and the mirror (no standstill, steps
   that run out), for the pipeline, where slots wait for each other's leads and retries add
   attempts, and for WhatsApp, where only deletes wait, and for creates that do not.
2. `LeadCapture`: the pipeline and the imports over one leads table, and the composed
   table's mutual exclusion.
3. Pure functions: `_extract_field`, the merge of webhook ids, the union of form lists.
4. Login and the refresh of tokens against a change of the password.
