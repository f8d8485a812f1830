----------------------------- MODULE MetaMirror -----------------------------
(***************************************************************************)
(* The tables that mirror objects kept by Meta: campaigns, adsets, ads,    *)
(* facebook_pages, ad_accounts, forms, instagram_accounts.  Three kinds of *)
(* request write them, each in one database session:                       *)
(*   a sync fetches a listing, looks each object up and updates its row or *)
(*   adds one (CampaignService.sync_campaigns, sync_adsets, sync_ads,      *)
(*   FacebookService.sync_pages, sync_ad_accounts, get_lead_forms,         *)
(*   InstagramService.sync_accounts);                                      *)
(*   a create posts to Meta and then adds the row, phase by phase          *)
(*   (create_campaign with its automatic ad set, create_ad);               *)
(*   an update posts to Meta and then changes the row (update_campaign,    *)
(*   pause_campaign, resume_campaign, update_adset, update_ad).            *)
(*                                                                         *)
(* Only instagram_accounts has a unique index on the id at Meta.  The      *)
(* session updates only the columns that differ from what it has loaded.   *)
(***************************************************************************)
EXTENDS Naturals, Sequences, FiniteSets

CONSTANTS
    Objects,     \* objects of Meta, those that creates may bring about included
    Fields,      \* what is mirrored of an object, and its values
    Values,
    Absent,      \* in place of the content of an object that is not there
    Unique,      \* objects of a table with a unique index on the id at Meta
    Key,         \* Key[o]: the primary key of o's first row, which orders a flush
    Syncs, Creates, Updates,
    Scope,       \* Scope[s]: what sync s asks Meta to list
    Refreshed,   \* Refreshed[s]: the fields s updates in a row it finds
    Unset,       \* the value of a column that is NULL or of a field Meta leaves out
    Sticky,        \* fields that a sync leaves alone when the listing leaves them out
    Eager,       \* syncs that flush after each row (sync_campaigns)
    Pool,        \* Pool[c]: for each phase of c, the objects a post may create
    Content0,    \* the content an object is created with
    Stored,      \* Stored[o]: the columns that a create of o sets in its row
    Target,      \* Target[u], Change[u]: the object u updates; field and value
    Change,
    Follows,     \* Follows[u]: fields that Meta changes of itself after u's post
    Expired,     \* requests answered from rows that they flush and do not refresh
    PageSize,    \* how many objects a listing of Meta returns
    MaxAttempts, \* posts of one FacebookGraphClient._request
    Budget       \* Budget[k]: how often fault k may happen

Requests == Syncs \cup Creates \cup Updates
FaultKinds == {"refused", "unanswered", "store", "crash", "outside"}
Content == [Fields -> Values]
Pooled == UNION {UNION {Pool[c][p] : p \in DOMAIN Pool[c]} : c \in Creates}

ASSUME MirrorConstants ==
    /\ Syncs \cap Creates = {} /\ Syncs \cap Updates = {} /\ Creates \cap Updates = {}
    /\ Absent \notin Content
    /\ Unique \subseteq Objects
    /\ Key \in [Objects -> Nat]
    /\ \A o, p \in Objects : Key[o] = Key[p] => o = p
    /\ Scope \in [Syncs -> SUBSET Objects]
    /\ Refreshed \in [Syncs -> SUBSET Fields]
    /\ Eager \subseteq Syncs
    /\ Unset \in Values
    /\ Sticky \subseteq Fields
    /\ Pool \in [Creates -> Seq(SUBSET Objects) \ {<<>>}]
    /\ Content0 \in Content
    /\ Stored \in [Objects -> SUBSET Fields]
    /\ Target \in [Updates -> Objects]
    /\ Change \in [Updates -> Fields \X Values]
    /\ Follows \in [Updates -> SUBSET Fields]
    /\ \A u \in Updates : Change[u][1] \notin Follows[u]
    /\ Expired \subseteq Requests
    /\ PageSize \in Nat \ {0}
    /\ MaxAttempts \in Nat \ {0}
    /\ Budget \in [FaultKinds -> Nat]

\* A column of a row to be set: the k-th row of an object.
Write == [object : Objects, row : Nat \ {0}, field : Fields, value : Values]

VARIABLES
    meta,        \* meta[o]: the object at Meta
    rows,        \* rows[o]: its committed rows, oldest first
    stage,       \* stage[r]: where request r stands
    got,         \* got[r]: what Meta has told r of each object
    todo,        \* todo[s]: the listed objects s has not looked up
    plan,        \* plan[r]: changes of r that are not flushed
    wrote,       \* wrote[r]: changes flushed in r's open transaction
    added,       \* added[r]: objects for which it adds a row
    phase,       \* phase[c]: the phase of a create
    tries,       \* tries[r]: posts of the request r is making
    answer,      \* answer[r]: "none", "ok" or "error"
    made,        \* made[c]: objects its posts have created (history)
    met,         \* pairs of requests under way at once over an object (history)
    faults       \* faults[k]: how often fault k has happened

sessionVars == <<got, todo, plan, wrote, added>>
vars == <<meta, rows, stage, sessionVars, phase, tries, answer, made, met, faults>>

TypeOK ==
    /\ meta \in [Objects -> Content \cup {Absent}]
    /\ rows \in [Objects -> Seq(Content)]
    /\ stage \in [Requests -> {"idle", "fetch", "post", "work", "failing", "done"}]
    /\ got \in [Requests -> [Objects -> Content \cup {Absent}]]
    /\ todo \in [Requests -> SUBSET Objects]
    /\ plan \in [Requests -> SUBSET Write]
    /\ wrote \in [Requests -> SUBSET Write]
    /\ added \in [Requests -> SUBSET Objects]
    /\ phase \in [Creates -> Nat \ {0}]
    /\ \A c \in Creates : phase[c] \in DOMAIN Pool[c]
    /\ tries \in [Requests -> 0..MaxAttempts]
    /\ answer \in [Requests -> {"none", "ok", "error"}]
    /\ made \in [Creates -> SUBSET Objects]
    /\ met \subseteq SUBSET Requests
    /\ faults \in [FaultKinds -> Nat]

Nothing == [o \in Objects |-> Absent]

\* Objects that no create brings about exist; they are mirrored or not yet.
Init ==
    /\ meta = [o \in Objects |-> IF o \in Pooled THEN Absent ELSE Content0]
    /\ rows \in [Objects -> {<<>>, <<Content0>>}]
    /\ \A o \in Pooled : rows[o] = <<>>
    /\ stage = [r \in Requests |-> "idle"]
    /\ got = [r \in Requests |-> Nothing]
    /\ todo = [r \in Requests |-> {}]
    /\ plan = [r \in Requests |-> {}]
    /\ wrote = [r \in Requests |-> {}]
    /\ added = [r \in Requests |-> {}]
    /\ phase = [c \in Creates |-> 1]
    /\ tries = [r \in Requests |-> 0]
    /\ answer = [r \in Requests |-> "none"]
    /\ made = [c \in Creates |-> {}]
    /\ met = {}
    /\ faults = [k \in FaultKinds |-> 0]

Fault(k) ==
    /\ faults[k] < Budget[k]
    /\ faults' = [faults EXCEPT ![k] = @ + 1]

Goto(r, s) == stage' = [stage EXCEPT ![r] = s]

Touches(r) ==
    IF r \in Syncs THEN Scope[r]
    ELSE IF r \in Updates THEN {Target[r]}
    ELSE UNION {Pool[r][p] : p \in DOMAIN Pool[r]}

UnderWay(r) == stage[r] \notin {"idle", "done"}

\* Mutant: the connection goes back to the pool with its transaction open.
ForgetNotTransaction(r) ==
    /\ got' = [got EXCEPT ![r] = Nothing]
    /\ todo' = [todo EXCEPT ![r] = {}]
    /\ plan' = [plan EXCEPT ![r] = {}]
    /\ added' = [added EXCEPT ![r] = {}]
    /\ UNCHANGED wrote

\* What a session has in the identity map and the open transaction is dropped.
Forget(r) ==
    /\ got' = [got EXCEPT ![r] = Nothing]
    /\ todo' = [todo EXCEPT ![r] = {}]
    /\ plan' = [plan EXCEPT ![r] = {}]
    /\ wrote' = [wrote EXCEPT ![r] = {}]
    /\ added' = [added EXCEPT ![r] = {}]

Meet(r) ==
    met' = met \cup {{r, q} : q \in {q \in Requests :
                        q # r /\ UnderWay(q) /\ Touches(q) \cap Touches(r) # {}}}

-----------------------------------------------------------------------------
(* Syncs                                                                   *)

BeginSync(s) ==
    /\ stage[s] = "idle"
    /\ Goto(s, "fetch")
    /\ Meet(s)
    /\ UNCHANGED <<meta, rows, sessionVars, phase, tries, answer, made, faults>>

\* The client asks for one page of the listing and does not follow "paging".
Listed(s) ==
    LET there == {o \in Scope[s] : meta[o] # Absent}
    IN  {L \in SUBSET there : \/ Cardinality(L) = PageSize
                              \/ L = there /\ Cardinality(L) < PageSize}

Fetch(s) ==
    /\ stage[s] = "fetch"
    /\ \E L \in Listed(s) :
        /\ got' = [got EXCEPT ![s] = [o \in Objects |-> IF o \in L THEN meta[o] ELSE Absent]]
        /\ todo' = [todo EXCEPT ![s] = L]
    /\ Goto(s, "work")
    /\ UNCHANGED <<meta, rows, plan, wrote, added, phase, tries, answer, made, met, faults>>

FetchFails(s) ==
    /\ stage[s] = "fetch"
    /\ Fault("refused")
    /\ Goto(s, "failing")
    /\ UNCHANGED <<meta, rows, sessionVars, phase, tries, answer, made, met>>

\* The fields that s assigns to a row it finds for o: status, name and budgets
\* keep the value of the row when the listing leaves them out, effective_status
\* does not.
Told(s, o) == {f \in Refreshed[s] : f \in Sticky => got[s][o][f] # Unset}

\* Mutant: every column is assigned.
DifferingAll(o, k, fields, value) ==
    {[object |-> o, row |-> k, field |-> f, value |-> value[f]] : f \in DOMAIN value}

\* The assignments that change a loaded row, the k-th of object o.
Differing(o, k, fields, value) ==
    {[object |-> o, row |-> k, field |-> f, value |-> value[f]] :
        f \in {f \in fields : rows[o][k][f] # value[f]}}

\* Mutant: a row is added without a lookup.
LookInserts(s, o) ==
    /\ stage[s] = "work"
    /\ o \in todo[s]
    /\ todo' = [todo EXCEPT ![s] = @ \ {o}]
    /\ added' = [added EXCEPT ![s] = @ \cup {o}]
    /\ UNCHANGED <<meta, rows, stage, got, plan, wrote, phase, tries, answer, made, met, faults>>

\* One object of the listing is looked up by its id at Meta.  scalar_one_or_none
\* raises MultipleResultsFound over two rows.  With autoflush off the lookup
\* does not see the rows the session is about to add.
Look(s, o) ==
    /\ stage[s] = "work"
    /\ o \in todo[s]
    /\ s \in Eager => plan[s] = {}
    /\ todo' = [todo EXCEPT ![s] = @ \ {o}]
    /\ \/ /\ rows[o] = <<>>
          /\ added' = [added EXCEPT ![s] = @ \cup {o}]
          /\ UNCHANGED <<plan, stage>>
       \/ /\ Len(rows[o]) = 1
          /\ plan' = [plan EXCEPT ![s] = @ \cup Differing(o, 1, Told(s, o), got[s][o])]
          /\ UNCHANGED <<added, stage>>
       \/ /\ Len(rows[o]) > 1
          /\ Goto(s, "failing")
          /\ UNCHANGED <<added, plan>>
    /\ UNCHANGED <<meta, rows, got, wrote, phase, tries, answer, made, met, faults>>

-----------------------------------------------------------------------------
(* Posts to Meta                                                           *)

BeginCreate(c) ==
    /\ stage[c] = "idle"
    /\ Goto(c, "post")
    /\ Meet(c)
    /\ UNCHANGED <<meta, rows, sessionVars, phase, tries, answer, made, faults>>

\* Mutant: only Meta is updated.
BeginUpdateRemote(u) ==
    /\ stage[u] = "idle"
    /\ rows[Target[u]] # <<>>
    /\ Goto(u, "post")
    /\ Meet(u)
    /\ UNCHANGED <<meta, rows, sessionVars, phase, tries, answer, made, faults>>

\* The row is loaded first, by its primary key: any of the object's rows.
BeginUpdate(u) ==
    /\ stage[u] = "idle"
    /\ \E k \in DOMAIN rows[Target[u]] :
        plan' = [plan EXCEPT ![u] = Differing(Target[u], k, {Change[u][1]},
                                        [f \in {Change[u][1]} |-> Change[u][2]])]
    /\ Goto(u, "post")
    /\ Meet(u)
    /\ UNCHANGED <<meta, rows, got, todo, wrote, added, phase, tries, answer, made, faults>>

\* What a post does at Meta.
CreatesAtMeta(c, o) ==
    /\ o \in Pool[c][phase[c]]
    /\ meta[o] = Absent
    /\ meta' = [meta EXCEPT ![o] = Content0]
    /\ made' = [made EXCEPT ![c] = @ \cup {o}]

\* effective_status follows a post, of a status or a budget, as Meta finds fit.
UpdatesAtMeta(u) ==
    /\ \E c \in Content :
        /\ \A f \in Fields \ Follows[u] :
            c[f] = IF f = Change[u][1] THEN Change[u][2] ELSE meta[Target[u]][f]
        /\ meta' = [meta EXCEPT ![Target[u]] = c]
    /\ UNCHANGED made

\* The columns of a new row: what was posted and the model has a column for; the
\* ad set's bid_amount and billing_event, the campaign's effective_status stay NULL.
Fresh(o) == [f \in Fields |-> IF f \in Stored[o] THEN Content0[f] ELSE Unset]

\* Mutant: what Meta has created is not added to the session.
PostCreateUnstored(c) ==
    /\ stage[c] = "post"
    /\ \E o \in Objects :
        /\ CreatesAtMeta(c, o)
        /\ got' = [got EXCEPT ![c][o] = Fresh(o)]
    /\ Goto(c, "work")
    /\ UNCHANGED <<rows, todo, plan, wrote, added, phase, tries, answer, met, faults>>

PostCreate(c) ==
    /\ stage[c] = "post"
    /\ \E o \in Objects :
        /\ CreatesAtMeta(c, o)
        /\ got' = [got EXCEPT ![c][o] = Fresh(o)]
        /\ added' = [added EXCEPT ![c] = @ \cup {o}]
    /\ Goto(c, "work")
    /\ UNCHANGED <<rows, todo, plan, wrote, phase, tries, answer, met, faults>>

PostUpdate(u) ==
    /\ stage[u] = "post"
    /\ UpdatesAtMeta(u)
    /\ Goto(u, "work")
    /\ UNCHANGED <<rows, sessionVars, phase, tries, answer, met, faults>>

\* An exception of the client ends the request, except in a later phase of a
\* create: create_campaign logs that the ad set failed and returns.
PostRaises(r) ==
    Goto(r, IF r \in Creates /\ phase[r] > 1 THEN "work" ELSE "failing")

\* A post that was not answered may have done what it was to do.
MayHaveActed(r) ==
    \/ UNCHANGED <<meta, made>>
    \/ r \in Updates /\ UpdatesAtMeta(r)
    \/ r \in Creates /\ \E o \in Objects : CreatesAtMeta(r, o)

\* Mutant: the attempts are not bounded.
PostUnansweredEndless(r) ==
    /\ stage[r] = "post"
    /\ Fault("unanswered")
    /\ MayHaveActed(r)
    /\ tries' = [tries EXCEPT ![r] = @ + 1]
    /\ UNCHANGED <<rows, stage, sessionVars, phase, answer, met>>

\* Transport error: the post is repeated up to MaxAttempts times, whatever it is,
\* and then the error is raised.
PostUnanswered(r) ==
    /\ stage[r] = "post"
    /\ Fault("unanswered")
    /\ MayHaveActed(r)
    /\ tries' = [tries EXCEPT ![r] = @ + 1]
    /\ IF tries'[r] = MaxAttempts THEN PostRaises(r) ELSE UNCHANGED stage
    /\ UNCHANGED <<rows, sessionVars, phase, answer, met>>

\* An answer that does not tell what Meta has done, with a status of 500 and more
\* or without JSON, raises at once.
PostGarbled(r) ==
    /\ stage[r] = "post"
    /\ Fault("unanswered")
    /\ MayHaveActed(r)
    /\ PostRaises(r)
    /\ UNCHANGED <<rows, sessionVars, phase, tries, answer, met>>

\* Meta answers that it has refused the post.
PostRefused(r) ==
    /\ stage[r] = "post"
    /\ Fault("refused")
    /\ PostRaises(r)
    /\ UNCHANGED <<meta, rows, sessionVars, phase, tries, answer, made, met>>

-----------------------------------------------------------------------------
(* The session's writes                                                    *)

SameRow(w, v) == w.object = v.object /\ w.row = v.row

\* The UPDATE that comes next: an eager sync flushes the row it has just looked
\* up; the others flush at the end, in the order of the primary keys.
NextWrites(r) ==
    {w \in plan[r] : /\ r \in Eager \/ todo[r] = {}
                     /\ \A v \in plan[r] : Key[w.object] <= Key[v.object]}

\* r's next row is locked by k.
WaitsFor(r, k) ==
    /\ stage[r] = "work" /\ r # k
    /\ \E w \in NextWrites(r), v \in wrote[k] : SameRow(w, v)

Flush(r) ==
    /\ stage[r] = "work"
    /\ NextWrites(r) # {}
    /\ \A k \in Requests : ~ WaitsFor(r, k)
    /\ wrote' = [wrote EXCEPT ![r] = @ \cup NextWrites(r)]
    /\ plan' = [plan EXCEPT ![r] = @ \ NextWrites(r)]
    /\ UNCHANGED <<meta, rows, stage, got, todo, added, phase, tries, answer, made, met, faults>>

\* Session r is in a cycle of sessions that wait for each other's rows.
InDeadlock(r) ==
    \E S \in SUBSET Requests :
        /\ r \in S
        /\ \A k \in S : (\E q \in S : WaitsFor(k, q)) /\ (\E q \in S : WaitsFor(q, k))

\* PostgreSQL ends a cycle of waiting sessions by an error in one of them.
LockFails(r) ==
    /\ InDeadlock(r)
    /\ Forget(r)
    /\ Goto(r, "failing")
    /\ UNCHANGED <<meta, rows, phase, tries, answer, made, met, faults>>

\* The k-th row of an object with the columns r has set.
RowWritten(r, o, k) ==
    [f \in Fields |->
        IF \E w \in wrote[r] : w.object = o /\ w.row = k /\ w.field = f
        THEN (CHOOSE w \in wrote[r] : w.object = o /\ w.row = k /\ w.field = f).value
        ELSE rows[o][k][f]]

Saved(r) ==
    [o \in Objects |->
        LET old == [k \in DOMAIN rows[o] |-> RowWritten(r, o, k)]
        IN  IF o \in added[r] THEN Append(old, got[r][o]) ELSE old]

Flushed(r) == stage[r] = "work" /\ todo[r] = {} /\ plan[r] = {}

\* Mutant: the index is not unique.
RefusedNever(r) == FALSE

\* A unique index finds another row of an object that r adds.
Refused(r) == \E o \in added[r] \cap Unique : rows[o] # <<>>

\* An UPDATE leaves updated_at expired in the session: onupdate sets it in the
\* database and nothing refreshes the row.
Stale(r) == r \in Expired /\ wrote[r] # {}

Ready(r) == Flushed(r) /\ ~ Refused(r) /\ ~ Stale(r)

\* The response reads the expired column, which an asynchronous session cannot
\* load there: the request fails before get_db commits, after Meta has changed.
AnswerFails(r) ==
    /\ Flushed(r) /\ ~ Refused(r) /\ Stale(r)
    /\ Forget(r)
    /\ Goto(r, "failing")
    /\ UNCHANGED <<meta, rows, phase, tries, answer, made, met, faults>>

\* IntegrityError, at the flush that ends the handler.
UniqueFails(r) ==
    /\ Flushed(r) /\ Refused(r)
    /\ Forget(r)
    /\ Goto(r, "failing")
    /\ UNCHANGED <<meta, rows, phase, tries, answer, made, met, faults>>

HasNextPhase(r) == r \in Creates /\ added[r] # {} /\ phase[r] < Len(Pool[r])

\* create_campaign and create_adset commit each phase themselves.
CommitPhase(c) ==
    /\ Ready(c) /\ HasNextPhase(c)
    /\ rows' = Saved(c)
    /\ Forget(c)
    /\ phase' = [phase EXCEPT ![c] = @ + 1]
    /\ tries' = [tries EXCEPT ![c] = 0]
    /\ Goto(c, "post")
    /\ UNCHANGED <<meta, answer, made, met, faults>>

\* The last commit, of the handler or of get_db, comes before the answer.
Commit(r) ==
    /\ Ready(r) /\ ~ HasNextPhase(r)
    /\ rows' = Saved(r)
    /\ Forget(r)
    /\ answer' = [answer EXCEPT ![r] = "ok"]
    /\ Goto(r, "done")
    /\ UNCHANGED <<meta, phase, tries, made, met, faults>>

\* A flush or commit fails in the database; of a commit whose connection broke
\* it is not known whether it landed.  A rolled-back session has expired the
\* row the answer is built from: a later phase of a create fails here too.
StoreFails(r) ==
    /\ stage[r] = "work"
    /\ Fault("store")
    /\ \/ UNCHANGED rows
       \/ Ready(r) /\ rows' = Saved(r)
    /\ Forget(r)
    /\ Goto(r, "failing")
    /\ UNCHANGED <<meta, phase, tries, answer, made, met>>

Rollback(r) ==
    /\ stage[r] = "failing"
    /\ Forget(r)
    /\ answer' = [answer EXCEPT ![r] = "error"]
    /\ Goto(r, "done")
    /\ UNCHANGED <<meta, rows, phase, tries, made, met, faults>>

\* The API process dies: nobody gets an answer.
Crash(r) ==
    /\ UnderWay(r)
    /\ Fault("crash")
    /\ Forget(r)
    /\ Goto(r, "done")
    /\ UNCHANGED <<meta, rows, phase, tries, answer, made, met>>

\* Somebody changes an object in Meta's own tools.
ChangeOutside(o) ==
    /\ meta[o] # Absent
    /\ Fault("outside")
    /\ \E f \in Fields, v \in Values : meta' = [meta EXCEPT ![o][f] = v]
    /\ UNCHANGED <<rows, stage, sessionVars, phase, tries, answer, made, met>>

Work(r) ==
    \/ Flush(r) \/ LockFails(r) \/ UniqueFails(r) \/ AnswerFails(r)
    \/ Commit(r) \/ Rollback(r)

Proceed(r) ==
    \/ Work(r)
    \/ r \in Syncs /\ (Fetch(r) \/ \E o \in Objects : Look(r, o))
    \/ r \in Creates /\ (PostCreate(r) \/ CommitPhase(r))
    \/ r \in Updates /\ PostUpdate(r)

Begin(r) ==
    \/ r \in Syncs /\ BeginSync(r)
    \/ r \in Creates /\ BeginCreate(r)
    \/ r \in Updates /\ BeginUpdate(r)

Fails(r) ==
    \/ r \in Syncs /\ FetchFails(r)
    \/ r \notin Syncs /\ (PostUnanswered(r) \/ PostGarbled(r) \/ PostRefused(r))
    \/ StoreFails(r) \/ Crash(r)

Done ==
    /\ \A r \in Requests : ~ UnderWay(r)
    /\ UNCHANGED vars

Next ==
    \/ \E r \in Requests : Begin(r) \/ Proceed(r) \/ Fails(r)
    \/ \E o \in Objects : ChangeOutside(o)
    \/ Done

Spec == Init /\ [][Next]_vars

\* A request that has begun is served on; PostgreSQL breaks deadlocks.
FairSpec == Spec /\ \A r \in Requests : WF_vars(Proceed(r))

-----------------------------------------------------------------------------
(* Properties                                                              *)

\* No two requests that were under way at once had to do with o.
Apart(o) == \A p \in met : \E r \in p : o \notin Touches(r)

\* One row for each object at Meta: campaigns/routes.py says that campaigns are
\* "upserted".  Where there is no unique index two syncs at once break it;
\* instagram_accounts keeps it, the sync that is second failing.
OneRowPerObject == \A o \in Objects : Len(rows[o]) <= 1

\* Nothing but two overlapping requests that both add an object gives it two
\* rows, after which scalar_one_or_none raises for good: a failed, cut off or
\* repeated sync, or a create that is followed by a sync, does not.
DuplicateNeedsOverlap ==
    \A o \in Objects : Len(rows[o]) > 1 =>
        \E p \in met : \A r \in p : o \in Touches(r) /\ r \notin Updates

\* The inductive invariant behind it.  Known: an object that was listed, has a
\* row or is updated exists at Meta, so a create never adds a row over another.
Known ==
    /\ \A o \in Objects : rows[o] # <<>> => meta[o] # Absent
    /\ \A r \in Requests : \A o \in Objects : got[r][o] # Absent => meta[o] # Absent
    /\ \A u \in Updates : UnderWay(u) => meta[Target[u]] # Absent

\* Sessions: what is to be looked up or added is in scope and has been fetched,
\* and only a sync or a create that is at work adds rows.
Sessions ==
    \A r \in Requests :
        /\ added[r] # {} => stage[r] \in {"work", "failing"} /\ r \notin Updates
        /\ \A o \in todo[r] \cup added[r] : o \in Touches(r) /\ got[r][o] # Absent
        /\ stage[r] = "post" => tries[r] < MaxAttempts
        /\ stage[r] = "idle" => tries[r] = 0

\* Two requests under way that share an object have met.
Meeting ==
    \A r, q \in Requests :
        r # q /\ UnderWay(r) /\ UnderWay(q) /\ Touches(r) \cap Touches(q) # {}
            => {r, q} \in met

\* r has met a request that may add a row for o.
Rivalled(r, o) ==
    \E q \in Requests \ Updates : q # r /\ o \in Touches(q) /\ {r, q} \in met

\* Whoever adds a row over an existing one has met the request that added it.
Adding ==
    \A r \in Requests : \A o \in added[r] : rows[o] # <<>> => Rivalled(r, o)

IInv == TypeOK /\ Known /\ Sessions /\ Meeting /\ Adding /\ DuplicateNeedsOverlap

\* Where there is a unique index, one row for each object.
UniqueRows == \A o \in Unique : Len(rows[o]) <= 1

\* No failure came between Meta and the row of o, nor another request.
Calm(o) ==
    Apart(o) /\ \A k \in {"unanswered", "store", "crash", "outside"} : faults[k] = 0

\* The columns of o that the code keeps in step: of an object that was created
\* here those the create stores, and none that an update leaves behind, because
\* Meta changes it of itself or the answer rolls the update back.
LeftBehind(u) == Follows[u] \cup IF u \in Expired THEN {Change[u][1]} ELSE {}

Mirrored(o) ==
    {f \in IF o \in Pooled THEN Stored[o] ELSE Fields :
        \A u \in Updates : Target[u] = o /\ stage[u] # "idle" => f \notin LeftBehind(u)}

\* The order "Meta first, then the row" leaves one of these columns stale only if
\* a request was cut off in between, Meta was changed elsewhere, or two requests
\* overlapped: a sync, a create and an update each end with the row as Meta has it.
RowsInStep ==
    \A o \in Objects :
        Calm(o) /\ (\A r \in Requests : o \in Touches(r) => ~ UnderWay(r)) =>
            \A k \in DOMAIN rows[o], f \in Mirrored(o) : rows[o][k][f] = meta[o][f]

Answers(s) == answer[s] = "none" /\ answer'[s] = "ok"
Alone(s) == \A p \in met : s \notin p

\* The commit of a sync that met nobody leaves exactly one row for each listed
\* object, new or with the columns it is told as listed and the others as they
\* were, and no other row changed: whatever failed or was cut off before.
LoneSyncMirrors ==
    [][\A s \in Syncs : Answers(s) /\ Alone(s) =>
        \A o \in Objects :
            IF got[s][o] = Absent THEN rows'[o] = rows[o]
            ELSE rows'[o] =
                  << IF rows[o] = <<>> THEN got[s][o]
                     ELSE [f \in Fields |-> IF f \in Told(s, o) THEN got[s][o][f]
                                            ELSE rows[o][1][f]] >>]_vars

\* Objects left at Meta without a row, by creates that are over.
Orphans ==
    {o \in UNION {made[c] : c \in {c \in Creates : ~ UnderWay(c)}} : rows[o] = <<>>}

\* A fault loses track of one object at most: the repeated posts, the phases
\* and the swallowed failure of the ad set add no other way to lose one.
OrphansCostFaults ==
    Cardinality(Orphans) <= faults["unanswered"] + faults["store"] + faults["crash"]

\* What OrphansCostFaults rests on.  Posting: a create holds what its last answered
\* post has created, one object at most, and changes no row.
Posting ==
    \A c \in Creates :
        /\ plan[c] = {} /\ wrote[c] = {}
        /\ added[c] # {} => stage[c] = "work"
        /\ \A o, p \in added[c] : o = p
        /\ \A o \in Objects : got[c][o] # Absent => o \in added[c]

\* Objects that a create has made and that it will not add a row for any more.
Lost == {o \in Objects : rows[o] = <<>> /\ \E c \in Creates : o \in made[c] \ added[c]}

LostCostFaults ==
    /\ IsFiniteSet(Lost)
    /\ Cardinality(Lost) <= faults["unanswered"] + faults["store"] + faults["crash"]

LostInv == IInv /\ Posting /\ LostCostFaults

\* What LoneSyncMirrors and RowsInStep rest on.  Writing: what a session changes is
\* in its scope.  A sync sets the columns it is told of first rows to what Meta has
\* told, each object looked up once; an update sets the column it was asked to.
SyncWrites(s) ==
    /\ plan[s] \cup wrote[s] # {} => stage[s] \in {"work", "failing"}
    /\ stage[s] = "work" => \A o \in Objects : got[s][o] # Absent => o \in Scope[s]
    /\ todo[s] \cap added[s] = {}
    /\ \A w \in plan[s] \cup wrote[s] :
        /\ w.row = 1 /\ w.field \in Told(s, w.object)
        /\ got[s][w.object] # Absent /\ w.value = got[s][w.object][w.field]
        /\ w.object \notin todo[s] \cup added[s]

Writing ==
    \A r \in Requests :
        /\ \A w \in plan[r] \cup wrote[r] : w.object \in Touches(r)
        /\ wrote[r] # {} => stage[r] \in {"work", "failing"}
        /\ plan[r] # {} => UnderWay(r)
        /\ r \in Syncs => SyncWrites(r)
        /\ r \in Updates => \A w \in plan[r] \cup wrote[r] :
                               w.field = Change[r][1] /\ w.value = Change[r][2]

\* A column of the one row of o is as r wants it, or will be when r commits.
Covered(r, o, f, v) ==
    rows[o][1][f] = v
        \/ [object |-> o, row |-> 1, field |-> f, value |-> v] \in plan[r] \cup wrote[r]

\* LookedUp: what a sync that met nobody found of the objects is still so.
LookedUp ==
    \A s \in Syncs : stage[s] = "work" /\ Alone(s) =>
        \A o \in Objects : got[s][o] # Absent /\ o \notin todo[s] =>
            \/ o \in added[s] /\ rows[o] = <<>>
            \/ /\ o \notin added[s] /\ Len(rows[o]) = 1
               /\ \A f \in Told(s, o) : Covered(s, o, f, got[s][o][f])

\* InStep: of a calm object each session holds what Meta has in the mirrored
\* columns, and the row lacks at most the column of an update that has been posted.
Posted(u, o, f) == Target[u] = o /\ stage[u] = "work" /\ Change[u][1] = f

InStep ==
    \A o \in Objects : Calm(o) =>
        /\ \A u \in Updates : Target[u] = o /\ stage[u] \in {"post", "work"} =>
              rows[o] # <<>> /\ Covered(u, o, Change[u][1], Change[u][2])
        /\ \A f \in Mirrored(o) :
              /\ \A r \in Requests \ Updates :
                    stage[r] = "work" /\ got[r][o] # Absent => got[r][o][f] = meta[o][f]
              /\ rows[o] # <<>> /\ (\A u \in Updates : ~ Posted(u, o, f)) =>
                    rows[o][1][f] = meta[o][f]
              /\ \A u \in Updates : Posted(u, o, f) => meta[o][f] = Change[u][2]

SessionInv == IInv /\ Posting /\ Writing /\ LookedUp /\ InStep

\* Every request ends, although sessions wait for each other's rows.
RequestsEnd == \A r \in Requests : stage[r] # "idle" ~> stage[r] = "done"

-----------------------------------------------------------------------------
(* Progress, the part of RequestsEnd that is safety                        *)

\* Meta has an object left for the next post of create c.  Other than in an
\* instance, it always has.
HasLeft(c) == \E o \in Pool[c][phase[c]] : meta[o] = Absent

\* Request r is under way and need not wait for another: what enables Proceed(r).
MayGoOn(r) ==
    \/ stage[r] = "failing"
    \/ stage[r] = "fetch" /\ Listed(r) # {}
    \/ stage[r] = "post" /\ (r \in Creates => HasLeft(r))
    \/ /\ stage[r] = "work"
       /\ \/ \E o \in todo[r] : r \in Eager => plan[r] = {}
          \/ Flushed(r) \/ InDeadlock(r)
          \/ NextWrites(r) # {} /\ \A k \in Requests : ~ WaitsFor(r, k)

\* Whatever rows the sessions have written, one of the requests under way may go on.
NoStandstill ==
    /\ \E r \in Requests : UnderWay(r)
    /\ \A c \in Creates : stage[c] = "post" => HasLeft(c)
    => \E r \in Requests : MayGoOn(r)

\* Only syncs fetch a listing, and a session has finitely many columns to write.
ProgressInv ==
    /\ SessionInv
    /\ \A r \in Requests : IsFiniteSet(plan[r]) /\ (stage[r] = "fetch" => r \in Syncs)

\* A bound on the steps that request r has before it: for each object still to be
\* looked up, each write to be flushed, each post and each phase of a create.
PerObject == Cardinality(Fields) + 1
PerPhase == MaxAttempts + 4
Ahead(r) ==
    Cardinality(todo[r]) * PerObject + Cardinality(plan[r]) +
        IF r \in Creates THEN (Len(Pool[r]) - phase[r]) * PerPhase ELSE 0

StepsLeft(r) ==
    CASE stage[r] = "idle" -> Cardinality(Objects) * PerObject + PerPhase + 1 +
                              IF r \in Creates THEN Len(Pool[r]) * PerPhase ELSE 0
      [] stage[r] = "fetch" -> Cardinality(Objects) * PerObject + 3
      [] stage[r] = "post" -> Ahead(r) + 3 + (MaxAttempts - tries[r])
      [] stage[r] = "work" -> Ahead(r) + 2
      [] stage[r] = "failing" -> 1
      [] stage[r] = "done" -> 0

\* Every step but a change outside, of which the budget bounds the number, takes
\* one request nearer to its end and leaves the others where they are.
StepsRunOut ==
    [][\/ /\ \E o \in Objects : ChangeOutside(o)
          /\ \A q \in Requests : StepsLeft(q)' = StepsLeft(q)
       \/ \E r \in Requests :
            /\ StepsLeft(r) \in Nat /\ StepsLeft(r)' \in Nat /\ StepsLeft(r)' < StepsLeft(r)
            /\ \A q \in Requests \ {r} : StepsLeft(q)' = StepsLeft(q)]_vars
=============================================================================
