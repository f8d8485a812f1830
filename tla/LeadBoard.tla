------------------------------ MODULE LeadBoard ------------------------------
(***************************************************************************)
(* What a user sees and does of the leads: the event stream and the        *)
(* listings of api/v1/leads/routes.py, the CRM status, and the dashboard   *)
(* of services/analytics.py, while transactions store more leads.          *)
(*                                                                         *)
(* A batch is one transaction that stores leads: a webhook lead alone, or  *)
(* those of a bulk import.  Every SELECT sees what is committed then; no   *)
(* lead is ever deleted.  created_at is PostgreSQL's now(), the time the   *)
(* transaction began, so that the leads of a batch have the same.          *)
(***************************************************************************)
EXTENDS Integers, Sequences, FiniteSets

CONSTANTS
    Batches,    \* transactions that store leads
    Leads,
    BatchOf,    \* BatchOf[l]: the batch lead l comes with
    Past,       \* batches committed before the model begins
    Since,      \* Since[p]: leads created since the start of period p
    Clients,    \* browsers with an event stream
    Walks,      \* clients that walk through all pages of a listing
    Updates,    \* requests that set the status of a lead
    Dashboards, \* requests of the dashboard
    Statuses,   \* what a request may set: the field is any string
    Known,      \* the five statuses of the CRM
    Named,      \* leads that the updates name
    PageSize,
    Mixes,      \* sets of the above that come together
    Budget      \* Budget[k]: how often fault k may happen

Actors == Clients \cup Walks \cup Updates \cup Dashboards
Periods == {"today", "week", "month", "days"}
Figures == Periods \cup {"total", "status"}
FaultKinds == {"publish", "cut"}

ASSUME BoardConstants ==
    /\ Clients \cap (Walks \cup Updates \cup Dashboards) = {}
    /\ Walks \cap (Updates \cup Dashboards) = {} /\ Updates \cap Dashboards = {}
    /\ IsFiniteSet(Leads) /\ Leads # {}
    /\ BatchOf \in [Leads -> Batches]
    /\ Past \subseteq Batches
    /\ Since \in [Periods -> SUBSET Leads]
    /\ Since["today"] \subseteq Since["week"] \cap Since["month"]
    /\ Since["week"] \subseteq Since["days"]
    /\ Named \subseteq Leads
    /\ "new" \in Known \cap Statuses
    /\ PageSize \in Nat \ {0}
    /\ Mixes \subseteq SUBSET (Actors \cup Batches)
    /\ Budget \in [FaultKinds -> Nat]

VARIABLES
    tx,         \* tx[b]: "idle", "open", "there" or "gone"
    stamp,      \* stamp[b]: created_at of its leads
    clock,      \* transactions begun so far
    saved,      \* leads flushed and announced by open batches, or stored
    status,     \* status[l], as committed
    stage,      \* stage[a]: where a client, walk or request stands
    subscribed, \* clients whose subscription Redis has
    queue,      \* queue[k]: events on their way to client k
    shown,      \* shown[a]: leads that client or walk a has been shown
    page, total,\* page[w], total[w]: page of a walk, and what it was told last
    lead, wanted, loaded, \* of an update: lead, new status, and the one read
    figures,    \* figures[d]: the numbers of a dashboard so far
    now,        \* now[d]: the time a dashboard takes for its own
    silent,     \* leads whose event was not published (history)
    deaf,       \* deaf[k]: leads published while k was not subscribed (history)
    present,    \* present[w]: leads there when walk w began (history)
    seen,       \* seen[w]: how many leads were there when it read last (history)
    prior,      \* prior[u]: updates answered before u began (history)
    odd,        \* leads that had a status out of Known (history)
    faults

leadVars == <<tx, stamp, clock, saved, silent>>
streamVars == <<subscribed, queue, deaf>>
walkVars == <<page, total, present, seen>>
updateVars == <<lead, wanted, loaded, prior>>
boardVars == <<figures, now>>
vars == <<leadVars, status, odd, stage, streamVars, shown, walkVars, updateVars,
          boardVars, faults>>

Stored(l) == tx[BatchOf[l]] = "there"
Visible == {l \in Leads : Stored(l)}
Created(l) == stamp[BatchOf[l]]

TypeOK ==
    /\ tx \in [Batches -> {"idle", "open", "there", "gone"}]
    /\ stamp \in [Batches -> Nat] /\ clock \in Nat
    /\ saved \subseteq Leads
    /\ status \in [Leads -> Statuses]
    /\ stage \in [Actors -> {"idle", "connecting", "open", "closed", "counting", "reading", "ended",
                             "loaded", "saved", "kept", "committed", "ok", "rejected", "lost"}]
    /\ subscribed \subseteq Clients
    /\ queue \in [Clients -> Seq(Leads)]
    /\ shown \in [Clients \cup Walks -> SUBSET Leads]
    /\ page \in [Walks -> Nat \ {0}] /\ total \in [Walks -> 0 .. Cardinality(Leads)]
    /\ lead \in [Updates -> Leads]
    /\ wanted \in [Updates -> Statuses] /\ loaded \in [Updates -> Statuses]
    /\ figures \in [Dashboards -> [Figures -> -1 .. Cardinality(Leads)]]
    /\ now \in [Dashboards -> Nat]
    /\ silent \subseteq Leads /\ odd \subseteq Leads
    /\ deaf \in [Clients -> SUBSET Leads]
    /\ present \in [Walks -> SUBSET Leads] /\ seen \in [Walks -> Nat]
    /\ prior \in [Updates -> SUBSET Updates]
    /\ faults \in [FaultKinds -> Nat]

Init ==
    /\ \E mix \in Mixes :
        /\ tx = [b \in Batches |-> IF b \in Past THEN "there"
                                   ELSE IF b \in mix THEN "idle" ELSE "gone"]
        /\ stage = [a \in Actors |-> IF a \in mix THEN "idle" ELSE "ended"]
    /\ stamp = [b \in Batches |-> 0] /\ clock = 0
    /\ saved = Visible
    /\ status = [l \in Leads |-> "new"]
    /\ subscribed = {} /\ queue = [k \in Clients |-> <<>>]
    /\ shown = [a \in Clients \cup Walks |-> {}]
    /\ page = [w \in Walks |-> 1] /\ total = [w \in Walks |-> 0]
    /\ lead = [u \in Updates |-> CHOOSE l \in Leads : TRUE]
    /\ wanted = [u \in Updates |-> "new"] /\ loaded = [u \in Updates |-> "new"]
    /\ figures = [d \in Dashboards |-> [f \in Figures |-> -1]]
    /\ now = [d \in Dashboards |-> 0]
    /\ silent = {} /\ odd = {}
    /\ deaf = [k \in Clients |-> {}]
    /\ present = [w \in Walks |-> {}] /\ seen = [w \in Walks |-> 0]
    /\ prior = [u \in Updates |-> {}]
    /\ faults = [k \in FaultKinds |-> 0]

Fault(k) ==
    /\ faults[k] < Budget[k]
    /\ faults' = [faults EXCEPT ![k] = @ + 1]

Goto(a, s) == stage' = [stage EXCEPT ![a] = s]

-----------------------------------------------------------------------------
(* Transactions that store leads                                           *)

BeginBatch(b) ==
    /\ tx[b] = "idle"
    /\ tx' = [tx EXCEPT ![b] = "open"]
    /\ clock' = clock + 1
    /\ stamp' = [stamp EXCEPT ![b] = clock + 1]
    /\ UNCHANGED <<saved, silent, status, odd, stage, streamVars, shown, walkVars, updateVars,
                   boardVars, faults>>

\* A lead is flushed and its event published, to whoever is subscribed then; a
\* publish that fails is logged and forgotten.
Announce(l) ==
    /\ tx[BatchOf[l]] = "open" /\ l \notin saved
    /\ saved' = saved \cup {l}
    /\ \/ /\ queue' = [k \in Clients |->
                         IF k \in subscribed THEN Append(queue[k], l) ELSE queue[k]]
          /\ deaf' = [k \in Clients |-> IF k \in subscribed THEN deaf[k] ELSE deaf[k] \cup {l}]
          /\ UNCHANGED <<silent, faults>>
       \/ /\ Fault("publish")
          /\ silent' = silent \cup {l}
          /\ UNCHANGED <<queue, deaf>>
    /\ UNCHANGED <<tx, stamp, clock, status, odd, stage, subscribed, shown, walkVars,
                   updateVars, boardVars>>

\* All leads of the batch are there at once, or none is.
EndBatch(b) ==
    /\ tx[b] = "open"
    /\ \/ /\ \A l \in Leads : BatchOf[l] = b => l \in saved
          /\ tx' = [tx EXCEPT ![b] = "there"]
          /\ UNCHANGED <<saved, faults>>
       \/ /\ Fault("cut")
          /\ tx' = [tx EXCEPT ![b] = "gone"]
          /\ saved' = {l \in saved : BatchOf[l] # b}
    /\ UNCHANGED <<stamp, clock, silent, status, odd, stage, streamVars, shown, walkVars,
                   updateVars, boardVars>>

-----------------------------------------------------------------------------
(* The stream                                                              *)

\* stream_leads: SUBSCRIBE is sent, its confirmation not waited for, and the
\* client told that it is connected.  One whose stream has ended may try again.
Connect(k) ==
    /\ stage[k] \in {"idle", "closed"}
    /\ Goto(k, "connecting")
    /\ UNCHANGED <<leadVars, status, odd, streamVars, shown, walkVars, updateVars, boardVars, faults>>

\* Redis gets to the SUBSCRIBE.
Subscribed(k) ==
    /\ stage[k] \in {"connecting", "open"} /\ k \notin subscribed
    /\ subscribed' = subscribed \cup {k}
    /\ UNCHANGED <<leadVars, status, odd, stage, queue, deaf, shown, walkVars, updateVars, boardVars, faults>>

\* Told so, the client asks for the leads there are.
ListLeads(k) ==
    /\ stage[k] = "connecting"
    /\ shown' = [shown EXCEPT ![k] = @ \cup Visible]
    /\ Goto(k, "open")
    /\ UNCHANGED <<leadVars, status, odd, streamVars, walkVars, updateVars, boardVars, faults>>

\* Mutant: when a heartbeat is due it is sent, and the message read is not.
ForwardOrHeartbeat(k) ==
    /\ stage[k] \in {"connecting", "open"} /\ queue[k] # <<>>
    /\ queue' = [queue EXCEPT ![k] = Tail(@)]
    /\ shown' = [shown EXCEPT ![k] = @ \cup {Head(queue[k])}] \/ UNCHANGED shown
    /\ UNCHANGED <<leadVars, status, odd, stage, subscribed, deaf, walkVars, updateVars, boardVars, faults>>

\* A turn of the loop that finds a message.
Forward(k) ==
    /\ stage[k] \in {"connecting", "open"} /\ queue[k] # <<>>
    /\ queue' = [queue EXCEPT ![k] = Tail(@)]
    /\ shown' = [shown EXCEPT ![k] = @ \cup {Head(queue[k])}]
    /\ UNCHANGED <<leadVars, status, odd, stage, subscribed, deaf, walkVars, updateVars, boardVars, faults>>

\* The client goes, or Redis does: get_message raises, which nothing catches.
\* The generator ends, and what was on its way to it is lost.
EndStream(k) ==
    /\ stage[k] \in {"connecting", "open"}
    /\ Goto(k, "closed")
    /\ subscribed' = subscribed \ {k}
    /\ queue' = [queue EXCEPT ![k] = <<>>]
    /\ deaf' = [deaf EXCEPT ![k] = @ \cup {queue[k][i] : i \in DOMAIN queue[k]}]
    /\ UNCHANGED <<leadVars, status, odd, shown, walkVars, updateVars, boardVars, faults>>

-----------------------------------------------------------------------------
(* Listings                                                                *)

\* Orders in which a SELECT sorted by created_at, newest first, may return the
\* leads: those created at the same time in any.
Orders(S) ==
    {f \in [1 .. Cardinality(S) -> S] :
        \A i, j \in 1 .. Cardinality(S) :
            i < j => f[i] # f[j] /\ Created(f[i]) >= Created(f[j])}

\* Mutant: the last page, when it is not full, is forgotten.
TotalPagesFull(n) == n \div PageSize

TotalPages(n) == (n + PageSize - 1) \div PageSize

\* The page that OFFSET (page - 1) * page_size and LIMIT page_size take row i to.
OffsetPage(i) == (i - 1) \div PageSize + 1

StartWalk(w) ==
    /\ stage[w] = "idle"
    /\ Goto(w, "counting")
    /\ present' = [present EXCEPT ![w] = Visible]
    /\ UNCHANGED <<leadVars, status, odd, streamVars, shown, page, total, seen, updateVars, boardVars, faults>>

CountLeads(w) ==
    /\ stage[w] = "counting"
    /\ total' = [total EXCEPT ![w] = Cardinality(Visible)]
    /\ Goto(w, "reading")
    /\ UNCHANGED <<leadVars, status, odd, streamVars, shown, page, present, seen, updateVars, boardVars, faults>>

\* OFFSET and LIMIT, in a statement after that of the count; the client goes on
\* to the next page as long as total_pages has one.
ReadPage(w) ==
    /\ stage[w] = "reading"
    /\ \E f \in Orders(Visible) :
        shown' = [shown EXCEPT ![w] = @ \cup
                    {f[i] : i \in {i \in DOMAIN f : OffsetPage(i) = page[w]}}]
    /\ IF page[w] < TotalPages(total[w])
       THEN Goto(w, "counting") /\ page' = [page EXCEPT ![w] = @ + 1]
       ELSE Goto(w, "ended") /\ UNCHANGED page
    /\ seen' = [seen EXCEPT ![w] = Cardinality(Visible)]
    /\ UNCHANGED <<leadVars, status, odd, streamVars, total, present, updateVars, boardVars, faults>>

-----------------------------------------------------------------------------
(* The status of a lead                                                    *)

\* Mutant: get_lead does not ask whether there is a lead.
BeginUpdateUnchecked(u) ==
    /\ stage[u] = "idle"
    /\ \E l \in Named, s \in Statuses :
        /\ lead' = [lead EXCEPT ![u] = l]
        /\ wanted' = [wanted EXCEPT ![u] = s]
        /\ loaded' = [loaded EXCEPT ![u] = IF Stored(l) THEN status[l] ELSE "none"]
        /\ Goto(u, "loaded")
    /\ prior' = [prior EXCEPT ![u] = {v \in Updates : stage[v] = "ok"}]
    /\ UNCHANGED <<leadVars, status, odd, streamVars, shown, walkVars, boardVars, faults>>

\* get_lead: a lead that is not there is a 404.
BeginUpdate(u) ==
    /\ stage[u] = "idle"
    /\ \E l \in Named, s \in Statuses :
        /\ lead' = [lead EXCEPT ![u] = l]
        /\ wanted' = [wanted EXCEPT ![u] = s]
        /\ IF Stored(l) THEN /\ loaded' = [loaded EXCEPT ![u] = status[l]]
                             /\ Goto(u, "loaded")
           ELSE Goto(u, "rejected") /\ UNCHANGED loaded
    /\ prior' = [prior EXCEPT ![u] = {v \in Updates : stage[v] = "ok"}]
    /\ UNCHANGED <<leadVars, status, odd, streamVars, shown, walkVars, boardVars, faults>>

\* A status that was loaded already is not written; an UPDATE waits for the
\* one of another session that has not committed.
Save(u) ==
    /\ stage[u] = "loaded"
    /\ \/ wanted[u] = loaded[u] /\ Goto(u, "kept")
       \/ /\ wanted[u] # loaded[u]
          /\ \A v \in Updates : stage[v] = "saved" => lead[v] # lead[u]
          /\ Goto(u, "saved")
    /\ UNCHANGED <<leadVars, status, odd, streamVars, shown, walkVars, updateVars, boardVars, faults>>

Lands(u) ==
    /\ status' = [status EXCEPT ![lead[u]] = wanted[u]]
    /\ odd' = odd \cup {l \in {lead[u]} : wanted[u] \notin Known}

\* Mutant: a session closed without its commit.
CommitForgotten(u) ==
    /\ stage[u] \in {"saved", "kept"}
    /\ Goto(u, "committed")
    /\ UNCHANGED <<status, odd>>
    /\ UNCHANGED <<leadVars, streamVars, shown, walkVars, updateVars, boardVars, faults>>

CommitUpdate(u) ==
    /\ stage[u] \in {"saved", "kept"}
    /\ Goto(u, "committed")
    /\ IF stage[u] = "saved" THEN Lands(u) ELSE UNCHANGED <<status, odd>>
    /\ UNCHANGED <<leadVars, streamVars, shown, walkVars, updateVars, boardVars, faults>>

\* The response leaves when the session has committed and closed.
Reply(u) ==
    /\ stage[u] = "committed"
    /\ Goto(u, "ok")
    /\ UNCHANGED <<leadVars, status, odd, streamVars, shown, walkVars, updateVars, boardVars, faults>>

\* The database or the process fails, perhaps after a commit that landed.
CutOff(u) ==
    /\ stage[u] \in {"loaded", "saved", "kept", "committed"}
    /\ Fault("cut")
    /\ Goto(u, "lost")
    /\ (stage[u] = "saved" /\ Lands(u)) \/ UNCHANGED <<status, odd>>
    /\ UNCHANGED <<leadVars, streamVars, shown, walkVars, updateVars, boardVars>>

-----------------------------------------------------------------------------
(* The dashboard                                                           *)

\* Mutant: the breakdown is read before the total.
StatusFirst == <<"status", "total", "today", "week", "month", "days">>

Order == <<"total", "today", "week", "month", "status", "days">>

\* count_by_date_range: a lead is of the time its transaction began.
CountSince(p, time) == Cardinality({l \in Visible \cap Since[p] : Created(l) <= time})

\* count_by_status, as far as the answer has it: a status it does not know is
\* dropped.
CountByStatus == Cardinality({l \in Visible : status[l] \in Known})

\* daily_lead_counts of the last thirty days, summed up.
CountDaily(time) == CountSince("days", time)

\* What a SELECT finds.
Count(f, time) ==
    CASE f = "total"  -> Cardinality(Visible)
      [] f = "status" -> CountByStatus
      [] f = "days"   -> CountDaily(time)
      [] OTHER        -> CountSince(f, time)

\* now is read before the database is asked.
BeginDashboard(d) ==
    /\ stage[d] = "idle"
    /\ now' = [now EXCEPT ![d] = clock]
    /\ Goto(d, "counting")
    /\ UNCHANGED <<leadVars, status, odd, streamVars, shown, walkVars, updateVars, figures, faults>>

CountNext(d) ==
    /\ stage[d] = "counting"
    /\ \E i \in DOMAIN Order :
        /\ \A j \in DOMAIN Order : j < i <=> figures[d][Order[j]] # -1
        /\ figures' = [figures EXCEPT ![d][Order[i]] = Count(Order[i], now[d])]
        /\ Goto(d, IF i = Len(Order) THEN "ended" ELSE "counting")
    /\ UNCHANGED <<leadVars, status, odd, streamVars, shown, walkVars, updateVars, now, faults>>

-----------------------------------------------------------------------------

\* Nothing is under way; an open stream with no event to send idles.
Quiet ==
    /\ \A a \in Actors : stage[a] \in {"open", "closed", "ended", "ok", "rejected", "lost"}
    /\ \A b \in Batches : tx[b] \in {"there", "gone"}
    /\ \A k \in Clients : queue[k] = <<>>

Done == Quiet /\ UNCHANGED vars

Next ==
    \/ \E b \in Batches : BeginBatch(b) \/ EndBatch(b)
    \/ \E l \in Leads : Announce(l)
    \/ \E k \in Clients :
          Connect(k) \/ Subscribed(k) \/ ListLeads(k) \/ Forward(k) \/ EndStream(k)
    \/ \E w \in Walks : StartWalk(w) \/ CountLeads(w) \/ ReadPage(w)
    \/ \E u \in Updates : BeginUpdate(u) \/ Save(u) \/ CommitUpdate(u) \/ Reply(u) \/ CutOff(u)
    \/ \E d \in Dashboards : BeginDashboard(d) \/ CountNext(d)
    \/ Done

Spec == Init /\ [][Next]_vars

-----------------------------------------------------------------------------
(* Properties                                                              *)

\* A client that has an open stream and has listed the leads, in the first place
\* or after a stream that ended, lacks a stored lead only if its event was not
\* published, or published while the client was not subscribed.
MissedNeedsCause ==
    \A k \in Clients :
        stage[k] = "open" /\ queue[k] = <<>> => Visible \subseteq shown[k] \cup silent \cup deaf[k]

\* A walk through all pages shows every lead that was there when it began, unless
\* the lead was created in the same transaction as another, the order of the two
\* being open, or leads stored since the last count pushed it off the last page.
WalkNeedsCause ==
    \A w \in Walks : stage[w] = "ended" =>
        \A l \in present[w] \ shown[w] :
            \/ \E o \in Visible \ {l} : Created(o) = Created(l)
            \/ total[w] < seen[w]

\* The status of a lead is one that an update asked for, and never one that an
\* update answered before another, also answered, had begun.
LastUpdateHolds ==
    \A l \in Leads :
        LET answered == {u \in Updates : lead[u] = l /\ stage[u] = "ok"} IN
        answered # {} =>
            \E u \in Updates :
                /\ lead[u] = l /\ wanted[u] = status[l] /\ stage[u] \notin {"idle", "rejected"}
                /\ \A v \in answered : u \notin prior[v]

\* The figures of a dashboard come from as many statements, each of which sees
\* the leads of the one before and more: what an earlier one counted a later one
\* does, except that a lead whose status is none of the five is in no count by
\* status.  The periods of a dashboard lie in each other.
DashboardInOrder ==
    \A d \in Dashboards : stage[d] = "ended" /\ figures[d]["total"] # -1 =>
        /\ \A f \in Figures \ {"days"} : figures[d][f] <= figures[d]["status"] + Cardinality(odd)
        /\ figures[d]["today"] <= figures[d]["week"]
        /\ figures[d]["today"] <= figures[d]["month"]
        /\ figures[d]["week"] <= figures[d]["days"]

-----------------------------------------------------------------------------
(* An inductive invariant, for MissedNeedsCause and LastUpdateHolds        *)

Tables ==
    /\ \A b \in Past : tx[b] = "there"
    /\ Visible \subseteq saved

\* Lead l has come to client k, is on its way to it, or is known not to be.
Heard(k, l) ==
    \/ l \in shown[k] \cup silent \cup deaf[k]
    \/ \E i \in DOMAIN queue[k] : queue[k][i] = l

Streams ==
    \A k \in Clients :
        /\ \A l \in saved : BatchOf[l] \in Past \/ Heard(k, l)
        /\ stage[k] = "open" => \A l \in Leads : BatchOf[l] \in Past => l \in shown[k]

Effective(l) == {u \in Updates : lead[u] = l /\ stage[u] \in {"committed", "ok"}}
Open(l) == {u \in Updates : lead[u] = l /\ stage[u] \in {"loaded", "saved", "kept"}}

\* Update w may count as the last of lead l.
LastWriter(l, w) ==
    /\ lead[w] = l /\ wanted[w] = status[l] /\ stage[w] \notin {"idle", "rejected"}
    /\ \A v \in Effective(l) : w \notin prior[v]
    /\ \A x \in Open(l) : w \in prior[x] => loaded[x] = status[l]

Unwritten(l) == Effective(l) = {} /\ \A x \in Open(l) : loaded[x] = status[l]

Updating ==
    /\ \A u \in Updates : \A v \in prior[u] : stage[v] = "ok"
    /\ \A u \in Updates : stage[u] = "kept" => wanted[u] = loaded[u]
    /\ \A l \in Leads : Unwritten(l) \/ \E w \in Updates : LastWriter(l, w)

\* What there is was announced, a client has heard, or cannot hear, of all that
\* was, and the last update of a lead is one that no answered update followed.
IInv == TypeOK /\ Tables /\ Streams /\ Updating

-----------------------------------------------------------------------------
(* An inductive invariant, for WalkNeedsCause and DashboardInOrder         *)

\* The order of a listing: who comes before lead l, and who may as well.
Newer(l) == {o \in Visible : Created(o) > Created(l)}
Twin(l) == \E o \in Visible \ {l} : Created(o) = Created(l)

\* The row of l moves on only as leads are stored, so that a walk never passes it.
Walking ==
    /\ WalkNeedsCause
    /\ \A w \in Walks :
        /\ present[w] \subseteq Visible
        /\ stage[w] = "idle" => page[w] = 1
        /\ stage[w] \in {"counting", "reading"} =>
              \A l \in present[w] \ shown[w] :
                  Twin(l) \/ page[w] <= OffsetPage(Cardinality(Newer(l)) + 1)

\* What a SELECT has counted, p, is in what q counts: later, or now if it had not.
Within(d, p, q) ==
    figures[d][p] <= IF figures[d][q] = -1 THEN CountSince(q, now[d]) ELSE figures[d][q]

Counting ==
    /\ \A l \in Leads : status[l] \notin Known => l \in odd
    /\ \A d \in Dashboards :
        /\ \A f \in Figures \ {"days"} :
              figures[d][f] <= IF figures[d]["status"] = -1 THEN Cardinality(Visible)
                               ELSE figures[d]["status"] + Cardinality(odd)
        /\ Within(d, "today", "week") /\ Within(d, "today", "month") /\ Within(d, "week", "days")
        /\ stage[d] = "idle" => \A f \in Figures : figures[d][f] = -1
        /\ stage[d] = "ended" /\ figures[d]["total"] # -1 => \A f \in Figures : figures[d][f] # -1

BoardInv == IInv /\ Walking /\ Counting
=============================================================================
