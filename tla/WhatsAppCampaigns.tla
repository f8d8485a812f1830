-------------------------- MODULE WhatsAppCampaigns --------------------------
(***************************************************************************)
(* The WhatsApp routes (api/v1/whatsapp/routes.py): contacts, templates    *)
(* and campaigns of the users, and the request that creates a campaign and *)
(* sends its messages one by one while its transaction is open.            *)
(*                                                                         *)
(* An object is a contact, a template or the campaign of a create request, *)
(* which is known by that request.  Ids are UUIDs: what was deleted does   *)
(* not come back.  A message is one entry of a create's contact_ids, which *)
(* may name a contact twice.  The answer does not tell who was sent to     *)
(* (its response_model has no send_results), so the rows of                *)
(* whatsapp_campaign_contacts are the only record.                         *)
(***************************************************************************)
EXTENDS Naturals, Sequences, FiniteSets

CONSTANTS
    Contacts, Templates, \* ids of contacts and templates
    Creates,             \* POSTs of a campaign
    Edits, Deletes,      \* PUTs and DELETEs
    Owner,               \* Owner[o]: the user an object belongs to
    By,                  \* By[r]: the user who makes an edit or delete
    Lists,               \* Lists[c]: what create c may name as contact_ids
    Contents,            \* values of the column of an object that is sent
    Initial,             \* objects that exist at the start
    Budget               \* Budget[k]: how many requests fault k may hit

Requests == Creates \cup Edits \cup Deletes
Editable == Contacts \cup Templates
Objects  == Editable \cup Creates
FaultKinds == {"refused", "unclear", "store", "crash"}

ASSUME WhatsAppConstants ==
    /\ Contacts \cap Templates = {} /\ Editable \cap Creates = {}
    /\ Creates \cap Edits = {} /\ Creates \cap Deletes = {} /\ Edits \cap Deletes = {}
    /\ Templates # {} /\ Contents # {}
    /\ Lists \in [Creates -> SUBSET Seq(Contacts)]
    /\ Initial \subseteq Editable
    /\ Budget \in [FaultKinds -> Nat]

VARIABLES
    life,     \* life[o]: "unborn", "there" or "gone", as committed
    content,  \* content[o]: number of a contact, name of a template
    used,     \* used[c]: the template of campaign c
    rows,     \* rows[c]: message_status of its committed messages, by entry
    stage,    \* stage[r]: where request r stands
    target,   \* target[r]: what an edit or delete has loaded
    entries,  \* entries[c]: contact_ids of create c
    pending,  \* pending[c]: message_status of the entries it has been through
    read,     \* read[c]: what it has read: template name, number of the contact
    answer,   \* answer[r]: "none", "ok", "rejected" (a 4xx) or "error" (a 500)
    sent,     \* messages that WhatsApp has accepted (history)
    held,     \* held[c]: contents objects have had since c began (history)
    faults    \* faults[k]: the requests fault k has hit

tableVars == <<life, content, used, rows>>
createVars == <<entries, pending, read, sent>>
vars == <<tableVars, stage, target, createVars, answer, held, faults>>

Statuses == {"QUEUED", "SENT", "FAILED"}
Stages == {"idle", "loaded", "found", "sending", "reached", "committed", "done"}
Message == [create : Creates, entry : Nat \ {0}, number : Contents, name : Contents]

TypeOK ==
    /\ life \in [Objects -> {"unborn", "there", "gone"}]
    /\ content \in [Editable -> Contents]
    /\ used \in [Creates -> Templates]
    /\ rows \in [Creates -> Seq(Statuses \cup {"none"})]
    /\ stage \in [Requests -> Stages]
    /\ target \in [Edits \cup Deletes -> Objects]
    /\ entries \in [Creates -> Seq(Contacts)]
    /\ pending \in [Creates -> Seq(Statuses)]
    /\ \A c \in Creates : Len(pending[c]) <= Len(entries[c])
    /\ read \in [Creates -> [name : Contents, number : Contents]]
    /\ answer \in [Requests -> {"none", "ok", "rejected", "error"}]
    /\ sent \subseteq Message
    /\ held \in [Creates -> SUBSET (Editable \X Contents)]
    /\ faults \in [FaultKinds -> SUBSET Requests]

\* What a request will load is fixed when it begins; before that the variables
\* hold a value without meaning.
Init ==
    /\ life = [o \in Objects |-> IF o \in Initial THEN "there" ELSE "unborn"]
    /\ content = [o \in Editable |-> CHOOSE v \in Contents : TRUE]
    /\ used = [c \in Creates |-> CHOOSE t \in Templates : TRUE]
    /\ rows = [c \in Creates |-> <<>>]
    /\ stage = [r \in Requests |-> "idle"]
    /\ target = [r \in Edits \cup Deletes |-> CHOOSE o \in Objects : TRUE]
    /\ entries = [c \in Creates |-> <<>>]
    /\ pending = [c \in Creates |-> <<>>]
    /\ read = [c \in Creates |-> [name |-> CHOOSE v \in Contents : TRUE,
                                  number |-> CHOOSE v \in Contents : TRUE]]
    /\ answer = [r \in Requests |-> "none"]
    /\ sent = {}
    /\ held = [c \in Creates |-> {}]
    /\ faults = [k \in FaultKinds |-> {}]

Fault(k, r) ==
    /\ faults' = [faults EXCEPT ![k] = @ \cup {r}]
    /\ Cardinality(faults'[k]) <= Budget[k]

There(o) == life[o] = "there"
UnderWay(r) == stage[r] \notin {"idle", "done"}
Goto(r, s) == stage' = [stage EXCEPT ![r] = s]

Answers(r, a) ==
    /\ Goto(r, "done")
    /\ answer' = [answer EXCEPT ![r] = a]

\* The column of o is v from now on.
Becomes(o, v) ==
    /\ content' = [content EXCEPT ![o] = v]
    /\ held' = [c \in Creates |-> IF UnderWay(c) THEN held[c] \cup {<<o, v>>} ELSE held[c]]

-----------------------------------------------------------------------------
(* Contacts, templates and the deletion of campaigns                       *)

\* create_contact, create_template.
Add(o) ==
    /\ life[o] = "unborn"
    /\ life' = [life EXCEPT ![o] = "there"]
    /\ \E v \in Contents : Becomes(o, v)
    /\ UNCHANGED <<used, rows, stage, target, createVars, answer, faults>>

\* The SELECT by id and user with which a PUT or DELETE begins; 404 without it.
Load(r) ==
    /\ stage[r] = "idle"
    /\ \E o \in IF r \in Edits THEN Editable ELSE Objects :
        /\ life[o] # "unborn"
        /\ target' = [target EXCEPT ![r] = o]
        /\ IF There(o) /\ Owner[o] = By[r]
           THEN Goto(r, "loaded") /\ UNCHANGED answer
           ELSE Answers(r, "rejected")
    /\ UNCHANGED <<tableVars, createVars, held, faults>>

\* update_contact, update_template: the UPDATE at the commit.  One that changes
\* nothing is not issued; one that finds no row raises StaleDataError.
CommitEdit(r) ==
    LET o == target[r] IN
    /\ r \in Edits /\ stage[r] = "loaded"
    /\ \/ /\ There(o)
          /\ \E v \in Contents : Becomes(o, v)
          /\ Goto(r, "committed")
          /\ UNCHANGED answer
       \/ Goto(r, "committed") /\ UNCHANGED <<content, held, answer>>
       \/ ~ There(o) /\ Answers(r, "error") /\ UNCHANGED <<content, held>>
    /\ UNCHANGED <<life, used, rows, target, createVars, faults>>

\* Mutant: the session of a create is not closed after an error.
LockedForGood(t) ==
    \E c \in Creates : stage[c] \in {"sending", "reached", "done"} /\ used[c] = t

\* Campaigns that the commit of another session would make refer to t: their
\* INSERT holds a key-share lock on the template's row.
Locked(t) ==
    \E c \in Creates : stage[c] \in {"sending", "reached"} /\ used[c] = t

Referenced(t) == \E c \in Creates : There(c) /\ used[c] = t

\* delete_contact, delete_template, delete_campaign.  Messages go with their
\* contact (ON DELETE CASCADE) or campaign (cascade of the relationship); a
\* template is kept by its campaigns (IntegrityError, not handled), and waited
\* for while a campaign is being created.  A row that is gone is no error.
CommitDelete(r) ==
    LET o == target[r] IN
    /\ r \in Deletes /\ stage[r] = "loaded"
    /\ o \in Templates => ~ Locked(o)
    /\ IF o \in Templates /\ Referenced(o)
       THEN Answers(r, "error") /\ UNCHANGED <<life, rows>>
       ELSE /\ life' = [life EXCEPT ![o] = "gone"]
            /\ rows' = [c \in Creates |->
                          IF c = o THEN <<>>
                          ELSE [k \in DOMAIN rows[c] |->
                                  IF entries[c][k] = o THEN "none" ELSE rows[c][k]]]
            /\ Goto(r, "committed")
            /\ UNCHANGED answer
    /\ UNCHANGED <<content, used, target, createVars, held, faults>>

-----------------------------------------------------------------------------
(* create_campaign                                                         *)

\* The template is looked up, by id and user: 400 without it.  A client names
\* ids it has seen; one that nobody has ever had is like that of a row deleted.
FindTemplate(c) ==
    /\ stage[c] = "idle"
    /\ \E t \in Templates, list \in Lists[c] :
        /\ \A o \in {t} \cup {list[k] : k \in DOMAIN list} : life[o] # "unborn"
        /\ used' = [used EXCEPT ![c] = t]
        /\ entries' = [entries EXCEPT ![c] = list]
        /\ read' = [read EXCEPT ![c].name = content[t]]
        /\ IF There(t) /\ Owner[t] = Owner[c]
           THEN Goto(c, "found") /\ UNCHANGED answer
           ELSE Answers(c, "rejected")
    /\ held' = [held EXCEPT ![c] = {<<o, content[o]>> : o \in {o \in Editable : There(o)}}]
    /\ UNCHANGED <<life, content, rows, target, pending, sent, faults>>

\* Mutant: the campaign is only flushed with its messages, at the commit.
FlushCampaignLater(c) ==
    /\ stage[c] = "found"
    /\ Goto(c, "sending")
    /\ UNCHANGED <<tableVars, target, createVars, answer, held, faults>>

\* The INSERT of the campaign fails if the template has been deleted meanwhile.
FlushCampaign(c) ==
    /\ stage[c] = "found"
    /\ IF There(used[c]) THEN Goto(c, "sending") /\ UNCHANGED answer
       ELSE Answers(c, "rejected")
    /\ UNCHANGED <<tableVars, target, createVars, held, faults>>

Entry(c) == Len(pending[c]) + 1
More(c) == Entry(c) <= Len(entries[c])
Recipient(c) == entries[c][Entry(c)]

\* The contact of the last entry is still referenced: when it is named again the
\* session gives back that object, as it was loaded.
Kept(c) == Entry(c) > 1 /\ entries[c][Entry(c) - 1] = Recipient(c)

Is(c, status) == pending' = [pending EXCEPT ![c] = Append(@, status)]

\* Mutant: a contact that has been deleted is still found.
LookUpContactGone(c) ==
    /\ stage[c] = "sending" /\ More(c)
    /\ IF life[Recipient(c)] # "unborn" /\ Owner[Recipient(c)] = Owner[c]
       THEN /\ read' = [read EXCEPT ![c].number = content[Recipient(c)]]
            /\ Goto(c, "reached")
            /\ UNCHANGED pending
       ELSE Is(c, "QUEUED") /\ UNCHANGED <<read, stage>>
    /\ UNCHANGED <<tableVars, target, entries, sent, answer, held, faults>>

\* Mutant: a contact that is not found counts as sent to.
LookUpContactSent(c) ==
    /\ stage[c] = "sending" /\ More(c)
    /\ IF There(Recipient(c)) /\ Owner[Recipient(c)] = Owner[c]
       THEN /\ read' = [read EXCEPT ![c].number = content[Recipient(c)]]
            /\ Goto(c, "reached")
            /\ UNCHANGED pending
       ELSE Is(c, "SENT") /\ UNCHANGED <<read, stage>>
    /\ UNCHANGED <<tableVars, target, entries, sent, answer, held, faults>>

\* The contact, by id and user; without it the entry is skipped, and its row
\* keeps the default status.
LookUpContact(c) ==
    /\ stage[c] = "sending" /\ More(c)
    /\ IF There(Recipient(c)) /\ Owner[Recipient(c)] = Owner[c]
       THEN /\ read' = [read EXCEPT ![c].number = IF Kept(c) THEN @ ELSE content[Recipient(c)]]
            /\ Goto(c, "reached")
            /\ UNCHANGED pending
       ELSE Is(c, "QUEUED") /\ UNCHANGED <<read, stage>>
    /\ UNCHANGED <<tableVars, target, entries, sent, answer, held, faults>>

Accepted(c) ==
    sent' = sent \cup {[create |-> c, entry |-> Entry(c),
                        number |-> read[c].number, name |-> read[c].name]}

\* send_template_message returns.
Send(c) ==
    /\ stage[c] = "reached"
    /\ Accepted(c)
    /\ Is(c, "SENT")
    /\ Goto(c, "sending")
    /\ UNCHANGED <<tableVars, target, entries, read, answer, held, faults>>

\* WhatsApp refuses the message, or no credentials are configured.
SendRefused(c) ==
    /\ stage[c] = "reached"
    /\ Fault("refused", c)
    /\ Is(c, "FAILED")
    /\ Goto(c, "sending")
    /\ UNCHANGED <<tableVars, target, entries, read, sent, answer, held>>

\* Mutant: the send is repeated, and its failure noted each time.
SendUnclearRepeated(c) ==
    /\ stage[c] = "reached"
    /\ Fault("unclear", c)
    /\ Accepted(c) \/ UNCHANGED sent
    /\ Is(c, "FAILED")
    /\ UNCHANGED <<tableVars, stage, target, entries, read, answer, held>>

\* No readable answer within ten seconds: the message is not repeated, and may
\* have been accepted.
SendUnclear(c) ==
    /\ stage[c] = "reached"
    /\ Fault("unclear", c)
    /\ Accepted(c) \/ UNCHANGED sent
    /\ Is(c, "FAILED")
    /\ Goto(c, "sending")
    /\ UNCHANGED <<tableVars, target, entries, read, answer, held>>

Ready(c) == stage[c] = "sending" /\ ~ More(c)

\* The foreign keys of the messages: every contact exists, whosever it is.
KeysHold(c) ==
    There(used[c]) /\ \A k \in DOMAIN entries[c] : There(entries[c][k])

Store(c) ==
    /\ life' = [life EXCEPT ![c] = "there"]
    /\ rows' = [rows EXCEPT ![c] = pending[c]]

\* The commit inserts the messages; an IntegrityError is answered with a 400,
\* and neither campaign nor messages are stored.
CommitCreate(c) ==
    /\ Ready(c)
    /\ IF KeysHold(c) THEN Store(c) /\ Goto(c, "committed") /\ UNCHANGED answer
       ELSE Answers(c, "rejected") /\ UNCHANGED <<life, rows>>
    /\ UNCHANGED <<content, used, target, createVars, held, faults>>

-----------------------------------------------------------------------------
(* All requests                                                            *)

Row(r) == IF r \in Creates THEN r ELSE target[r]

\* After the commit of a create or edit db.refresh reads the row again, and
\* raises if it has been deleted since.
Reply(r) ==
    /\ stage[r] = "committed"
    /\ Answers(r, IF r \in Deletes \/ There(Row(r)) THEN "ok" ELSE "error")
    /\ UNCHANGED <<tableVars, target, createVars, held, faults>>

\* The database fails: rollback and a 500, or after a commit that landed all the
\* same only the 500.
StoreFails(r) ==
    /\ UnderWay(r)
    /\ Fault("store", r)
    /\ Answers(r, "error")
    /\ UNCHANGED <<tableVars, target, createVars, held>>

\* The API process dies: nobody gets an answer.
Crash(r) ==
    /\ UnderWay(r)
    /\ Fault("crash", r)
    /\ Goto(r, "done")
    /\ UNCHANGED <<tableVars, target, createVars, answer, held>>

Create(c) ==
    FlushCampaign(c) \/ LookUpContact(c) \/ Send(c) \/ CommitCreate(c)

Proceed(r) ==
    \/ r \in Creates /\ Create(r)
    \/ CommitEdit(r) \/ CommitDelete(r) \/ Reply(r)

Begin(r) ==
    \/ r \in Creates /\ FindTemplate(r)
    \/ r \notin Creates /\ Load(r)

Fails(r) ==
    \/ r \in Creates /\ (SendRefused(r) \/ SendUnclear(r))
    \/ StoreFails(r) \/ Crash(r)

Done == (\A r \in Requests : ~ UnderWay(r)) /\ UNCHANGED vars

Next ==
    \/ \E r \in Requests : Begin(r) \/ Proceed(r) \/ Fails(r)
    \/ \E o \in Editable : Add(o)
    \/ Done

Spec == Init /\ [][Next]_vars

\* A request that has begun is served on: WhatsApp answers or the client's
\* timeout ends the send, and a lock that is released is granted.
FairSpec == Spec /\ \A r \in Requests : WF_vars(Proceed(r))

-----------------------------------------------------------------------------
(* Properties                                                              *)

SentTo(c, k) == \E m \in sent : m.create = c /\ m.entry = k

Interrupted(c) == c \in faults["store"] \cup faults["crash"]

\* A message that WhatsApp has accepted is on record once its request is over,
\* as SENT or, in a request that met an unclear answer, as FAILED, although all
\* rows are written at the end: unless the request was cut off, the campaign has
\* been deleted, or one of its contacts is unknown or has been.  The template,
\* which a user may try to delete meanwhile, cannot be the reason.
UnrecordedNeedsCause ==
    \A c \in Creates : stage[c] = "done" =>
        \A k \in DOMAIN entries[c] : SentTo(c, k) =>
            \/ There(c) /\ rows[c][k] = "SENT"
            \/ There(c) /\ rows[c][k] = "FAILED" /\ c \in faults["unclear"]
            \/ Interrupted(c) \/ life[c] = "gone"
            \/ \E i \in DOMAIN entries[c] : ~ There(entries[c][i])

\* What message_status says: SENT of an accepted message, FAILED of one that was
\* not, unless its request met an unclear answer, and QUEUED, the default, never
\* of a message that is still to go, but of a contact of another user, skipped.
RowsTellTruth ==
    \A c \in Creates : \A k \in DOMAIN rows[c] :
        /\ rows[c][k] = "SENT" => SentTo(c, k)
        /\ rows[c][k] = "FAILED" =>
              \/ c \in faults["unclear"]
              \/ c \in faults["refused"] /\ ~ SentTo(c, k)
        /\ rows[c][k] = "QUEUED" => ~ SentTo(c, k) /\ Owner[entries[c][k]] # Owner[c]

\* A message goes to a number its contact has had, in the words of a template
\* as it has been, since the request began: a contact deleted or changed before
\* that is not written to as it was, however long the sends take.
FreshContent ==
    \A m \in sent :
        /\ <<entries[m.create][m.entry], m.number>> \in held[m.create]
        /\ <<used[m.create], m.name>> \in held[m.create]

\* A stored campaign has its template and each stored message its contact,
\* although nobody looks for the other's rows before deleting or storing.
ReferencesHold ==
    \A c \in Creates :
        /\ There(c) => There(used[c]) /\ Len(rows[c]) = Len(entries[c])
        /\ ~ There(c) => rows[c] = <<>>
        /\ \A k \in DOMAIN rows[c] : rows[c][k] # "none" => There(entries[c][k])

\* Every request ends, the deletion of a template too that has to wait for the
\* campaigns being sent with it.
RequestsEnd == \A r \in Requests : stage[r] # "idle" ~> stage[r] = "done"

-----------------------------------------------------------------------------
(* An inductive invariant for all of these but the last                    *)

\* How far a create has come, and what keeps its template and contacts.
Progress(c) ==
    /\ stage[c] \in {"idle", "found"} => pending[c] = <<>>
    /\ stage[c] = "reached" => More(c)
    /\ stage[c] \notin {"committed", "done"} => life[c] = "unborn"
    /\ stage[c] = "committed" => life[c] # "unborn"
    /\ stage[c] # "idle" => \A k \in DOMAIN entries[c] : life[entries[c][k]] # "unborn"
    /\ (stage[c] \in {"sending", "reached"} \/ There(c)) => There(used[c])
    /\ stage[c] = "done" =>
          \/ pending[c] = <<>> \/ life[c] # "unborn" \/ Interrupted(c)
          \/ \E k \in DOMAIN entries[c] : ~ There(entries[c][k])

\* What the rows to be stored say.
Marks(c) ==
    \A k \in DOMAIN pending[c] :
        /\ pending[c][k] = "SENT" => SentTo(c, k)
        /\ pending[c][k] = "FAILED" =>
              \/ c \in faults["unclear"]
              \/ c \in faults["refused"] /\ ~ SentTo(c, k)
        /\ pending[c][k] = "QUEUED" =>
              /\ ~ SentTo(c, k)
              /\ Owner[entries[c][k]] # Owner[c] \/ life[entries[c][k]] = "gone"

\* The rows stored are those, less the ones that went with their contact.
Record(c) ==
    /\ ~ There(c) => rows[c] = <<>>
    /\ There(c) =>
          /\ Len(rows[c]) = Len(entries[c]) /\ Len(pending[c]) = Len(entries[c])
          /\ \A k \in DOMAIN rows[c] :
                rows[c][k] = IF There(entries[c][k]) THEN pending[c][k] ELSE "none"

\* What a create has read belongs to the time since it began.
Reads(c) ==
    /\ UnderWay(c) => \A o \in Editable : There(o) => <<o, content[o]>> \in held[c]
    /\ stage[c] \in {"found", "sending", "reached"} => <<used[c], read[c].name>> \in held[c]
    /\ stage[c] = "reached" => <<Recipient(c), read[c].number>> \in held[c]
    /\ stage[c] = "sending" /\ Entry(c) > 1 =>
          \/ pending[c][Entry(c) - 1] = "QUEUED"
          \/ <<entries[c][Entry(c) - 1], read[c].number>> \in held[c]

\* What was sent are entries gone through, each with what had been read then.
Sends(c) ==
    \A m \in sent : m.create = c =>
        /\ m.entry < Entry(c)
        /\ <<entries[c][m.entry], m.number>> \in held[c]
        /\ <<used[c], m.name>> \in held[c]

Creating(c) == Progress(c) /\ Marks(c) /\ Record(c) /\ Reads(c) /\ Sends(c)

\* Only what was once there is loaded, and by an edit nothing but its kind.
Loads ==
    \A r \in Edits \cup Deletes : stage[r] = "loaded" =>
        life[target[r]] # "unborn" /\ (r \in Edits => target[r] \in Editable)

\* Every create is told from its rows, and the rows from what was sent.
IInv == TypeOK /\ Loads /\ \A c \in Creates : Creating(c)
=============================================================================
