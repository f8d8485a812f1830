----------------------- MODULE WhatsAppCampaignsProofs -----------------------
(***************************************************************************)
(* Theorems about WhatsAppCampaigns for every set of contacts, templates,  *)
(* campaigns, requests and owners, and every fault budget.                 *)
(***************************************************************************)
EXTENDS WhatsAppCampaigns, SequenceTheorems, TLAPS

-----------------------------------------------------------------------------
(* Types                                                                   *)

LEMMA GotoType ==
    ASSUME stage \in [Requests -> Stages], NEW r, NEW s \in Stages, Goto(r, s)
    PROVE  stage' \in [Requests -> Stages]
  BY DEF Goto

LEMMA AnswersType ==
    ASSUME stage \in [Requests -> Stages], NEW r,
           answer \in [Requests -> {"none", "ok", "rejected", "error"}],
           NEW a \in {"ok", "rejected", "error"}, Answers(r, a)
    PROVE  /\ stage' \in [Requests -> Stages]
           /\ answer' \in [Requests -> {"none", "ok", "rejected", "error"}]
  BY DEF Answers, Goto, Stages

LEMMA FaultType ==
    ASSUME faults \in [FaultKinds -> SUBSET Requests], NEW k, NEW r \in Requests, Fault(k, r)
    PROVE  faults' \in [FaultKinds -> SUBSET Requests]
  BY DEF Fault

LEMMA BecomesType ==
    ASSUME content \in [Editable -> Contents], held \in [Creates -> SUBSET (Editable \X Contents)],
           NEW o \in Editable, NEW v \in Contents, Becomes(o, v)
    PROVE  /\ content' \in [Editable -> Contents]
           /\ held' \in [Creates -> SUBSET (Editable \X Contents)]
  BY DEF Becomes

LEMMA IsType ==
    ASSUME TypeOK, NEW c \in Creates, More(c), NEW s \in Statuses, Is(c, s)
    PROVE  /\ pending' \in [Creates -> Seq(Statuses)]
           /\ \A d \in Creates : Len(pending'[d]) <= Len(entries[d])
           /\ Len(pending'[c]) = Len(pending[c]) + 1
  <1>1. pending[c] \in Seq(Statuses) /\ entries[c] \in Seq(Contacts)
    BY DEF TypeOK
  <1>2. /\ Append(pending[c], s) \in Seq(Statuses)
        /\ Len(Append(pending[c], s)) = Len(pending[c]) + 1
    BY <1>1
  <1>3. Len(pending[c]) + 1 <= Len(entries[c])
    BY <1>1 DEF More, Entry
  <1>4. pending' = [pending EXCEPT ![c] = Append(pending[c], s)]
    BY DEF Is
  <1>5. pending' \in [Creates -> Seq(Statuses)]
    BY <1>2, <1>4 DEF TypeOK
  <1>6. pending'[c] = Append(pending[c], s) /\ \A d \in Creates \ {c} : pending'[d] = pending[d]
    BY <1>4 DEF TypeOK
  <1> QED BY <1>2, <1>3, <1>5, <1>6 DEF TypeOK

LEMMA AcceptedType ==
    ASSUME TypeOK, NEW c \in Creates, Accepted(c)
    PROVE  sent' \subseteq Message
  <1>1. Entry(c) \in Nat \ {0}
    <2>1. pending[c] \in Seq(Statuses)
      BY DEF TypeOK
    <2> QED BY <2>1 DEF Entry
  <1>2. read[c].number \in Contents /\ read[c].name \in Contents
    BY DEF TypeOK
  <1> QED BY <1>1, <1>2 DEF TypeOK, Accepted, Message

LEMMA RecipientType ==
    ASSUME TypeOK, NEW c \in Creates, More(c)
    PROVE  Recipient(c) \in Contacts
  <1>1. pending[c] \in Seq(Statuses) /\ entries[c] \in Seq(Contacts)
    BY DEF TypeOK
  <1>2. Entry(c) \in 1 .. Len(entries[c])
    BY <1>1 DEF More, Entry
  <1> QED BY <1>1, <1>2 DEF Recipient

LEMMA TypeInit == Init => TypeOK
  <1> SUFFICES ASSUME Init PROVE TypeOK
    OBVIOUS
  <1> USE WhatsAppConstants
  <1>1. (CHOOSE v \in Contents : TRUE) \in Contents
    OBVIOUS
  <1>2. (CHOOSE t \in Templates : TRUE) \in Templates
    OBVIOUS
  <1>3. (CHOOSE o \in Objects : TRUE) \in Objects
    BY DEF Objects, Editable
  <1>4. content \in [Editable -> Contents] /\ read \in [Creates -> [name : Contents, number : Contents]]
    BY <1>1 DEF Init
  <1>5. used \in [Creates -> Templates] /\ target \in [Edits \cup Deletes -> Objects]
    BY <1>2, <1>3 DEF Init
  <1>6. /\ rows \in [Creates -> Seq(Statuses \cup {"none"})]
        /\ entries \in [Creates -> Seq(Contacts)]
        /\ pending \in [Creates -> Seq(Statuses)]
    BY DEF Init
  <1>7. \A c \in Creates : Len(pending[c]) <= Len(entries[c])
    BY DEF Init
  <1>8. /\ life \in [Objects -> {"unborn", "there", "gone"}]
        /\ stage \in [Requests -> Stages]
        /\ answer \in [Requests -> {"none", "ok", "rejected", "error"}]
        /\ faults \in [FaultKinds -> SUBSET Requests]
        /\ held \in [Creates -> SUBSET (Editable \X Contents)] /\ sent \subseteq Message
    BY DEF Init, Stages
  <1> QED BY <1>4, <1>5, <1>6, <1>7, <1>8 DEF TypeOK

\* What contacts, templates, edits and deletes leave of the types.
LEMMA TypeTables ==
    ASSUME TypeOK, Loads,
           \/ \E o \in Editable : Add(o)
           \/ \E r \in Edits \cup Deletes : Load(r) \/ CommitEdit(r) \/ CommitDelete(r)
    PROVE  TypeOK'
  <1> USE DEF tableVars, createVars
  <1>1. ASSUME NEW o \in Editable, Add(o) PROVE TypeOK'
    <2>1. life' \in [Objects -> {"unborn", "there", "gone"}]
      BY <1>1 DEF TypeOK, Add
    <2> QED BY <1>1, <2>1, BecomesType DEF TypeOK, Add
  <1>2. ASSUME NEW r \in Edits \cup Deletes, Load(r) PROVE TypeOK'
    <2>1. target' \in [Edits \cup Deletes -> Objects]
      BY <1>2 DEF TypeOK, Load, Objects
    <2>2. /\ stage' \in [Requests -> Stages]
          /\ answer' \in [Requests -> {"none", "ok", "rejected", "error"}]
      BY <1>2, GotoType, AnswersType DEF TypeOK, Load, Stages
    <2> QED BY <1>2, <2>1, <2>2 DEF TypeOK, Load
  <1>3. ASSUME NEW r \in Edits \cup Deletes, CommitEdit(r) PROVE TypeOK'
    <2>1. /\ stage' \in [Requests -> Stages]
          /\ answer' \in [Requests -> {"none", "ok", "rejected", "error"}]
      BY <1>3, GotoType, AnswersType DEF TypeOK, CommitEdit, Stages
    <2>2. /\ content' \in [Editable -> Contents]
          /\ held' \in [Creates -> SUBSET (Editable \X Contents)]
      <3>1. CASE UNCHANGED <<content, held>>
        BY <3>1 DEF TypeOK
      <3>2. ASSUME NEW v \in Contents, Becomes(target[r], v)
            PROVE  /\ content' \in [Editable -> Contents]
                   /\ held' \in [Creates -> SUBSET (Editable \X Contents)]
        <4>1. target[r] \in Editable
          BY <1>3 DEF Loads, CommitEdit
        <4> QED BY <3>2, <4>1, BecomesType DEF TypeOK
      <3> QED BY <1>3, <3>1, <3>2 DEF CommitEdit
    <2> QED BY <1>3, <2>1, <2>2 DEF TypeOK, CommitEdit
  <1>4. ASSUME NEW r \in Edits \cup Deletes, CommitDelete(r) PROVE TypeOK'
    <2>1. /\ stage' \in [Requests -> Stages]
          /\ answer' \in [Requests -> {"none", "ok", "rejected", "error"}]
      BY <1>4, GotoType, AnswersType DEF TypeOK, CommitDelete, Stages
    <2>2. life' \in [Objects -> {"unborn", "there", "gone"}]
      BY <1>4 DEF TypeOK, CommitDelete
    <2>3. rows' \in [Creates -> Seq(Statuses \cup {"none"})]
      <3>1. CASE rows' = rows
        BY <3>1 DEF TypeOK
      <3>2. CASE rows' = [c \in Creates |->
                            IF c = target[r] THEN <<>>
                            ELSE [k \in DOMAIN rows[c] |->
                                    IF entries[c][k] = target[r] THEN "none" ELSE rows[c][k]]]
        <4>1. ASSUME NEW c \in Creates
              PROVE  [k \in DOMAIN rows[c] |->
                        IF entries[c][k] = target[r] THEN "none" ELSE rows[c][k]]
                       \in Seq(Statuses \cup {"none"})
          <5>1. rows[c] \in Seq(Statuses \cup {"none"})
            BY DEF TypeOK
          <5>2. Len(rows[c]) \in Nat /\ DOMAIN rows[c] = 1 .. Len(rows[c])
            BY <5>1
          <5>3. [k \in 1 .. Len(rows[c]) |->
                   IF entries[c][k] = target[r] THEN "none" ELSE rows[c][k]]
                  \in [1 .. Len(rows[c]) -> Statuses \cup {"none"}]
            BY <5>1, <5>2
          <5> QED BY <5>2, <5>3, SeqDef
        <4> QED BY <3>2, <4>1
      <3> QED BY <1>4, <3>1, <3>2 DEF CommitDelete
    <2> QED BY <1>4, <2>1, <2>2, <2>3 DEF TypeOK, CommitDelete
  <1> QED BY <1>1, <1>2, <1>3, <1>4

\* What the creation of a campaign leaves of the types.
LEMMA TypeCreate ==
    ASSUME TypeOK, NEW c \in Creates, Progress(c),
           \/ FindTemplate(c) \/ Create(c) \/ SendRefused(c) \/ SendUnclear(c)
    PROVE  TypeOK'
  <1> USE DEF tableVars, createVars
  <1>1. c \in Requests /\ c \in Objects
    BY DEF Requests, Objects
  <1>2. CASE FindTemplate(c)
    <2>1. PICK t \in Templates, list \in Lists[c] :
            /\ used' = [used EXCEPT ![c] = t]
            /\ entries' = [entries EXCEPT ![c] = list]
            /\ read' = [read EXCEPT ![c].name = content[t]]
            /\ \/ Goto(c, "found") /\ UNCHANGED answer
               \/ Answers(c, "rejected")
      BY <1>2 DEF FindTemplate
    <2>2. list \in Seq(Contacts)
      BY WhatsAppConstants
    <2>3. used' \in [Creates -> Templates] /\ entries' \in [Creates -> Seq(Contacts)]
      BY <2>1, <2>2 DEF TypeOK
    <2>4. read' \in [Creates -> [name : Contents, number : Contents]]
      <3>1. content[t] \in Contents
        BY DEF TypeOK, Editable
      <3> QED BY <2>1, <3>1 DEF TypeOK
    <2>5. held' \in [Creates -> SUBSET (Editable \X Contents)]
      BY <1>2 DEF TypeOK, FindTemplate
    <2>6. \A d \in Creates : Len(pending'[d]) <= Len(entries'[d])
      <3>1. pending' = pending /\ pending[c] = <<>>
        BY <1>2 DEF FindTemplate, Progress
      <3>2. entries'[c] = list /\ \A d \in Creates \ {c} : entries'[d] = entries[d]
        BY <2>1 DEF TypeOK
      <3>3. Len(list) \in Nat /\ Len(pending[c]) = 0
        BY <2>2, <3>1
      <3>4. Len(pending'[c]) <= Len(entries'[c])
        BY <3>1, <3>2, <3>3
      <3>5. \A d \in Creates \ {c} : Len(pending'[d]) <= Len(entries'[d])
        BY <3>1, <3>2 DEF TypeOK
      <3> QED BY <3>4, <3>5
    <2>7. /\ stage' \in [Requests -> Stages]
          /\ answer' \in [Requests -> {"none", "ok", "rejected", "error"}]
      BY <2>1, GotoType, AnswersType DEF TypeOK, Stages
    <2> QED BY <1>2, <2>3, <2>4, <2>5, <2>6, <2>7 DEF TypeOK, FindTemplate
  <1>3. CASE FlushCampaign(c)
    <2>1. /\ stage' \in [Requests -> Stages]
          /\ answer' \in [Requests -> {"none", "ok", "rejected", "error"}]
      BY <1>3, GotoType, AnswersType DEF TypeOK, FlushCampaign, Stages
    <2> QED BY <1>3, <2>1 DEF TypeOK, FlushCampaign
  <1>4. CASE LookUpContact(c)
    <2>1. More(c) /\ Recipient(c) \in Editable
      BY <1>4, RecipientType DEF LookUpContact, Editable
    <2>2. content[Recipient(c)] \in Contents /\ read[c].number \in Contents
      BY <2>1 DEF TypeOK
    <2>3. read' \in [Creates -> [name : Contents, number : Contents]]
      <3>1. CASE read' = read
        BY <3>1 DEF TypeOK
      <3>2. ASSUME NEW v \in Contents, read' = [read EXCEPT ![c].number = v]
            PROVE  read' \in [Creates -> [name : Contents, number : Contents]]
        BY <3>2 DEF TypeOK
      <3>3. read' = read \/ \E v \in Contents : read' = [read EXCEPT ![c].number = v]
        BY <1>4, <2>2 DEF LookUpContact
      <3> QED BY <3>1, <3>2, <3>3
    <2>4. /\ pending' \in [Creates -> Seq(Statuses)]
          /\ \A d \in Creates : Len(pending'[d]) <= Len(entries[d])
      <3>1. CASE pending' = pending
        BY <3>1 DEF TypeOK
      <3>2. CASE Is(c, "QUEUED")
        BY <2>1, <3>2, IsType DEF Statuses
      <3> QED BY <1>4, <3>1, <3>2 DEF LookUpContact
    <2>5. stage' \in [Requests -> Stages]
      BY <1>4, GotoType DEF TypeOK, LookUpContact, Stages
    <2> QED BY <1>4, <2>3, <2>4, <2>5 DEF TypeOK, LookUpContact
  <1>5. CASE Send(c) \/ SendRefused(c) \/ SendUnclear(c)
    <2>1. More(c)
      BY <1>5 DEF Send, SendRefused, SendUnclear, Progress
    <2>2. Is(c, "SENT") \/ Is(c, "FAILED")
      BY <1>5 DEF Send, SendRefused, SendUnclear
    <2>3. /\ pending' \in [Creates -> Seq(Statuses)]
          /\ \A d \in Creates : Len(pending'[d]) <= Len(entries[d])
      BY <2>1, <2>2, IsType DEF Statuses
    <2>4. stage' \in [Requests -> Stages]
      BY <1>5, GotoType DEF TypeOK, Send, SendRefused, SendUnclear, Stages
    <2>5. sent' \subseteq Message
      BY <1>5, AcceptedType DEF TypeOK, Send, SendRefused, SendUnclear
    <2>6. faults' \in [FaultKinds -> SUBSET Requests]
      BY <1>1, <1>5, FaultType DEF TypeOK, Send, SendRefused, SendUnclear
    <2> QED BY <1>5, <2>3, <2>4, <2>5, <2>6 DEF TypeOK, Send, SendRefused, SendUnclear
  <1>6. CASE CommitCreate(c)
    <2>1. /\ stage' \in [Requests -> Stages]
          /\ answer' \in [Requests -> {"none", "ok", "rejected", "error"}]
      BY <1>6, GotoType, AnswersType DEF TypeOK, CommitCreate, Stages
    <2>2. /\ life' \in [Objects -> {"unborn", "there", "gone"}]
          /\ rows' \in [Creates -> Seq(Statuses \cup {"none"})]
      <3>1. pending[c] \in Seq(Statuses \cup {"none"})
        <4>1. pending[c] \in Seq(Statuses)
          BY DEF TypeOK
        <4> QED BY <4>1
      <3> QED BY <1>6, <3>1 DEF TypeOK, CommitCreate, Store
    <2> QED BY <1>6, <2>1, <2>2 DEF TypeOK, CommitCreate
  <1> QED BY <1>2, <1>3, <1>4, <1>5, <1>6 DEF Create

\* What the end of a request leaves of the types.
LEMMA TypeEnd ==
    ASSUME TypeOK, NEW r \in Requests, Reply(r) \/ StoreFails(r) \/ Crash(r)
    PROVE  TypeOK'
  <1> USE DEF tableVars, createVars
  <1>1. CASE Reply(r)
    <2>1. /\ stage' \in [Requests -> Stages]
          /\ answer' \in [Requests -> {"none", "ok", "rejected", "error"}]
      BY <1>1, AnswersType DEF TypeOK, Reply
    <2> QED BY <1>1, <2>1 DEF TypeOK, Reply
  <1>2. CASE StoreFails(r)
    <2>1. /\ stage' \in [Requests -> Stages]
          /\ answer' \in [Requests -> {"none", "ok", "rejected", "error"}]
      BY <1>2, AnswersType DEF TypeOK, StoreFails
    <2>2. faults' \in [FaultKinds -> SUBSET Requests]
      BY <1>2, FaultType DEF TypeOK, StoreFails
    <2> QED BY <1>2, <2>1, <2>2 DEF TypeOK, StoreFails
  <1>3. CASE Crash(r)
    <2>1. stage' \in [Requests -> Stages] /\ faults' \in [FaultKinds -> SUBSET Requests]
      BY <1>3, GotoType, FaultType DEF TypeOK, Crash, Stages
    <2> QED BY <1>3, <2>1 DEF TypeOK, Crash
  <1> QED BY <1>1, <1>2, <1>3

\* The steps of a request, by its kind.
LEMMA Steps ==
    ASSUME [Next]_vars
    PROVE  \/ \E o \in Editable : Add(o)
           \/ \E r \in Edits \cup Deletes : Load(r) \/ CommitEdit(r) \/ CommitDelete(r)
           \/ \E c \in Creates : \/ FindTemplate(c) \/ Create(c)
                                \/ SendRefused(c) \/ SendUnclear(c)
           \/ \E r \in Requests : Reply(r) \/ StoreFails(r) \/ Crash(r)
           \/ UNCHANGED vars
  BY DEF Next, Begin, Proceed, Fails, Done, Requests, CommitEdit, CommitDelete

LEMMA TypeNext ==
    ASSUME IInv, [Next]_vars
    PROVE  TypeOK'
  <1>1. CASE UNCHANGED vars
    BY <1>1 DEF IInv, TypeOK, vars, tableVars, createVars
  <1> QED BY <1>1, Steps, TypeTables, TypeCreate, TypeEnd DEF IInv, Creating

-----------------------------------------------------------------------------
(* The steps of the others                                                 *)

\* What a step of another request, other than a deletion, leaves of create c.
Spared(c) ==
    /\ stage'[c] = stage[c] /\ pending'[c] = pending[c] /\ entries'[c] = entries[c]
    /\ used'[c] = used[c] /\ read'[c] = read[c] /\ rows'[c] = rows[c]
    /\ life'[c] = life[c]
    /\ \A o \in Objects : life'[o] = life[o] \/ life[o] = "unborn"
    /\ sent \subseteq sent' /\ \A m \in sent' : m.create = c => m \in sent
    /\ \A k \in FaultKinds : faults[k] \subseteq faults'[k]
    /\ held[c] \subseteq held'[c]
    /\ UnderWay(c) => \A o \in Editable : There(o)' =>
          (There(o) /\ content'[o] = content[o]) \/ <<o, content'[o]>> \in held'[c]

LEMMA ObjectTypes ==
    ASSUME TypeOK, NEW c \in Creates
    PROVE  /\ c \in Objects /\ c \in Requests /\ used[c] \in Objects /\ used[c] \in Editable
           /\ entries[c] \in Seq(Contacts) /\ pending[c] \in Seq(Statuses)
           /\ rows[c] \in Seq(Statuses \cup {"none"})
           /\ Len(entries[c]) \in Nat /\ Len(pending[c]) \in Nat /\ Len(rows[c]) \in Nat
           /\ DOMAIN entries[c] = 1 .. Len(entries[c])
           /\ DOMAIN pending[c] = 1 .. Len(pending[c])
           /\ DOMAIN rows[c] = 1 .. Len(rows[c])
           /\ Len(pending[c]) <= Len(entries[c])
           /\ \A k \in DOMAIN entries[c] : /\ entries[c][k] \in Contacts
                                           /\ entries[c][k] \in Objects /\ entries[c][k] \in Editable
  <1>1. /\ c \in Objects /\ c \in Requests /\ used[c] \in Templates
        /\ entries[c] \in Seq(Contacts) /\ pending[c] \in Seq(Statuses)
        /\ rows[c] \in Seq(Statuses \cup {"none"})
        /\ Len(pending[c]) <= Len(entries[c])
    BY DEF TypeOK, Objects, Requests
  <1>2. \A k \in DOMAIN entries[c] : entries[c][k] \in Contacts
    BY <1>1
  <1>3. Contacts \subseteq Editable /\ Templates \subseteq Editable /\ Editable \subseteq Objects
    BY DEF Editable, Objects
  <1> QED BY <1>1, <1>2, <1>3

LEMMA SparedStays ==
    ASSUME IInv, NEW c \in Creates, Spared(c)
    PROVE  Creating(c)'
  <1> USE ObjectTypes DEF IInv, Creating, Spared
  <1>1. \A k \in DOMAIN entries[c] :
           life[entries[c][k]] # "unborn" => life'[entries[c][k]] = life[entries[c][k]]
    OBVIOUS
  <1>2. Progress(c)'
    <2>1. stage[c] # "idle" => \A k \in DOMAIN entries[c] : life'[entries[c][k]] = life[entries[c][k]]
      BY <1>1 DEF Progress
    <2>2. There(used[c]) => There(used[c])'
      BY DEF There
    <2>3. Interrupted(c) => Interrupted(c)'
      BY DEF Interrupted, FaultKinds
    <2> QED BY <2>1, <2>2, <2>3 DEF Progress, More, Entry, There
  <1>3. \A k : SentTo(c, k)' <=> SentTo(c, k)
    BY DEF SentTo
  <1>4. Marks(c)'
    <2>1. faults["unclear"] \subseteq faults'["unclear"] /\ faults["refused"] \subseteq faults'["refused"]
      BY DEF FaultKinds
    <2>2. \A k \in DOMAIN pending[c] :
             life[entries[c][k]] = "gone" => life'[entries[c][k]] = "gone"
      BY <1>1
    <2> QED BY <1>3, <2>1, <2>2 DEF Marks
  <1>5. Record(c)'
    <2>1. CASE ~ There(c)
      BY <2>1 DEF Record, There
    <2>2. CASE There(c)
      <3>1. stage[c] # "idle"
        BY <2>2 DEF Progress, There
      <3>2. \A k \in DOMAIN entries[c] : There(entries[c][k])' <=> There(entries[c][k])
        BY <1>1, <3>1 DEF Progress, There
      <3> QED BY <2>2, <3>2 DEF Record, There
    <2> QED BY <2>1, <2>2
  <1>6. Reads(c)'
    <2>1. UnderWay(c)' <=> UnderWay(c)
      BY DEF UnderWay
    <2>2. UnderWay(c) => \A o \in Editable : There(o)' => <<o, content'[o]>> \in held'[c]
      BY DEF Reads
    <2> QED BY <2>1, <2>2 DEF Reads, Recipient, Entry
  <1>7. Sends(c)'
    BY DEF Sends, Entry
  <1> QED BY <1>2, <1>4, <1>5, <1>6, <1>7

\* A deletion takes the rows of a contact with it, and no template in use.
LEMMA DeletionStays ==
    ASSUME IInv, NEW c \in Creates, NEW r \in Deletes, CommitDelete(r)
    PROVE  Creating(c)'
  <1> USE ObjectTypes DEF IInv, Creating
  <1>1. r \notin Creates /\ r \in Requests
    BY WhatsAppConstants DEF Requests
  <1>2. /\ stage'[c] = stage[c]
        /\ UNCHANGED <<content, used, entries, pending, read, sent, held, faults>>
    BY <1>1 DEF CommitDelete, Goto, Answers, TypeOK, createVars
  <1>3. CASE UNCHANGED <<life, rows>>
    <2>1. Spared(c)
      BY <1>2, <1>3 DEF Spared, There
    <2> QED BY <2>1, SparedStays
  <1>4. CASE ~ UNCHANGED <<life, rows>>
    <2> DEFINE o == target[r]
    <2>1. /\ o \in Objects /\ life[o] # "unborn"
          /\ life' = [life EXCEPT ![o] = "gone"]
          /\ rows' = [d \in Creates |->
                        IF d = o THEN <<>>
                        ELSE [k \in DOMAIN rows[d] |->
                                IF entries[d][k] = o THEN "none" ELSE rows[d][k]]]
          /\ o \in Templates => ~ Locked(o) /\ ~ Referenced(o)
      BY <1>4 DEF CommitDelete, Loads, TypeOK
    <2>2. life'[o] = "gone" /\ \A p \in Objects \ {o} : life'[p] = life[p]
      BY <2>1 DEF TypeOK
    <2>3. \A p \in Objects : /\ life'[p] = "unborn" <=> life[p] = "unborn"
                             /\ life[p] = "gone" => life'[p] = "gone"
                             /\ There(p)' => There(p)
      BY <2>1, <2>2 DEF There
    <2>4. (stage[c] \in {"sending", "reached"} \/ There(c)) => used[c] # o
      BY <2>1 DEF Locked, Referenced, TypeOK
    <2>5. Progress(c)'
      <3>1. (stage[c] \in {"sending", "reached"} \/ There(c)) => There(used[c])'
        BY <1>2, <2>2, <2>4 DEF Progress, There
      <3> QED BY <1>2, <2>3, <3>1 DEF Progress, More, Entry, Interrupted
    <2>6. Marks(c)'
      BY <1>2, <2>3 DEF Marks, SentTo
    <2>7. Record(c)'
      <3>1. CASE c = o
        BY <2>1, <2>2, <3>1 DEF Record, There
      <3>2. CASE c # o
        <4>1. There(c)' <=> There(c)
          BY <2>2, <3>2 DEF There
        <4>2. rows'[c] = [k \in DOMAIN rows[c] |->
                            IF entries[c][k] = o THEN "none" ELSE rows[c][k]]
          BY <2>1, <3>2
        <4>3. CASE ~ There(c)
          BY <4>1, <4>2, <4>3 DEF Record
        <4>4. CASE There(c)
          <5>1. /\ Len(rows[c]) = Len(entries[c]) /\ Len(pending[c]) = Len(entries[c])
                /\ \A k \in DOMAIN rows[c] :
                     rows[c][k] = IF There(entries[c][k]) THEN pending[c][k] ELSE "none"
            BY <4>4 DEF Record
          <5>2. DOMAIN rows'[c] = DOMAIN rows[c] /\ Len(rows'[c]) = Len(rows[c])
            <6>1. rows'[c] \in [1 .. Len(rows[c]) -> Statuses \cup {"none"}]
              BY <4>2
            <6>2. rows'[c] \in Seq(Statuses \cup {"none"})
              BY <6>1, SeqDef
            <6> QED BY <6>1, <6>2
          <5>3. \A k \in DOMAIN rows[c] : There(entries[c][k])' <=> There(entries[c][k]) /\ entries[c][k] # o
            BY <1>2, <2>2, <5>1 DEF There
          <5>4. \A k \in DOMAIN rows[c] :
                  rows'[c][k] = IF There(entries[c][k])' THEN pending[c][k] ELSE "none"
            BY <4>2, <5>1, <5>3
          <5> QED BY <1>2, <4>1, <4>4, <5>1, <5>2, <5>4 DEF Record, There
        <4> QED BY <4>3, <4>4
      <3> QED BY <3>1, <3>2
    <2>8. Reads(c)'
      <3>1. UnderWay(c) => \A p \in Editable : There(p)' => <<p, content[p]>> \in held[c]
        BY <2>3 DEF Reads, Objects
      <3> QED BY <1>2, <3>1 DEF Reads, UnderWay, Recipient, Entry
    <2>9. Sends(c)'
      BY <1>2 DEF Sends, Entry
    <2> QED BY <2>5, <2>6, <2>7, <2>8, <2>9
  <1> QED BY <1>3, <1>4

LEMMA EditStays ==
    ASSUME IInv, NEW c \in Creates,
           \/ \E o \in Editable : Add(o)
           \/ \E r \in Edits \cup Deletes : Load(r) \/ CommitEdit(r)
    PROVE  Creating(c)'
  <1> USE ObjectTypes DEF tableVars, createVars, IInv
  <1>1. \A r \in Edits \cup Deletes : r # c
    BY WhatsAppConstants
  <1>2. ASSUME NEW o \in Editable, NEW v \in Contents, Becomes(o, v)
        PROVE  /\ held[c] \subseteq held'[c]
               /\ UnderWay(c) => \A p \in Editable :
                    (p # o /\ content'[p] = content[p]) \/ <<p, content'[p]>> \in held'[c]
    BY <1>2 DEF Becomes, TypeOK
  <1>3. ASSUME NEW o \in Editable, Add(o) PROVE Spared(c)
    <2>1. o # c
      BY WhatsAppConstants
    <2>2. life[o] = "unborn" /\ life' = [life EXCEPT ![o] = "there"]
      BY <1>3 DEF Add
    <2>3. life'[c] = life[c] /\ \A p \in Objects : life'[p] = life[p] \/ life[p] = "unborn"
      BY <2>1, <2>2 DEF TypeOK
    <2>4. \A p \in Objects \ {o} : There(p)' <=> There(p)
      BY <2>2 DEF There, TypeOK
    <2>5. /\ held[c] \subseteq held'[c]
          /\ UnderWay(c) => \A p \in Editable :
               (p # o /\ content'[p] = content[p]) \/ <<p, content'[p]>> \in held'[c]
      BY <1>2, <1>3 DEF Add
    <2>6. UNCHANGED <<stage, pending, entries, used, read, rows, sent, faults>>
      BY <1>3 DEF Add
    <2> QED BY <2>3, <2>4, <2>5, <2>6 DEF Spared, Objects
  <1>4. ASSUME NEW r \in Edits \cup Deletes, Load(r) PROVE Spared(c)
    <2>1. stage'[c] = stage[c]
      BY <1>1, <1>4 DEF Load, Goto, Answers, TypeOK
    <2> QED BY <1>4, <2>1 DEF Load, Spared, There
  <1>5. ASSUME NEW r \in Edits \cup Deletes, CommitEdit(r) PROVE Spared(c)
    <2>1. stage'[c] = stage[c]
      BY <1>1, <1>5 DEF CommitEdit, Goto, Answers, TypeOK
    <2>2. UNCHANGED <<life, pending, entries, used, read, rows, sent, faults>>
      BY <1>5 DEF CommitEdit
    <2>3. /\ held[c] \subseteq held'[c]
          /\ UnderWay(c) => \A p \in Editable :
               content'[p] = content[p] \/ <<p, content'[p]>> \in held'[c]
      <3>1. target[r] \in Editable
        BY <1>5 DEF CommitEdit, Loads
      <3>2. CASE UNCHANGED <<content, held>>
        BY <3>2
      <3>3. ASSUME NEW v \in Contents, Becomes(target[r], v)
            PROVE  /\ held[c] \subseteq held'[c]
                   /\ UnderWay(c) => \A p \in Editable :
                        content'[p] = content[p] \/ <<p, content'[p]>> \in held'[c]
        BY <1>2, <3>1, <3>3
      <3> QED BY <1>5, <3>2, <3>3 DEF CommitEdit
    <2> QED BY <2>1, <2>2, <2>3 DEF Spared, There
  <1> QED BY <1>3, <1>4, <1>5, SparedStays

\* The end of any request, its own too.
LEMMA EndStays ==
    ASSUME IInv, NEW c \in Creates, NEW r \in Requests, Reply(r) \/ StoreFails(r) \/ Crash(r)
    PROVE  Creating(c)'
  <1> USE ObjectTypes DEF tableVars, createVars, IInv
  <1>1. UNCHANGED <<life, content, used, rows, entries, pending, read, sent, held>>
    BY DEF Reply, StoreFails, Crash
  <1>2. \A k \in FaultKinds : faults[k] \subseteq faults'[k]
    BY DEF Reply, StoreFails, Crash, Fault, TypeOK
  <1>3. CASE c # r
    <2>1. stage'[c] = stage[c]
      BY <1>3 DEF Reply, StoreFails, Crash, Goto, Answers, TypeOK
    <2>2. Spared(c)
      BY <1>1, <1>2, <2>1 DEF Spared, There
    <2> QED BY <2>2, SparedStays
  <1>4. CASE c = r
    <2> USE DEF Creating
    <2>1. stage'[c] = "done"
      BY <1>4 DEF Reply, StoreFails, Crash, Goto, Answers, TypeOK
    <2>2. stage[c] \notin {"idle", "done"} /\ (stage[c] = "committed" \/ Interrupted(c)')
      BY <1>4 DEF Reply, StoreFails, Crash, Fault, UnderWay, Interrupted, TypeOK, FaultKinds
    <2>3. Progress(c)'
      BY <1>1, <2>1, <2>2 DEF Progress, There
    <2>4. Marks(c)'
      <3>1. faults["unclear"] \subseteq faults'["unclear"] /\ faults["refused"] \subseteq faults'["refused"]
        BY <1>2 DEF FaultKinds
      <3> QED BY <1>1, <3>1 DEF Marks, SentTo
    <2>5. Record(c)' /\ Sends(c)'
      BY <1>1 DEF Record, There, Sends, Entry
    <2>6. Reads(c)'
      BY <2>1 DEF Reads, UnderWay
    <2> QED BY <2>3, <2>4, <2>5, <2>6
  <1> QED BY <1>3, <1>4

-----------------------------------------------------------------------------
(* The steps of a create                                                   *)

\* Nothing has been sent for the entry that is next, or for one after it.
LEMMA NotYetSent ==
    ASSUME IInv, NEW c \in Creates, NEW k \in Nat, k >= Entry(c)
    PROVE  ~ SentTo(c, k)
  <1>1. Entry(c) \in Nat
    BY ObjectTypes DEF IInv, Entry
  <1>2. \A m \in sent : m.create = c => m.entry < Entry(c)
    BY DEF IInv, Creating, Sends
  <1> QED BY <1>1, <1>2 DEF SentTo

\* A step of one create is one of another request for the others.
LEMMA OthersSpared ==
    ASSUME IInv, NEW c \in Creates, NEW d \in Creates, c # d,
           \/ FindTemplate(c) \/ Create(c) \/ SendRefused(c) \/ SendUnclear(c)
    PROVE  Spared(d)
  <1> USE ObjectTypes DEF tableVars, createVars, IInv
  <1>1. stage' = stage \/ (\E s : Goto(c, s)) \/ (\E a : Answers(c, a))
    BY DEF FindTemplate, Create, FlushCampaign, LookUpContact, Send, CommitCreate,
           SendRefused, SendUnclear
  <1>2. stage'[d] = stage[d]
    BY <1>1 DEF Goto, Answers, TypeOK
  <1>3. pending'[d] = pending[d]
    BY DEF FindTemplate, Create, FlushCampaign, LookUpContact, Send, CommitCreate,
           SendRefused, SendUnclear, Is, TypeOK
  <1>4. entries'[d] = entries[d] /\ used'[d] = used[d]
    BY DEF FindTemplate, Create, FlushCampaign, LookUpContact, Send, CommitCreate,
           SendRefused, SendUnclear, TypeOK
  <1>5. read'[d] = read[d]
    BY DEF FindTemplate, Create, FlushCampaign, LookUpContact, Send, CommitCreate,
           SendRefused, SendUnclear, TypeOK
  <1>6. held[d] \subseteq held'[d] /\ UNCHANGED content
    BY DEF FindTemplate, Create, FlushCampaign, LookUpContact, Send, CommitCreate,
           SendRefused, SendUnclear, TypeOK
  <1>7. rows'[d] = rows[d] /\ life'[d] = life[d]
    BY DEF FindTemplate, Create, FlushCampaign, LookUpContact, Send, CommitCreate, Store,
           SendRefused, SendUnclear, TypeOK
  <1>8. life' = life \/ (life[c] = "unborn" /\ life' = [life EXCEPT ![c] = "there"])
    BY DEF FindTemplate, Create, FlushCampaign, LookUpContact, Send, CommitCreate, Store, Ready,
           SendRefused, SendUnclear, Creating, Progress
  <1>9. /\ \A o \in Objects : life'[o] = life[o] \/ life[o] = "unborn"
        /\ \A o \in Editable : There(o)' <=> There(o)
    <2>1. \A o \in Editable : o # c /\ o \in Objects
      BY WhatsAppConstants DEF Objects
    <2> QED BY <1>8, <2>1 DEF There, TypeOK
  <1>10. sent \subseteq sent' /\ \A m \in sent' : m.create = d => m \in sent
    BY DEF FindTemplate, Create, FlushCampaign, LookUpContact, Send, CommitCreate, Accepted,
           SendRefused, SendUnclear
  <1>11. \A k \in FaultKinds : faults[k] \subseteq faults'[k]
    BY DEF FindTemplate, Create, FlushCampaign, LookUpContact, Send, CommitCreate,
           SendRefused, SendUnclear, Fault, TypeOK
  <1> QED BY <1>2, <1>3, <1>4, <1>5, <1>6, <1>7, <1>9, <1>10, <1>11 DEF Spared

LEMMA FindTemplateStays ==
    ASSUME IInv, NEW c \in Creates, FindTemplate(c)
    PROVE  Creating(c)'
  <1> USE ObjectTypes DEF IInv, Creating
  <1>1. PICK t \in Templates, list \in Lists[c] :
          /\ \A o \in {t} \cup {list[k] : k \in DOMAIN list} : life[o] # "unborn"
          /\ used' = [used EXCEPT ![c] = t]
          /\ entries' = [entries EXCEPT ![c] = list]
          /\ read' = [read EXCEPT ![c].name = content[t]]
          /\ \/ There(t) /\ Goto(c, "found")
             \/ Answers(c, "rejected")
    BY DEF FindTemplate
  <1>2. /\ stage[c] = "idle"
        /\ held' = [held EXCEPT ![c] = {<<o, content[o]>> : o \in {o \in Editable : There(o)}}]
        /\ UNCHANGED <<life, content, rows, pending, sent, faults>>
    BY DEF FindTemplate
  <1>3. /\ used'[c] = t /\ entries'[c] = list /\ read'[c].name = content[t]
        /\ held'[c] = {<<o, content[o]>> : o \in {o \in Editable : There(o)}}
        /\ \/ There(t) /\ stage'[c] = "found"
           \/ stage'[c] = "done"
    BY <1>1, <1>2 DEF TypeOK, Goto, Answers
  <1>4. pending[c] = <<>> /\ life[c] = "unborn" /\ rows[c] = <<>> /\ ~ There(c)
    BY <1>2 DEF Progress, Record, There
  <1>5. \A m \in sent : m.create # c
    <2>1. Entry(c) = 1
      BY <1>4 DEF Entry
    <2>2. \A m \in sent : m.entry \in Nat /\ m.entry >= 1
      BY DEF TypeOK, Message
    <2>3. ASSUME NEW m \in sent, m.create = c PROVE FALSE
      <3>1. ~ SentTo(c, m.entry)
        BY <2>1, <2>2, NotYetSent
      <3> QED BY <2>3, <3>1 DEF SentTo
    <2> QED BY <2>3
  <1>6. Progress(c)'
    BY <1>1, <1>2, <1>3, <1>4 DEF Progress, There
  <1>7. DOMAIN pending'[c] = {}
    BY <1>2, <1>4
  <1>8. Marks(c)' /\ Record(c)' /\ Sends(c)'
    BY <1>2, <1>4, <1>5, <1>7 DEF Marks, Record, Sends, There
  <1>9. Reads(c)'
    <2>1. t \in Editable
      BY DEF Editable
    <2> QED BY <1>2, <1>3, <2>1 DEF Reads, There
  <1> QED BY <1>6, <1>8, <1>9

LEMMA FlushStays ==
    ASSUME IInv, NEW c \in Creates, FlushCampaign(c)
    PROVE  Creating(c)'
  <1> USE ObjectTypes DEF IInv, Creating, tableVars, createVars
  <1>1. /\ stage[c] = "found"
        /\ (There(used[c]) /\ stage'[c] = "sending") \/ stage'[c] = "done"
        /\ UNCHANGED <<life, content, used, rows, entries, pending, read, sent, held, faults>>
    BY DEF FlushCampaign, Goto, Answers, TypeOK
  <1>2. pending[c] = <<>> /\ life[c] = "unborn"
    BY <1>1 DEF Progress
  <1>3. Progress(c)'
    BY <1>1, <1>2 DEF Progress, There
  <1>4. Marks(c)' /\ Record(c)' /\ Sends(c)'
    BY <1>1 DEF Marks, SentTo, Record, There, Sends, Entry
  <1>5. Entry(c)' = 1
    BY <1>1, <1>2 DEF Entry
  <1>6. Reads(c)'
    <2>1. /\ \A o \in Editable : There(o) => <<o, content[o]>> \in held[c]
          /\ <<used[c], read[c].name>> \in held[c]
      BY <1>1 DEF Reads, UnderWay
    <2>2. stage'[c] \in {"sending", "done"} /\ ~ (Entry(c)' > 1)
      BY <1>1, <1>5
    <2> QED BY <1>1, <2>1, <2>2 DEF Reads, There
  <1> QED BY <1>3, <1>4, <1>6

\* What the next mark leaves of the entries, and of the marks before it.
LEMMA NextMark ==
    ASSUME IInv, NEW c \in Creates, More(c), NEW s \in Statuses, Is(c, s), UNCHANGED entries
    PROVE  /\ Entry(c) \in DOMAIN entries[c] /\ Recipient(c) = entries[c][Entry(c)]
           /\ Entry(c)' = Entry(c) + 1 /\ Entry(c) \in Nat
           /\ DOMAIN pending'[c] = DOMAIN pending[c] \cup {Entry(c)}
           /\ Entry(c) \notin DOMAIN pending[c]
           /\ pending'[c][Entry(c)] = s /\ pending'[c] # <<>>
           /\ \A k \in DOMAIN pending[c] : pending'[c][k] = pending[c][k]
  <1> USE ObjectTypes DEF IInv
  <1>1. pending'[c] = Append(pending[c], s)
    BY DEF Is, TypeOK
  <1>2. /\ Len(pending'[c]) = Len(pending[c]) + 1
        /\ DOMAIN pending'[c] = 1 .. (Len(pending[c]) + 1)
        /\ pending'[c][Len(pending[c]) + 1] = s
        /\ \A k \in 1 .. Len(pending[c]) : pending'[c][k] = pending[c][k]
    BY <1>1, AppendProperties
  <1>3. Len(pending[c]) + 1 \in 1 .. Len(entries[c])
    BY DEF More, Entry
  <1>4. pending'[c] # <<>>
    BY <1>2
  <1> QED BY <1>2, <1>3, <1>4 DEF Entry, Recipient

LEMMA LookUpStays ==
    ASSUME IInv, NEW c \in Creates, LookUpContact(c)
    PROVE  Creating(c)'
  <1> USE ObjectTypes DEF IInv, Creating, tableVars
  <1>1. /\ stage[c] = "sending" /\ More(c)
        /\ UNCHANGED <<life, content, used, rows, entries, sent, held, faults>>
    BY DEF LookUpContact
  <1>2. CASE There(Recipient(c)) /\ Owner[Recipient(c)] = Owner[c]
    <2>1. /\ read' = [read EXCEPT ![c].number = IF Kept(c) THEN read[c].number
                                                 ELSE content[Recipient(c)]]
          /\ stage'[c] = "reached" /\ UNCHANGED pending
      BY <1>2 DEF LookUpContact, Goto, TypeOK
    <2>2. /\ read'[c].name = read[c].name
          /\ read'[c].number = IF Kept(c) THEN read[c].number ELSE content[Recipient(c)]
      BY <2>1 DEF TypeOK
    <2>3. Progress(c)'
      BY <1>1, <2>1 DEF Progress, More, Entry, There
    <2>4. Marks(c)' /\ Record(c)' /\ Sends(c)'
      BY <1>1, <2>1 DEF Marks, SentTo, Record, There, Sends, Entry
    <2>5. Recipient(c) \in Editable
      BY <1>1, RecipientType DEF Editable
    <2>6. <<Recipient(c), read'[c].number>> \in held[c]
      <3>1. CASE ~ Kept(c)
        BY <1>1, <1>2, <2>2, <2>5, <3>1 DEF Reads, UnderWay
      <3>2. CASE Kept(c)
        <4>1. Entry(c) > 1 /\ entries[c][Entry(c) - 1] = Recipient(c)
          BY <3>2 DEF Kept
        <4>2. Entry(c) - 1 \in DOMAIN pending[c]
          BY <4>1 DEF Entry
        <4>3. pending[c][Entry(c) - 1] # "QUEUED"
          BY <1>2, <4>1, <4>2 DEF Marks, There
        <4> QED BY <1>1, <2>2, <3>2, <4>1, <4>3 DEF Reads
      <3> QED BY <3>1, <3>2
    <2>7. Reads(c)'
      BY <1>1, <2>1, <2>2, <2>6 DEF Reads, UnderWay, There, Recipient, Entry
    <2> QED BY <2>3, <2>4, <2>7
  <1>3. CASE ~ (There(Recipient(c)) /\ Owner[Recipient(c)] = Owner[c])
    <2>1. Is(c, "QUEUED") /\ UNCHANGED <<read, stage>>
      BY <1>3 DEF LookUpContact
    <2>2. /\ Entry(c) \in DOMAIN entries[c] /\ Recipient(c) = entries[c][Entry(c)]
          /\ Entry(c)' = Entry(c) + 1 /\ Entry(c) \in Nat
          /\ DOMAIN pending'[c] = DOMAIN pending[c] \cup {Entry(c)}
          /\ pending'[c][Entry(c)] = "QUEUED"
          /\ \A k \in DOMAIN pending[c] : pending'[c][k] = pending[c][k]
      BY <1>1, <2>1, NextMark DEF Statuses
    <2>3. Progress(c)'
      BY <1>1, <2>1 DEF Progress, There
    <2>4. ~ SentTo(c, Entry(c))
      BY <2>2, NotYetSent
    <2>5. Owner[Recipient(c)] # Owner[c] \/ life[Recipient(c)] = "gone"
      BY <1>1, <1>3, <2>2 DEF Progress, There, TypeOK
    <2>6. Marks(c)'
      BY <1>1, <2>2, <2>4, <2>5 DEF Marks, SentTo
    <2>7. ~ There(c)
      BY <1>1 DEF Progress, There
    <2>8. Record(c)'
      BY <1>1, <2>7 DEF Record, There
    <2>9. Sends(c)'
      <3>1. \A m \in sent : m.entry \in Nat
        BY DEF TypeOK, Message
      <3> QED BY <1>1, <2>2, <3>1 DEF Sends
    <2>10. Reads(c)'
      <3>1. /\ \A o \in Editable : There(o) => <<o, content[o]>> \in held[c]
            /\ <<used[c], read[c].name>> \in held[c]
        BY <1>1 DEF Reads, UnderWay
      <3>2. stage'[c] = "sending" /\ pending'[c][Entry(c)' - 1] = "QUEUED"
        BY <1>1, <2>1, <2>2
      <3> QED BY <1>1, <2>1, <3>1, <3>2 DEF Reads, There
    <2> QED BY <2>3, <2>6, <2>8, <2>9, <2>10
  <1> QED BY <1>2, <1>3

LEMMA SendStays ==
    ASSUME IInv, NEW c \in Creates, Send(c) \/ SendRefused(c) \/ SendUnclear(c)
    PROVE  Creating(c)'
  <1> USE ObjectTypes DEF IInv, Creating, tableVars
  <1>1. PICK s \in {"SENT", "FAILED"} :
          /\ stage[c] = "reached" /\ stage'[c] = "sending" /\ Is(c, s)
          /\ Accepted(c) \/ UNCHANGED sent
          /\ s = "SENT" => Accepted(c)
          /\ s = "FAILED" => c \in faults'["unclear"] \/ (c \in faults'["refused"] /\ UNCHANGED sent)
          /\ \A k \in FaultKinds : faults[k] \subseteq faults'[k]
          /\ UNCHANGED <<life, content, used, rows, entries, read, held>>
    <2>1. stage[c] = "reached" /\ stage'[c] = "sending"
      BY DEF Send, SendRefused, SendUnclear, Goto, TypeOK
    <2>2. UNCHANGED <<life, content, used, rows, entries, read, held>>
      BY DEF Send, SendRefused, SendUnclear
    <2>3. \A k \in FaultKinds : faults[k] \subseteq faults'[k]
      BY DEF Send, SendRefused, SendUnclear, Fault, TypeOK
    <2>4. CASE Send(c)
      BY <2>1, <2>2, <2>3, <2>4 DEF Send
    <2>5. CASE SendRefused(c)
      <3>1. c \in faults'["refused"]
        BY <2>5 DEF SendRefused, Fault, TypeOK, FaultKinds
      <3> QED BY <2>1, <2>2, <2>3, <2>5, <3>1 DEF SendRefused
    <2>6. CASE SendUnclear(c)
      <3>1. c \in faults'["unclear"]
        BY <2>6 DEF SendUnclear, Fault, TypeOK, FaultKinds
      <3> QED BY <2>1, <2>2, <2>3, <2>6, <3>1 DEF SendUnclear
    <2> QED BY <2>4, <2>5, <2>6
  <1>2. More(c)
    BY <1>1 DEF Progress
  <1>3. PICK n \in Nat :
        /\ n = Entry(c) /\ n \in DOMAIN entries[c] /\ Recipient(c) = entries[c][n]
        /\ Entry(c)' = n + 1
        /\ DOMAIN pending'[c] = DOMAIN pending[c] \cup {n}
        /\ n \notin DOMAIN pending[c]
        /\ pending'[c][n] = s
        /\ \A k \in DOMAIN pending[c] : pending'[c][k] = pending[c][k]
    BY <1>1, <1>2, NextMark DEF Statuses
  <1> DEFINE message == [create |-> c, entry |-> n,
                         number |-> read[c].number, name |-> read[c].name]
  <1>4. sent' = sent \cup {message} \/ sent' = sent
    BY <1>1, <1>3 DEF Accepted
  <1>5. ~ SentTo(c, n)
    BY <1>3, NotYetSent
  <1>6. \A k \in DOMAIN pending[c] : SentTo(c, k)' <=> SentTo(c, k)
    BY <1>3, <1>4 DEF SentTo
  <1>7. s = "SENT" => SentTo(c, n)'
    <2>1. Accepted(c) => message \in sent'
      BY <1>3 DEF Accepted
    <2>2. message \in sent' => \E m \in sent' : m.create = c /\ m.entry = n
      OBVIOUS
    <2>3. (\E m \in sent' : m.create = c /\ m.entry = n) => SentTo(c, n)'
      BY DEF SentTo
    <2> QED BY <1>1, <2>1, <2>2, <2>3
  <1>8. Progress(c)'
    BY <1>1 DEF Progress, There
  <1>9. Marks(c)'
    <2>1. faults["unclear"] \subseteq faults'["unclear"] /\ faults["refused"] \subseteq faults'["refused"]
      BY <1>1 DEF FaultKinds
    <2>2. ASSUME NEW k \in DOMAIN pending[c]
          PROVE  /\ pending'[c][k] = "SENT" => SentTo(c, k)'
                 /\ pending'[c][k] = "FAILED" =>
                       \/ c \in faults'["unclear"]
                       \/ c \in faults'["refused"] /\ ~ SentTo(c, k)'
                 /\ pending'[c][k] = "QUEUED" =>
                       /\ ~ SentTo(c, k)'
                       /\ Owner[entries[c][k]] # Owner[c] \/ life[entries[c][k]] = "gone"
      BY <1>3, <1>6, <2>1 DEF Marks
    <2>3. UNCHANGED sent => ~ SentTo(c, n)'
      BY <1>5 DEF SentTo
    <2>4. s = "FAILED" => \/ c \in faults'["unclear"]
                          \/ c \in faults'["refused"] /\ ~ SentTo(c, n)'
      BY <1>1, <2>3
    <2>5. /\ pending'[c][n] = "SENT" => SentTo(c, n)'
          /\ pending'[c][n] = "FAILED" =>
                \/ c \in faults'["unclear"]
                \/ c \in faults'["refused"] /\ ~ SentTo(c, n)'
          /\ pending'[c][n] # "QUEUED"
      BY <1>3, <1>7, <2>4
    <2>6. ASSUME NEW k \in DOMAIN pending'[c]
          PROVE  /\ pending'[c][k] = "SENT" => SentTo(c, k)'
                 /\ pending'[c][k] = "FAILED" =>
                       \/ c \in faults'["unclear"]
                       \/ c \in faults'["refused"] /\ ~ SentTo(c, k)'
                 /\ pending'[c][k] = "QUEUED" =>
                       /\ ~ SentTo(c, k)'
                       /\ Owner[entries[c][k]] # Owner[c] \/ life[entries[c][k]] = "gone"
      <3>1. CASE k = n
        BY <2>5, <3>1
      <3>2. CASE k \in DOMAIN pending[c]
        BY <2>2, <3>2
      <3> QED BY <1>3, <3>1, <3>2
    <2> QED BY <1>1, <2>6 DEF Marks
  <1>10. Record(c)'
    <2>1. ~ There(c)
      BY <1>1 DEF Progress, There
    <2> QED BY <1>1, <2>1 DEF Record, There
  <1>11. Sends(c)'
    <2>1. /\ <<entries[c][n], read[c].number>> \in held[c]
          /\ <<used[c], read[c].name>> \in held[c]
      BY <1>1, <1>3 DEF Reads
    <2>2. \A m \in sent : m.entry \in Nat
      BY DEF TypeOK, Message
    <2>3. \A m \in sent' : m \in sent \/ m = message
      BY <1>4
    <2>4. ASSUME NEW m \in sent', m.create = c
          PROVE  /\ m.entry < n + 1
                 /\ <<entries[c][m.entry], m.number>> \in held[c]
                 /\ <<used[c], m.name>> \in held[c]
      <3>1. CASE m \in sent
        BY <1>3, <2>2, <2>4, <3>1 DEF Sends
      <3>2. CASE m = message
        BY <1>3, <2>1, <3>2
      <3> QED BY <2>3, <3>1, <3>2
    <2> QED BY <1>1, <1>3, <2>4 DEF Sends
  <1>12. Reads(c)'
    <2>1. /\ \A o \in Editable : There(o) => <<o, content[o]>> \in held[c]
          /\ <<used[c], read[c].name>> \in held[c]
          /\ <<entries[c][n], read[c].number>> \in held[c]
      BY <1>1, <1>3 DEF Reads, UnderWay
    <2>2. Entry(c)' - 1 = n
      BY <1>3
    <2> QED BY <1>1, <2>1, <2>2 DEF Reads, There
  <1> QED BY <1>8, <1>9, <1>10, <1>11, <1>12

LEMMA CommitStays ==
    ASSUME IInv, NEW c \in Creates, CommitCreate(c)
    PROVE  Creating(c)'
  <1> USE ObjectTypes DEF IInv, Creating, createVars
  <1>1. /\ stage[c] = "sending" /\ ~ More(c)
        /\ UNCHANGED <<content, used, entries, pending, read, sent, held, faults>>
    BY DEF CommitCreate, Ready
  <1>2. Len(pending[c]) = Len(entries[c])
    BY <1>1 DEF More, Entry
  <1>3. life[c] = "unborn" /\ There(used[c])
    BY <1>1 DEF Progress
  <1>4. CASE KeysHold(c)
    <2>1. /\ life' = [life EXCEPT ![c] = "there"] /\ rows'[c] = pending[c]
          /\ stage'[c] = "committed"
      BY <1>4 DEF CommitCreate, Store, Goto, TypeOK
    <2>2. life'[c] = "there" /\ \A o \in Objects \ {c} : life'[o] = life[o]
      BY <2>1 DEF TypeOK
    <2>3. c \notin Editable
      BY WhatsAppConstants
    <2>4. \A o \in Editable : o \in Objects /\ life'[o] = life[o]
      BY <2>2, <2>3 DEF Objects
    <2>5. \A k \in DOMAIN entries[c] : life'[entries[c][k]] = life[entries[c][k]]
      BY <2>4
    <2>6. Progress(c)'
      BY <1>1, <1>3, <2>1, <2>2, <2>4, <2>5 DEF Progress, There
    <2>7. Marks(c)'
      BY <1>1, <2>5 DEF Marks, SentTo
    <2>8. Record(c)'
      BY <1>1, <1>2, <1>4, <2>1, <2>2, <2>5 DEF Record, There, KeysHold
    <2>9. Reads(c)'
      BY <1>1, <2>1, <2>4 DEF Reads, UnderWay, There
    <2>10. Sends(c)'
      BY <1>1 DEF Sends, Entry
    <2> QED BY <2>6, <2>7, <2>8, <2>9, <2>10
  <1>5. CASE ~ KeysHold(c)
    <2>1. stage'[c] = "done" /\ UNCHANGED <<life, rows>>
      BY <1>5 DEF CommitCreate, Answers, Goto, TypeOK
    <2>2. \E k \in DOMAIN entries[c] : ~ There(entries[c][k])
      BY <1>3, <1>5 DEF KeysHold
    <2>3. Progress(c)'
      BY <1>1, <1>3, <2>1, <2>2 DEF Progress, There
    <2>4. Marks(c)' /\ Record(c)' /\ Sends(c)'
      BY <1>1, <2>1 DEF Marks, SentTo, Record, There, Sends, Entry
    <2>5. Reads(c)'
      BY <2>1 DEF Reads, UnderWay
    <2> QED BY <2>3, <2>4, <2>5
  <1> QED BY <1>4, <1>5

LEMMA CreatingNext ==
    ASSUME IInv, [Next]_vars, NEW c \in Creates
    PROVE  Creating(c)'
  <1>1. CASE UNCHANGED vars
    <2>1. Spared(c)
      BY <1>1 DEF Spared, vars, tableVars, createVars, There
    <2> QED BY <2>1, SparedStays
  <1>2. ASSUME NEW d \in Creates,
               \/ FindTemplate(d) \/ Create(d) \/ SendRefused(d) \/ SendUnclear(d)
        PROVE  Creating(c)'
    <2>1. CASE c # d
      BY <1>2, <2>1, OthersSpared, SparedStays
    <2>2. CASE c = d
      BY <1>2, <2>2, FindTemplateStays, FlushStays, LookUpStays, SendStays, CommitStays
         DEF Create
    <2> QED BY <2>1, <2>2
  <1>3. ASSUME NEW r \in Edits \cup Deletes, CommitDelete(r) PROVE Creating(c)'
    BY <1>3, DeletionStays DEF CommitDelete
  <1> QED BY <1>1, <1>2, <1>3, Steps, EditStays, EndStays

LEMMA LoadsNext ==
    ASSUME IInv, [Next]_vars
    PROVE  Loads'
  <1> USE DEF IInv, tableVars, createVars
  <1>1. \A o \in Objects : life'[o] = "unborn" => life[o] = "unborn"
    BY Steps DEF Add, Load, CommitEdit, CommitDelete, FindTemplate, Create, FlushCampaign,
         LookUpContact, Send, CommitCreate, Store, SendRefused, SendUnclear, Reply, StoreFails,
         Crash, vars, TypeOK
  <1>2. ASSUME NEW r \in Edits \cup Deletes, stage'[r] = "loaded"
        PROVE  \/ target'[r] = target[r] /\ stage[r] = "loaded"
               \/ life[target'[r]] # "unborn" /\ (r \in Edits => target'[r] \in Editable)
    <2>1. r \in Requests /\ r \notin Creates
      BY WhatsAppConstants DEF Requests
    <2>2. ASSUME NEW q \in Edits \cup Deletes, Load(q)
          PROVE  \/ target'[r] = target[r] /\ stage[r] = "loaded"
                 \/ life[target'[r]] # "unborn" /\ (r \in Edits => target'[r] \in Editable)
      <3>1. CASE q = r
        BY <2>2, <3>1 DEF Load, TypeOK
      <3>2. CASE q # r
        BY <1>2, <2>1, <2>2, <3>2 DEF Load, Goto, Answers, TypeOK
      <3> QED BY <3>1, <3>2
    <2>3. ASSUME NEW q \in Requests, NEW s, s # "loaded", Goto(q, s), UNCHANGED target
          PROVE  target'[r] = target[r] /\ stage[r] = "loaded"
      BY <1>2, <2>1, <2>3 DEF Goto, TypeOK
    <2>4. CASE UNCHANGED <<stage, target>>
      BY <1>2, <2>4
    <2>5. ASSUME NEW q \in Edits \cup Deletes, CommitEdit(q) \/ CommitDelete(q)
          PROVE  UNCHANGED target /\ \E s : s # "loaded" /\ Goto(q, s)
      BY <2>5 DEF CommitEdit, CommitDelete, Answers
    <2>6. ASSUME NEW q \in Requests, Reply(q) \/ StoreFails(q) \/ Crash(q)
          PROVE  UNCHANGED target /\ \E s : s # "loaded" /\ Goto(q, s)
      BY <2>6 DEF Reply, StoreFails, Crash, Answers
    <2>7. ASSUME NEW q \in Creates,
                 FindTemplate(q) \/ Create(q) \/ SendRefused(q) \/ SendUnclear(q)
          PROVE  UNCHANGED target /\ (UNCHANGED stage \/ \E s : s # "loaded" /\ Goto(q, s))
      BY <2>7 DEF FindTemplate, Create, FlushCampaign, LookUpContact, Send, CommitCreate,
           SendRefused, SendUnclear, Answers
    <2>8. Creates \subseteq Requests /\ Edits \cup Deletes \subseteq Requests
      BY DEF Requests
    <2>9. CASE UNCHANGED vars
      BY <2>4, <2>9 DEF vars
    <2>10. ASSUME NEW o \in Editable, Add(o) PROVE UNCHANGED <<stage, target>>
      BY <2>10 DEF Add
    <2> QED BY <2>2, <2>3, <2>4, <2>5, <2>6, <2>7, <2>8, <2>9, <2>10, Steps
  <1>3. TypeOK'
    BY TypeNext
  <1> QED BY <1>1, <1>2, <1>3 DEF Loads, TypeOK

-----------------------------------------------------------------------------
(* The theorems                                                            *)

LEMMA IInvInit == Init => IInv
  <1> SUFFICES ASSUME Init PROVE IInv
    OBVIOUS
  <1>1. TypeOK
    BY TypeInit
  <1>2. Loads
    BY DEF Init, Loads, Requests
  <1>3. ASSUME NEW c \in Creates PROVE Creating(c)
    <2>1. c \in Requests /\ c \in Objects /\ c \notin Initial
      BY WhatsAppConstants DEF Requests, Objects
    <2>2. /\ stage[c] = "idle" /\ life[c] = "unborn" /\ pending[c] = <<>> /\ rows[c] = <<>>
          /\ sent = {}
      BY <2>1 DEF Init
    <2>3. DOMAIN pending[c] = {}
      BY <2>2
    <2> QED BY <2>2, <2>3 DEF Creating, Progress, Marks, Record, Reads, Sends, There, UnderWay
  <1> QED BY <1>1, <1>2, <1>3 DEF IInv

LEMMA IInvNext == IInv /\ [Next]_vars => IInv'
  BY TypeNext, CreatingNext, LoadsNext DEF IInv

\* The rows of every create, pending or stored, agree with what was sent, and
\* what it sends with what was there: inductive, for all requests.
THEOREM Inductive == Spec => []IInv
  BY IInvInit, IInvNext, PTL DEF Spec

\* Every variable of the WhatsApp routes stays within its type.
THEOREM TypeCorrect == Spec => []TypeOK
  <1>1. IInv => TypeOK
    BY DEF IInv
  <1> QED BY <1>1, Inductive, PTL

\* message_status tells the truth: SENT was accepted, FAILED was refused or
\* unclear, QUEUED is a contact of another user.
THEOREM RowsAreTrue == Spec => []RowsTellTruth
  <1>1. IInv => RowsTellTruth
    <2> SUFFICES ASSUME IInv, NEW c \in Creates, NEW k \in DOMAIN rows[c]
                 PROVE  /\ rows[c][k] = "SENT" => SentTo(c, k)
                        /\ rows[c][k] = "FAILED" =>
                              \/ c \in faults["unclear"]
                              \/ c \in faults["refused"] /\ ~ SentTo(c, k)
                        /\ rows[c][k] = "QUEUED" =>
                              ~ SentTo(c, k) /\ Owner[entries[c][k]] # Owner[c]
      BY DEF RowsTellTruth
    <2>1. There(c) /\ k \in DOMAIN pending[c]
      BY ObjectTypes DEF IInv, Creating, Record
    <2>2. rows[c][k] = IF There(entries[c][k]) THEN pending[c][k] ELSE "none"
      BY <2>1 DEF IInv, Creating, Record
    <2> QED BY <2>1, <2>2 DEF IInv, Creating, Marks, There
  <1> QED BY <1>1, Inductive, PTL

\* No stored row outlives what it refers to.
THEOREM ReferencesKept == Spec => []ReferencesHold
  <1>1. IInv => ReferencesHold
    BY DEF IInv, Creating, Progress, Record, ReferencesHold
  <1> QED BY <1>1, Inductive, PTL

\* A message is written with what its contact and template have been since the
\* request began.
THEOREM ContentIsFresh == Spec => []FreshContent
  <1>1. IInv => FreshContent
    BY DEF IInv, Creating, Sends, FreshContent, TypeOK, Message
  <1> QED BY <1>1, Inductive, PTL

\* An accepted message that is not on record has one of the causes named.
THEOREM UnrecordedOnlyWithCause == Spec => []UnrecordedNeedsCause
  <1>1. IInv => UnrecordedNeedsCause
    <2> SUFFICES ASSUME IInv, NEW c \in Creates, stage[c] = "done",
                        NEW k \in DOMAIN entries[c], SentTo(c, k),
                        ~ Interrupted(c), life[c] # "gone",
                        \A i \in DOMAIN entries[c] : There(entries[c][i])
                 PROVE  \/ There(c) /\ rows[c][k] = "SENT"
                        \/ There(c) /\ rows[c][k] = "FAILED" /\ c \in faults["unclear"]
      BY DEF UnrecordedNeedsCause
    <2>1. pending[c] # <<>>
      <3>1. ASSUME pending[c] = <<>> PROVE FALSE
        <4>1. Entry(c) = 1
          BY <3>1 DEF Entry
        <4>2. k \in Nat /\ k >= 1
          BY ObjectTypes DEF IInv
        <4> QED BY <4>1, <4>2, NotYetSent
      <3> QED BY <3>1
    <2>2. There(c)
      BY <2>1, ObjectTypes DEF IInv, Creating, Progress, There, TypeOK
    <2>3. k \in DOMAIN rows[c] /\ k \in DOMAIN pending[c] /\ rows[c][k] = pending[c][k]
      BY <2>2, ObjectTypes DEF IInv, Creating, Record
    <2>4. pending[c][k] \in Statuses
      BY <2>3, ObjectTypes DEF IInv
    <2>5. pending[c][k] # "QUEUED" /\ (pending[c][k] = "FAILED" => c \in faults["unclear"])
      BY <2>3 DEF IInv, Creating, Marks
    <2> QED BY <2>2, <2>3, <2>4, <2>5 DEF Statuses
  <1> QED BY <1>1, Inductive, PTL
=============================================================================
