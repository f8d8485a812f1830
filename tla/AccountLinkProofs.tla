-------------------------- MODULE AccountLinkProofs --------------------------
(***************************************************************************)
(* Theorems about AccountLink for every set of users, Facebook accounts,   *)
(* pages and requests, and every fault budget.                             *)
(***************************************************************************)
EXTENDS AccountLink, FiniteSetTheorems, WellFoundedInduction, TLAPS

Answer == {"none", "ok", "rejected", "error"}

\* The steps, by the kind of their request.
FounderStep(r) == r \in Founders /\ (AskFacebook(r) \/ Submit(r) \/ SignIn(r))
SyncStep(s) == s \in Syncs /\ (BeginSync(s) \/ Sync(s))
SubscribeStep(w) == w \in Subscribes /\ (FindOwnPage(w) \/ AskMeta(w) \/ SaveSubscription(w))
AttemptStep(l) == l \in Attempts /\ (FindOwner(l) \/ FetchLead(l))
EndStep(r) == r \in Requests /\ (Commit(r) \/ Reply(r) \/ MetaFails(r) \/ CutOff(r))

LEMMA Steps ==
    ASSUME [Next]_vars
    PROVE  \/ UNCHANGED vars
           \/ \E r \in Requests : \/ FounderStep(r) \/ SyncStep(r) \/ SubscribeStep(r)
                                  \/ AttemptStep(r) \/ EndStep(r)
  <1>1. ASSUME NEW r \in Requests, AskFacebook(r) \/ Submit(r) PROVE r \in Founders
    BY <1>1 DEF AskFacebook, Submit, Founders
  <1> QED BY <1>1 DEF Next, Begin, Proceed, Done, FounderStep, SyncStep, SubscribeStep, AttemptStep,
            EndStep

-----------------------------------------------------------------------------
(* Types                                                                   *)

LEMMA GotoType ==
    ASSUME stage \in [Requests -> Stages], NEW r, NEW s \in Stages, Goto(r, s)
    PROVE  stage' \in [Requests -> Stages]
  BY DEF Goto

LEMMA AnswersType ==
    ASSUME stage \in [Requests -> Stages], answer \in [Requests -> Answer], NEW r,
           NEW a \in Answer, Answers(r, a)
    PROVE  stage' \in [Requests -> Stages] /\ answer' \in [Requests -> Answer]
  BY DEF Answers, Goto, Stages

LEMMA RollbackType ==
    ASSUME TypeOK, NEW r, Rollback(r)
    PROVE  /\ userRow' \in [Founders -> RowStates] /\ accountRow' \in [Callbacks -> RowStates]
           /\ pageRow' \in [PageRows -> RowStates] /\ locks' \in [Requests -> SUBSET Locks]
  <1>1. \A q \in Founders : (IF q = r /\ userRow[q] = "open" THEN "none" ELSE userRow[q]) \in RowStates
    BY DEF TypeOK, RowStates
  <1>2. \A c \in Callbacks :
          (IF c = r /\ accountRow[c] = "open" THEN "none" ELSE accountRow[c]) \in RowStates
    BY DEF TypeOK, RowStates
  <1>3. \A x \in PageRows :
          (IF x[1] = r /\ pageRow[x] = "open" THEN "none" ELSE pageRow[x]) \in RowStates
    BY DEF TypeOK, RowStates
  <1>4. locks' \in [Requests -> SUBSET Locks]
    BY DEF TypeOK, Rollback, Released
  <1> QED BY <1>1, <1>2, <1>3, <1>4 DEF Rollback

LEMMA RaisesType ==
    ASSUME TypeOK, NEW r, NEW a \in Answer, Raises(r, a)
    PROVE  /\ userRow' \in [Founders -> RowStates] /\ accountRow' \in [Callbacks -> RowStates]
           /\ pageRow' \in [PageRows -> RowStates] /\ locks' \in [Requests -> SUBSET Locks]
           /\ stage' \in [Requests -> Stages] /\ answer' \in [Requests -> Answer]
  BY RollbackType, AnswersType DEF Raises, TypeOK, Answer

LEMMA UpdateType ==
    ASSUME TypeOK, NEW r, NEW x \in Locks, Update(r, x)
    PROVE  locks' \in [Requests -> SUBSET Locks]
  BY DEF TypeOK, Update

LEMMA FaultType ==
    ASSUME TypeOK, NEW k, NEW r \in Requests, Fault(k, r)
    PROVE  faults' \in [FaultKinds -> SUBSET Requests]
  BY DEF TypeOK, Fault

LEMMA OneOfType ==
    ASSUME NEW S
    PROVE  OneOf(S) \in S \cup {None} /\ (S # {} => OneOf(S) \in S)
  BY DEF OneOf

LEMMA TypeInit == Init => TypeOK
  <1> SUFFICES ASSUME Init PROVE TypeOK
    OBVIOUS
  <1> USE AccountConstants
  <1>1. SomeAccount \in Callbacks /\ SomeFounder \in Founders
    BY DEF SomeAccount, SomeFounder, Founders
  <1>2. email \in [Founders -> Emails]
    <2>1. ASSUME NEW r \in Founders PROVE (CHOOSE e \in Profile[r] : TRUE) \in Emails
      <3>1. Profile[r] \subseteq Emails /\ Profile[r] # {}
        OBVIOUS
      <3> QED BY <3>1
    <2> QED BY <2>1 DEF Init
  <1>3. link \in [Callbacks -> [user : Founders, token : Callbacks]]
    <2>1. ASSUME NEW c \in Callbacks
          PROVE  (IF c \in DOMAIN PastLinks THEN PastLinks[c] ELSE SomeFounder) \in Founders
      BY <1>1
    <2> QED BY <2>1 DEF Init
  <1>4. of \in [PageRows -> [account : Callbacks, user : Founders]]
    <2>1. ASSUME NEW x \in PageRows
          PROVE  (IF x \in DOMAIN PastPages THEN PastPages[x] ELSE SomeAccount) \in Callbacks
      BY <1>1
    <2>2. of = [x \in PageRows |->
                  [account |-> IF x \in DOMAIN PastPages THEN PastPages[x] ELSE SomeAccount,
                   user |-> link[IF x \in DOMAIN PastPages THEN PastPages[x] ELSE SomeAccount].user]]
      BY DEF Init
    <2> QED BY <1>3, <2>1, <2>2
  <1>5. /\ userRow \in [Founders -> RowStates] /\ accountRow \in [Callbacks -> RowStates]
        /\ pageRow \in [PageRows -> RowStates]
    BY DEF Init, RowStates
  <1>6. stage \in [Requests -> Stages] /\ answer \in [Requests -> {"none", "ok", "rejected", "error"}]
    BY DEF Init, Stages
  <1>7. linked \subseteq Founders \X Callbacks
    <2>1. \A c \in DOMAIN PastLinks : PastLinks[c] \in Founders /\ c \in Callbacks
      OBVIOUS
    <2> QED BY <2>1 DEF Init
  <1>8. /\ subscribed \subseteq PageRows /\ locks \in [Requests -> SUBSET Locks]
        /\ user \in [Requests -> Founders \cup {None}]
        /\ row \in [Requests -> Callbacks \cup PageRows \cup {None}]
        /\ loaded \in [Callbacks -> Founders \cup {None}]
        /\ todo \in [Syncs -> SUBSET Callbacks] /\ listed \in [Syncs -> SUBSET Pages]
        /\ found \in [Syncs -> SUBSET PageRows] /\ atMeta \subseteq Pages
        /\ alone \subseteq Callbacks /\ faults \in [FaultKinds -> SUBSET Requests]
        /\ marked \subseteq Subscribes /\ accepted \subseteq Subscribes
    BY DEF Init
  <1> QED BY <1>2, <1>3, <1>4, <1>5, <1>6, <1>7, <1>8 DEF TypeOK

LEMMA TypeFounder ==
    ASSUME TypeOK, NEW r, FounderStep(r), r \in Callbacks => row[r] \in Callbacks \cup {None}
    PROVE  TypeOK'
  <1> USE DEF rowVars, columnVars, requestVars, syncVars, metaVars, Set
  <1>1. r \in Founders /\ r \in Requests
    BY DEF FounderStep, Requests
  <1>2. CASE AskFacebook(r) \/ Submit(r)
    <2>1. email' \in [Founders -> Emails]
      <3>1. Profile[r] \subseteq Emails
        BY <1>1, AccountConstants
      <3> QED BY <1>2, <3>1 DEF TypeOK, AskFacebook, Submit
    <2>2. stage' \in [Requests -> Stages]
      BY <1>2, GotoType DEF TypeOK, AskFacebook, Submit, Stages
    <2>3. alone' \subseteq Callbacks
      BY <1>2 DEF TypeOK, AskFacebook, Submit
    <2> QED BY <1>2, <2>1, <2>2, <2>3 DEF TypeOK, AskFacebook, Submit
  <1>3. CASE FindUser(r)
    <2>1. OneOf(UsersWith(email[r])) \in Founders \cup {None}
      BY OneOfType DEF UsersWith
    <2>2. user' \in [Requests -> Founders \cup {None}]
      BY <1>3, <2>1 DEF TypeOK, FindUser
    <2>3. stage' \in [Requests -> Stages] /\ answer' \in [Requests -> Answer]
      BY <1>3, GotoType, AnswersType DEF TypeOK, FindUser, Stages, Answer
    <2> QED BY <1>3, <2>2, <2>3 DEF TypeOK, FindUser, Answer
  <1>4. CASE InsertUser(r)
    <2>1. CASE UsersWith(email[r]) = {}
      <3>1. userRow' \in [Founders -> RowStates] /\ user' \in [Requests -> Founders \cup {None}]
        BY <1>1, <1>4, <2>1 DEF TypeOK, InsertUser, RowStates
      <3>2. stage' \in [Requests -> Stages]
        BY <1>4, <2>1, GotoType DEF TypeOK, InsertUser, Stages
      <3> QED BY <1>4, <2>1, <3>1, <3>2 DEF TypeOK, InsertUser
    <2>2. CASE UsersWith(email[r]) # {}
      <3>1. Raises(r, "error") /\ UNCHANGED user
        BY <1>4, <2>2 DEF InsertUser
      <3> QED BY <1>4, <3>1, RaisesType DEF TypeOK, InsertUser, Answer
    <2> QED BY <2>1, <2>2
  <1>5. CASE r \in Callbacks /\ UpdateUser(r)
    <2>1. <<"user", user[r]>> \in Locks
      BY <1>1, <1>5 DEF TypeOK, UpdateUser, Locks
    <2>2. locks' \in [Requests -> SUBSET Locks]
      BY <1>5, <2>1, UpdateType DEF TypeOK, UpdateUser
    <2>3. stage' \in [Requests -> Stages]
      BY <1>5, GotoType DEF TypeOK, UpdateUser, Stages
    <2> QED BY <1>5, <2>2, <2>3 DEF TypeOK, UpdateUser
  <1>6. CASE r \in Callbacks /\ FindAccount(r)
    <2>1. OneOf(AccountsFor(For[r])) \in Callbacks \cup {None}
      BY OneOfType DEF AccountsFor
    <2>2. row' \in [Requests -> Callbacks \cup PageRows \cup {None}] /\ row'[r] \in Callbacks \cup {None}
      BY <1>1, <1>6, <2>1 DEF TypeOK, FindAccount
    <2>3. loaded' \in [Callbacks -> Founders \cup {None}]
      <3>1. (IF row'[r] = None THEN None ELSE link[row'[r]].user) \in Founders \cup {None}
        BY <2>2 DEF TypeOK
      <3> QED BY <1>6, <3>1 DEF TypeOK, FindAccount
    <2>4. stage' \in [Requests -> Stages]
      BY <1>6, GotoType DEF TypeOK, FindAccount, Stages
    <2> QED BY <1>6, <2>2, <2>3, <2>4 DEF TypeOK, FindAccount
  <1>7. CASE r \in Callbacks /\ InsertAccount(r)
    <2>1. CASE AccountsFor(For[r]) = {}
      <3>1. /\ accountRow' \in [Callbacks -> RowStates]
            /\ row' \in [Requests -> Callbacks \cup PageRows \cup {None}]
        BY <1>1, <1>7, <2>1 DEF TypeOK, InsertAccount, RowStates
      <3>2. stage' \in [Requests -> Stages]
        BY <1>7, <2>1, GotoType DEF TypeOK, InsertAccount, Stages
      <3> QED BY <1>7, <2>1, <3>1, <3>2 DEF TypeOK, InsertAccount
    <2>2. CASE AccountsFor(For[r]) # {}
      <3>1. Raises(r, "error") /\ UNCHANGED row
        BY <1>7, <2>2 DEF InsertAccount
      <3> QED BY <1>7, <3>1, RaisesType DEF TypeOK, InsertAccount, Answer
    <2> QED BY <2>1, <2>2
  <1>8. CASE r \in Callbacks /\ UpdateAccount(r)
    <2>1. <<"account", row[r]>> \in Locks
      BY <1>8 DEF UpdateAccount, Locks
    <2>2. locks' \in [Requests -> SUBSET Locks]
      BY <1>8, <2>1, UpdateType DEF UpdateAccount
    <2>3. stage' \in [Requests -> Stages]
      BY <1>8, GotoType DEF TypeOK, UpdateAccount, Stages
    <2> QED BY <1>8, <2>2, <2>3 DEF TypeOK, UpdateAccount
  <1> QED BY <1>2, <1>3, <1>4, <1>5, <1>6, <1>7, <1>8 DEF FounderStep, SignIn

LEMMA TypeSync ==
    ASSUME TypeOK, NEW s, SyncStep(s), Syncing(s)
    PROVE  TypeOK'
  <1> USE DEF rowVars, columnVars, requestVars, syncVars, metaVars, Set
  <1>1. s \in Syncs /\ s \in Requests
    BY DEF SyncStep, Requests
  <1>2. CASE BeginSync(s)
    <2>1. user' \in [Requests -> Founders \cup {None}] /\ todo' \in [Syncs -> SUBSET Callbacks]
      <3>1. PICK u \in Founders, S \in SUBSET Callbacks :
              user' = [user EXCEPT ![s] = u] /\ todo' = [todo EXCEPT ![s] = S]
        BY <1>2 DEF BeginSync, AccountsOf
      <3> QED BY <3>1 DEF TypeOK
    <2>2. stage' \in [Requests -> Stages]
      BY <1>2, GotoType DEF TypeOK, BeginSync, Stages
    <2> QED BY <1>2, <2>1, <2>2 DEF TypeOK, BeginSync
  <1>3. ASSUME NEW a \in Callbacks, TakeAccount(s, a) PROVE TypeOK'
    <2>1. /\ todo' \in [Syncs -> SUBSET Callbacks]
          /\ row' \in [Requests -> Callbacks \cup PageRows \cup {None}]
      BY <1>1, <1>3 DEF TypeOK, TakeAccount
    <2>2. CASE Goto(s, "listing") /\ UNCHANGED <<rowVars, answer>>
      BY <1>3, <2>1, <2>2, GotoType DEF TypeOK, TakeAccount, Stages
    <2>3. CASE Raises(s, "rejected")
      BY <1>3, <2>1, <2>3, RaisesType DEF TypeOK, TakeAccount, Answer
    <2> QED BY <1>3, <2>2, <2>3 DEF TakeAccount
  <1>4. CASE ListPages(s)
    <2>1. Manages[For[row[s]]] \subseteq Pages
      BY <1>4, AccountConstants DEF Syncing, ListPages
    <2>2. listed' \in [Syncs -> SUBSET Pages]
      BY <1>4, <2>1 DEF TypeOK, ListPages
    <2>3. stage' \in [Requests -> Stages]
      BY <1>4, GotoType DEF TypeOK, ListPages, Stages
    <2> QED BY <1>4, <2>2, <2>3 DEF TypeOK, ListPages
  <1>5. ASSUME NEW p \in Pages, FindPage(s, p) PROVE TypeOK'
    <2>1. CASE Raises(s, "error") /\ UNCHANGED <<listed, found>>
      BY <1>5, <2>1, RaisesType DEF TypeOK, FindPage, Answer
    <2>2. CASE ~ (Cardinality(RowsOf(p, s)) > 1)
      <3>1. <<s, p>> \in PageRows /\ RowsOf(p, s) \subseteq PageRows
        BY <1>1 DEF PageRows, RowsOf
      <3>2. found' \in [Syncs -> SUBSET PageRows] /\ listed' \in [Syncs -> SUBSET Pages]
        <4> DEFINE S == IF RowsOf(p, s) = {} THEN {<<s, p>>} ELSE RowsOf(p, s)
        <4>1. /\ found' = [found EXCEPT ![s] = found[s] \cup S] \/ found' = found
              /\ listed' = [listed EXCEPT ![s] = listed[s] \ {p}]
          BY <1>5, <2>2 DEF FindPage
        <4>2. S \subseteq PageRows
          BY <3>1
        <4> HIDE DEF S
        <4> QED BY <4>1, <4>2 DEF TypeOK
      <3>3. stage' \in [Requests -> Stages] /\ UNCHANGED <<rowVars, answer>>
        BY <1>5, <2>2, GotoType DEF TypeOK, FindPage, Stages
      <3> QED BY <1>5, <3>2, <3>3 DEF TypeOK, FindPage
    <2> QED BY <1>5, <2>1, <2>2 DEF FindPage
  <1>6. ASSUME NEW x \in PageRows, FlushPage(s, x) PROVE TypeOK'
    <2>1. <<"page", x>> \in Locks
      BY DEF Locks
    <2>2. locks' \in [Requests -> SUBSET Locks]
      BY <1>6, <2>1, UpdateType DEF FlushPage
    <2>3. found' \in [Syncs -> SUBSET PageRows]
      BY <1>6 DEF TypeOK, FlushPage
    <2> QED BY <1>6, <2>2, <2>3 DEF TypeOK, FlushPage
  <1>7. CASE InsertPages(s)
    <2>1. row[s] \in Callbacks /\ user[s] \in Founders
      BY <1>7 DEF Syncing, InsertPages, UnderWay
    <2>2. /\ of' \in [PageRows -> [account : Callbacks, user : Founders]]
          /\ pageRow' \in [PageRows -> RowStates] /\ found' \in [Syncs -> SUBSET PageRows]
      BY <1>7, <2>1 DEF TypeOK, InsertPages, RowStates
    <2>3. stage' \in [Requests -> Stages]
      BY <1>7, GotoType DEF TypeOK, InsertPages, Stages
    <2> QED BY <1>7, <2>2, <2>3 DEF TypeOK, InsertPages
  <1>8. CASE Deadlocked(s)
    BY <1>8, RaisesType DEF TypeOK, Deadlocked, Answer
  <1>9. CASE AllSynced(s)
    <2>1. CASE Raises(s, "error")
      BY <1>9, <2>1, RaisesType DEF TypeOK, AllSynced, Answer
    <2>2. CASE ~ Raises(s, "error")
      BY <1>9, <2>2, GotoType DEF TypeOK, AllSynced, Stages
    <2> QED BY <2>1, <2>2
  <1> QED BY <1>2, <1>3, <1>4, <1>5, <1>6, <1>7, <1>8, <1>9 DEF SyncStep, Sync

LEMMA TypeSubscribe ==
    ASSUME TypeOK, NEW w, SubscribeStep(w), Subscribing(w)
    PROVE  TypeOK'
  <1> USE DEF rowVars, columnVars, requestVars, syncVars, metaVars, Set
  <1>1. w \in Subscribes /\ w \in Requests
    BY DEF SubscribeStep, Requests
  <1>2. CASE FindOwnPage(w)
    <2>1. /\ user' \in [Requests -> Founders \cup {None}]
          /\ row' \in [Requests -> Callbacks \cup PageRows \cup {None}]
      <3>1. PICK u \in Founders, x \in PageRows :
              user' = [user EXCEPT ![w] = u] /\ row' = [row EXCEPT ![w] = x]
        BY <1>2 DEF FindOwnPage
      <3> QED BY <3>1 DEF TypeOK
    <2>2. stage' \in [Requests -> Stages] /\ answer' \in [Requests -> Answer]
      BY <1>2, GotoType, AnswersType DEF TypeOK, FindOwnPage, Stages, Answer
    <2>3. marked' \subseteq Subscribes
      BY <1>1, <1>2 DEF TypeOK, FindOwnPage
    <2> QED BY <1>2, <2>1, <2>2, <2>3 DEF TypeOK, FindOwnPage, Answer
  <1>3. CASE AskMeta(w)
    <2>1. row[w][2] \in Pages
      BY <1>3 DEF Subscribing, AskMeta, UnderWay, PageRows
    <2>2. atMeta' \subseteq Pages /\ accepted' \subseteq Subscribes
      BY <1>1, <1>3, <2>1 DEF TypeOK, AskMeta
    <2> QED BY <1>3, <2>2, GotoType DEF TypeOK, AskMeta, Stages
  <1>4. CASE SaveSubscription(w)
    <2>1. <<"page", row[w]>> \in Locks
      BY <1>4 DEF Subscribing, SaveSubscription, UnderWay, Locks
    <2>2. locks' \in [Requests -> SUBSET Locks]
      BY <1>4, <2>1, UpdateType DEF SaveSubscription, TypeOK
    <2> QED BY <1>4, <2>2, GotoType DEF TypeOK, SaveSubscription, Stages
  <1> QED BY <1>2, <1>3, <1>4 DEF SubscribeStep

LEMMA TypeAttempt ==
    ASSUME TypeOK, NEW l, AttemptStep(l)
    PROVE  TypeOK'
  <1> USE DEF rowVars, columnVars, requestVars, syncVars, metaVars, Set
  <1>1. l \in Requests
    BY DEF AttemptStep, Requests
  <1>2. CASE FindOwner(l)
    <2>1. stage' \in [Requests -> Stages] /\ answer' \in [Requests -> Answer]
      BY <1>2, GotoType, AnswersType DEF TypeOK, FindOwner, Stages, Answer
    <2>2. CASE Cardinality(RowsOf(PageOf[l], l)) = 1
      <3>1. RowsOf(PageOf[l], l) # {} /\ RowsOf(PageOf[l], l) \subseteq PageRows
        BY <2>2, FS_EmptySet DEF RowsOf
      <3>2. OneOf(RowsOf(PageOf[l], l)) \in PageRows
        BY <3>1, OneOfType
      <3>3. row' = [row EXCEPT ![l] = OneOf(RowsOf(PageOf[l], l))]
            /\ user' = [user EXCEPT ![l] = of[row'[l]].user]
        BY <1>2, <2>2 DEF FindOwner
      <3>4. row' \in [Requests -> Callbacks \cup PageRows \cup {None}] /\ row'[l] \in PageRows
        BY <1>1, <3>2, <3>3 DEF TypeOK
      <3>5. user' \in [Requests -> Founders \cup {None}]
        BY <3>3, <3>4 DEF TypeOK
      <3> QED BY <1>2, <2>1, <3>4, <3>5 DEF TypeOK, FindOwner, Answer
    <2>3. CASE UNCHANGED <<row, user>>
      BY <1>2, <2>1, <2>3 DEF TypeOK, FindOwner, Answer
    <2> QED BY <1>2, <2>2, <2>3 DEF FindOwner
  <1>3. CASE FetchLead(l)
    <2>1. \E a \in Answer : Ends(l, a)
      BY <1>3 DEF FetchLead, Answer
    <2>2. stage' \in [Requests -> Stages] /\ answer' \in [Requests -> Answer]
      BY <2>1, AnswersType DEF TypeOK, Ends, Answer
    <2>3. row' \in [Requests -> Callbacks \cup PageRows \cup {None}]
      BY <1>3 DEF TypeOK, FetchLead, AccountsOf
    <2> QED BY <1>3, <2>1, <2>2, <2>3 DEF TypeOK, FetchLead, Ends, Answer
  <1> QED BY <1>2, <1>3 DEF AttemptStep

LEMMA TypeEnd ==
    ASSUME TypeOK, NEW r, EndStep(r),
           r \in Callbacks /\ stage[r] = "saved" => row[r] \in Callbacks /\ user[r] \in Founders,
           r \in Subscribes /\ UnderWay(r) => row[r] \in PageRows
    PROVE  TypeOK'
  <1> USE DEF rowVars, columnVars, requestVars, syncVars, metaVars, Set
  <1>1. r \in Requests
    BY DEF EndStep
  <1>2. CASE Commit(r)
    <2>1. stage' \in [Requests -> Stages]
      BY <1>2, GotoType DEF TypeOK, Commit, Stages
    <2>2. userRow' \in [Founders -> RowStates]
      BY <1>2 DEF TypeOK, Commit, RowStates
    <2>3. accountRow' \in [Callbacks -> RowStates]
      BY <1>2 DEF TypeOK, Commit, RowStates
    <2>4. pageRow' \in [PageRows -> RowStates]
      BY <1>2 DEF TypeOK, Commit, RowStates
    <2>5. locks' \in [Requests -> SUBSET Locks]
      BY <1>2 DEF TypeOK, Commit, Released
    <2>6. /\ link' \in [Callbacks -> [user : Founders, token : Callbacks]]
          /\ linked' \subseteq Founders \X Callbacks
      <3>1. CASE r \in Callbacks
        <4>1. row[r] \in Callbacks /\ user[r] \in Founders
          BY <1>2, <3>1 DEF Commit
        <4>2. LinkOf(r) \in [user : Founders, token : Callbacks]
          BY <3>1, <4>1 DEF TypeOK, LinkOf
        <4>3. link' = [link EXCEPT ![row[r]] = LinkOf(r)]
              /\ linked' = linked \cup {<<link'[row[r]].user, row[r]>>}
          BY <1>2, <3>1 DEF Commit
        <4>4. link' \in [Callbacks -> [user : Founders, token : Callbacks]]
          BY <4>2, <4>3 DEF TypeOK
        <4>5. link'[row[r]].user \in Founders
          BY <4>1, <4>4
        <4> QED BY <4>1, <4>3, <4>4, <4>5 DEF TypeOK
      <3>2. CASE r \notin Callbacks
        BY <1>2, <3>2 DEF TypeOK, Commit
      <3> QED BY <3>1, <3>2
    <2>7. subscribed' \subseteq PageRows
      BY <1>2 DEF TypeOK, Commit, Marks, UnderWay
    <2> QED BY <1>2, <2>1, <2>2, <2>3, <2>4, <2>5, <2>6, <2>7 DEF TypeOK, Commit
  <1>3. CASE Reply(r)
    BY <1>3, AnswersType DEF TypeOK, Reply, Ends, Answer
  <1>4. CASE MetaFails(r)
    <2>1. faults' \in [FaultKinds -> SUBSET Requests]
      BY <1>1, <1>4, FaultType DEF MetaFails
    <2>2. atMeta' \subseteq Pages
      <3>1. r \in Subscribes => row[r][2] \in Pages
        BY <1>4 DEF MetaFails, CallsMeta, UnderWay, PageRows
      <3> QED BY <1>4, <3>1 DEF TypeOK, MetaFails
    <2> QED BY <1>4, <2>1, <2>2, RaisesType DEF TypeOK, MetaFails, Answer
  <1>5. CASE CutOff(r)
    <2>1. faults' \in [FaultKinds -> SUBSET Requests]
      BY <1>1, <1>5, FaultType DEF CutOff
    <2> QED BY <1>5, <2>1, RaisesType DEF TypeOK, CutOff, Answer
  <1> QED BY <1>2, <1>3, <1>4, <1>5 DEF EndStep

LEMMA TypeNext ==
    ASSUME IInv, [Next]_vars
    PROVE  TypeOK'
  <1>1. CASE UNCHANGED vars
    BY <1>1 DEF IInv, TypeOK, vars, rowVars, columnVars, requestVars, syncVars, metaVars
  <1>2. ASSUME NEW r, EndStep(r) PROVE TypeOK'
    <2>1. r \in Callbacks => r \in Founders /\ r \in Requests
      BY DEF Founders, Requests
    <2>2. r \in Callbacks /\ stage[r] = "saved" => row[r] \in Callbacks /\ user[r] \in Founders
      <3>1. ASSUME r \in Callbacks, stage[r] = "saved"
            PROVE  row[r] \in Callbacks \cup {None} /\ row[r] # None /\ user[r] # None
        BY <2>1, <3>1 DEF IInv, Linking, SigningIn
      <3>2. r \in Callbacks => user[r] \in Founders \cup {None}
        BY <2>1 DEF IInv, TypeOK
      <3> QED BY <3>1, <3>2
    <2> QED BY <1>2, <2>2, TypeEnd DEF IInv, Subscribing
  <1>3. ASSUME NEW r, FounderStep(r) PROVE TypeOK'
    BY <1>3, TypeFounder DEF IInv, Linking
  <1>4. ASSUME NEW r, SyncStep(r) PROVE TypeOK'
    BY <1>4, TypeSync DEF IInv, SyncStep
  <1>5. ASSUME NEW r, SubscribeStep(r) PROVE TypeOK'
    BY <1>5, TypeSubscribe DEF IInv, SubscribeStep
  <1> QED BY <1>1, <1>2, <1>3, <1>4, <1>5, TypeAttempt, Steps DEF IInv

-----------------------------------------------------------------------------
(* What a step leaves to others                                            *)

\* A step leaves request q as it is.
Passive(q) ==
    /\ stage'[q] = stage[q] /\ user'[q] = user[q] /\ row'[q] = row[q] /\ answer'[q] = answer[q]
    /\ q \in Founders => userRow'[q] = userRow[q] /\ email'[q] = email[q]
    /\ q \in Callbacks => accountRow'[q] = accountRow[q] /\ loaded'[q] = loaded[q]
    /\ q \in Syncs => todo'[q] = todo[q] /\ listed'[q] = listed[q] /\ found'[q] = found[q]
    /\ q \in marked' <=> q \in marked
    /\ q \in accepted' <=> q \in accepted
    /\ \A k \in FaultKinds : q \in faults'[k] <=> q \in faults[k]

\* What is committed stays.
Grown ==
    /\ \A q \in Founders : /\ userRow[q] = "there" => userRow'[q] = "there"
                           /\ userRow[q] # "none" => email'[q] = email[q]
    /\ \A c \in Callbacks : accountRow[c] = "there" => accountRow'[c] = "there"
    /\ \A x \in PageRows : pageRow[x] = "there" => pageRow'[x] = "there" /\ of'[x] = of[x]
    /\ linked \subseteq linked' /\ atMeta \subseteq atMeta'
    /\ \A k \in FaultKinds : faults[k] \subseteq faults'[k]

LEMMA Kinds ==
    /\ Founders \subseteq Requests /\ Callbacks \subseteq Founders /\ Syncs \subseteq Requests
    /\ Subscribes \subseteq Requests /\ Attempts \subseteq Requests
    /\ Founders \cap Syncs = {} /\ Founders \cap Subscribes = {} /\ Founders \cap Attempts = {}
    /\ Syncs \cap Subscribes = {} /\ Syncs \cap Attempts = {} /\ Subscribes \cap Attempts = {}
    /\ None \notin Callbacks /\ None \notin Founders /\ None \notin PageRows
  BY AccountConstants DEF Requests, Founders

LEMMA RaisesPassive ==
    ASSUME TypeOK, NEW r, NEW a, Raises(r, a), NEW q \in Requests, q # r
    PROVE  /\ stage'[q] = stage[q] /\ answer'[q] = answer[q]
           /\ q \in Founders => userRow'[q] = userRow[q]
           /\ q \in Callbacks => accountRow'[q] = accountRow[q]
  BY DEF Raises, Rollback, Answers, Goto, TypeOK

LEMMA RaisesGrown ==
    ASSUME TypeOK, NEW r, NEW a, Raises(r, a)
    PROVE  /\ \A q \in Founders : userRow[q] = "there" => userRow'[q] = "there"
           /\ \A c \in Callbacks : accountRow[c] = "there" => accountRow'[c] = "there"
           /\ \A x \in PageRows : pageRow[x] = "there" => pageRow'[x] = "there"
           /\ \A q \in Founders : userRow'[q] # "none" => userRow[q] # "none"
           /\ \A c \in Callbacks : accountRow'[c] # "none" => accountRow[c] # "none"
           /\ \A x \in PageRows : pageRow'[x] # "none" => pageRow[x] # "none"
  BY DEF Raises, Rollback, TypeOK

LEMMA FounderPassive ==
    ASSUME TypeOK, NEW r, FounderStep(r), NEW q \in Requests, q # r
    PROVE  Passive(q)
  <1> USE DEF rowVars, columnVars, requestVars, syncVars, metaVars, Set, Passive
  <1>1. CASE AskFacebook(r)
    BY <1>1 DEF TypeOK, AskFacebook, Goto
  <1>2. CASE Submit(r)
    BY <1>2 DEF TypeOK, Submit, Goto
  <1>3. CASE FindUser(r)
    BY <1>3 DEF TypeOK, FindUser, Goto, Answers
  <1>4. CASE InsertUser(r)
    <2>1. CASE UsersWith(email[r]) # {}
      <3>1. Raises(r, "error") /\ UNCHANGED user
        BY <1>4, <2>1 DEF InsertUser
      <3> QED BY <1>4, <3>1, RaisesPassive DEF InsertUser
    <2>2. CASE UsersWith(email[r]) = {}
      BY <1>4, <2>2 DEF TypeOK, InsertUser, Goto
    <2> QED BY <2>1, <2>2
  <1>5. CASE UpdateUser(r)
    BY <1>5 DEF TypeOK, UpdateUser, Goto
  <1>6. CASE FindAccount(r)
    BY <1>6 DEF TypeOK, FindAccount, Goto
  <1>7. CASE InsertAccount(r)
    <2>1. CASE AccountsFor(For[r]) # {}
      <3>1. Raises(r, "error") /\ UNCHANGED row
        BY <1>7, <2>1 DEF InsertAccount
      <3> QED BY <1>7, <3>1, RaisesPassive DEF InsertAccount
    <2>2. CASE AccountsFor(For[r]) = {}
      BY <1>7, <2>2 DEF TypeOK, InsertAccount, Goto
    <2> QED BY <2>1, <2>2
  <1>8. CASE UpdateAccount(r)
    BY <1>8 DEF TypeOK, UpdateAccount, Goto
  <1> QED BY <1>1, <1>2, <1>3, <1>4, <1>5, <1>6, <1>7, <1>8 DEF FounderStep, SignIn

LEMMA SyncPassive ==
    ASSUME TypeOK, NEW s, SyncStep(s), NEW q \in Requests, q # s
    PROVE  Passive(q)
  <1> USE DEF rowVars, columnVars, requestVars, syncVars, metaVars, Set, Passive
  <1>1. CASE BeginSync(s)
    <2>1. todo'[q] = todo[q] \/ q \notin Syncs
      BY <1>1 DEF TypeOK, BeginSync
    <2>2. user'[q] = user[q]
      BY <1>1 DEF TypeOK, BeginSync
    <2> QED BY <1>1, <2>1, <2>2 DEF TypeOK, BeginSync, Goto
  <1>2. ASSUME NEW a \in Callbacks, TakeAccount(s, a) PROVE Passive(q)
    <2>1. CASE Raises(s, "rejected")
      BY <1>2, <2>1, RaisesPassive DEF TypeOK, TakeAccount
    <2>2. CASE ~ Raises(s, "rejected")
      BY <1>2, <2>2 DEF TypeOK, TakeAccount, Goto
    <2> QED BY <2>1, <2>2
  <1>3. CASE ListPages(s)
    BY <1>3 DEF TypeOK, ListPages, Goto
  <1>4. ASSUME NEW p \in Pages, FindPage(s, p) PROVE Passive(q)
    <2>1. CASE Raises(s, "error") /\ UNCHANGED <<listed, found>>
      BY <1>4, <2>1, RaisesPassive DEF TypeOK, FindPage
    <2>2. CASE ~ (Cardinality(RowsOf(p, s)) > 1)
      BY <1>4, <2>2 DEF TypeOK, FindPage, Goto
    <2> QED BY <1>4, <2>1, <2>2 DEF FindPage
  <1>5. ASSUME NEW x \in PageRows, FlushPage(s, x) PROVE Passive(q)
    BY <1>5 DEF TypeOK, FlushPage
  <1>6. CASE InsertPages(s)
    BY <1>6 DEF TypeOK, InsertPages, Goto
  <1>7. CASE Deadlocked(s)
    BY <1>7, RaisesPassive DEF Deadlocked
  <1>8. CASE AllSynced(s)
    <2>1. CASE Raises(s, "error")
      BY <1>8, <2>1, RaisesPassive DEF AllSynced
    <2>2. CASE ~ Raises(s, "error")
      BY <1>8, <2>2 DEF TypeOK, AllSynced, Goto
    <2> QED BY <2>1, <2>2
  <1> QED BY <1>1, <1>2, <1>3, <1>4, <1>5, <1>6, <1>7, <1>8 DEF SyncStep, Sync

LEMMA FaultOther ==
    ASSUME TypeOK, NEW k, NEW r, Fault(k, r), NEW q, q # r
    PROVE  \A j \in FaultKinds : q \in faults'[j] <=> q \in faults[j]
  BY DEF TypeOK, Fault

LEMMA OtherPassive ==
    ASSUME TypeOK, NEW r, SubscribeStep(r) \/ AttemptStep(r) \/ EndStep(r),
           NEW q \in Requests, q # r
    PROVE  Passive(q)
  <1> USE DEF rowVars, columnVars, requestVars, syncVars, metaVars, Set, Passive
  <1>1. CASE FindOwnPage(r)
    <2>1. user'[q] = user[q] /\ row'[q] = row[q]
      BY <1>1 DEF TypeOK, FindOwnPage
    <2>2. stage'[q] = stage[q] /\ answer'[q] = answer[q]
      BY <1>1 DEF TypeOK, FindOwnPage, Goto, Answers
    <2> QED BY <1>1, <2>1, <2>2 DEF FindOwnPage
  <1>2. CASE AskMeta(r) \/ SaveSubscription(r)
    BY <1>2 DEF TypeOK, AskMeta, SaveSubscription, Goto
  <1>3. CASE FindOwner(r)
    <2>1. user'[q] = user[q] /\ row'[q] = row[q]
      BY <1>3 DEF TypeOK, FindOwner
    <2>2. stage'[q] = stage[q] /\ answer'[q] = answer[q]
      BY <1>3 DEF TypeOK, FindOwner, Goto, Answers
    <2> QED BY <1>3, <2>1, <2>2 DEF FindOwner
  <1>4. CASE FetchLead(r)
    <2>1. \E a : Ends(r, a)
      BY <1>4 DEF FetchLead
    <2>2. row'[q] = row[q]
      BY <1>4 DEF TypeOK, FetchLead
    <2> QED BY <1>4, <2>1, <2>2 DEF TypeOK, FetchLead, Ends, Answers, Goto
  <1>5. CASE Commit(r)
    BY <1>5 DEF TypeOK, Commit, Goto
  <1>6. CASE Reply(r)
    BY <1>6 DEF TypeOK, Reply, Ends, Answers, Goto
  <1>7. CASE MetaFails(r)
    BY <1>7, RaisesPassive, FaultOther DEF MetaFails
  <1>8. CASE CutOff(r)
    BY <1>8, RaisesPassive, FaultOther DEF CutOff
  <1> QED BY <1>1, <1>2, <1>3, <1>4, <1>5, <1>6, <1>7, <1>8
          DEF SubscribeStep, AttemptStep, EndStep

LEMMA FaultGrown ==
    ASSUME TypeOK, NEW k, NEW r, Fault(k, r)
    PROVE  \A j \in FaultKinds : faults[j] \subseteq faults'[j]
  BY DEF TypeOK, Fault

LEMMA FounderGrown ==
    ASSUME IInv, NEW r, FounderStep(r)
    PROVE  Grown
  <1> USE DEF rowVars, columnVars, requestVars, syncVars, metaVars, Set, Grown
  <1>1. TypeOK /\ (r \in Founders => SigningIn(r)) /\ r \in Founders
    BY DEF IInv, FounderStep
  <1>2. CASE AskFacebook(r) \/ Submit(r)
    <2>1. userRow[r] = "none"
      BY <1>1, <1>2 DEF AskFacebook, Submit, SigningIn
    <2> QED BY <1>1, <1>2, <2>1 DEF TypeOK, AskFacebook, Submit
  <1>3. CASE FindUser(r) \/ UpdateUser(r) \/ FindAccount(r) \/ UpdateAccount(r)
    BY <1>3 DEF FindUser, UpdateUser, FindAccount, UpdateAccount
  <1>4. CASE InsertUser(r)
    <2>1. CASE Raises(r, "error")
      BY <1>1, <1>4, <2>1, RaisesGrown DEF InsertUser
    <2>2. CASE ~ Raises(r, "error")
      <3>1. UsersWith(email[r]) = {} /\ userRow' = [userRow EXCEPT ![r] = "open"]
            /\ UNCHANGED <<accountRow, pageRow>>
        BY <1>4, <2>2 DEF InsertUser
      <3>2. userRow[r] # "there"
        BY <1>1, <3>1 DEF UsersWith
      <3>3. \A q \in Founders : userRow[q] = "there" => userRow'[q] = "there"
        BY <1>1, <3>1, <3>2 DEF TypeOK
      <3> QED BY <1>4, <3>1, <3>3 DEF InsertUser
    <2> QED BY <2>1, <2>2
  <1>5. CASE r \in Callbacks /\ InsertAccount(r)
    <2>1. CASE Raises(r, "error")
      BY <1>1, <1>5, <2>1, RaisesGrown DEF InsertAccount
    <2>2. CASE ~ Raises(r, "error")
      <3>1. AccountsFor(For[r]) = {} /\ accountRow' = [accountRow EXCEPT ![r] = "open"]
            /\ UNCHANGED <<userRow, pageRow>>
        BY <1>5, <2>2 DEF InsertAccount
      <3>2. accountRow[r] # "there"
        BY <1>5, <3>1 DEF AccountsFor
      <3>3. \A c \in Callbacks : accountRow[c] = "there" => accountRow'[c] = "there"
        BY <1>1, <3>1, <3>2 DEF TypeOK
      <3> QED BY <1>5, <3>1, <3>3 DEF InsertAccount
    <2> QED BY <2>1, <2>2
  <1> QED BY <1>2, <1>3, <1>4, <1>5 DEF FounderStep, SignIn

LEMMA SyncGrown ==
    ASSUME TypeOK, NEW s, SyncStep(s)
    PROVE  Grown
  <1> USE DEF rowVars, columnVars, requestVars, syncVars, metaVars, Set, Grown
  <1>1. CASE BeginSync(s) \/ ListPages(s) \/ AllSynced(s)
    <2>1. CASE Raises(s, "error")
      BY <1>1, <2>1, RaisesGrown DEF BeginSync, ListPages, AllSynced
    <2> QED BY <1>1, <2>1 DEF BeginSync, ListPages, AllSynced
  <1>2. ASSUME NEW a \in Callbacks, TakeAccount(s, a) PROVE Grown
    <2>1. CASE Raises(s, "rejected")
      BY <1>2, <2>1, RaisesGrown DEF TakeAccount
    <2> QED BY <1>2, <2>1 DEF TakeAccount
  <1>3. ASSUME NEW p \in Pages, FindPage(s, p) PROVE Grown
    <2>1. CASE Raises(s, "error")
      BY <1>3, <2>1, RaisesGrown DEF FindPage
    <2>2. CASE UNCHANGED rowVars
      BY <1>3, <2>2 DEF FindPage
    <2> QED BY <1>3, <2>1, <2>2 DEF FindPage
  <1>4. ASSUME NEW x \in PageRows, FlushPage(s, x) PROVE Grown
    BY <1>4 DEF FlushPage
  <1>5. CASE InsertPages(s)
    <2>1. \A x \in found[s] : pageRow[x] = "none"
      BY <1>5 DEF InsertPages, ToUpdate
    <2>2. \A x \in PageRows : pageRow[x] = "there" => pageRow'[x] = "there" /\ of'[x] = of[x]
      BY <1>5, <2>1 DEF InsertPages
    <2> QED BY <1>5, <2>2 DEF InsertPages
  <1>6. CASE Deadlocked(s)
    BY <1>6, RaisesGrown DEF Deadlocked
  <1> QED BY <1>1, <1>2, <1>3, <1>4, <1>5, <1>6 DEF SyncStep, Sync

LEMMA OtherGrown ==
    ASSUME TypeOK, NEW r, SubscribeStep(r) \/ AttemptStep(r) \/ EndStep(r)
    PROVE  Grown
  <1> USE DEF rowVars, columnVars, requestVars, syncVars, metaVars, Set, Grown
  <1>1. CASE FindOwnPage(r) \/ AskMeta(r) \/ SaveSubscription(r) \/ FindOwner(r)
    BY <1>1 DEF FindOwnPage, AskMeta, SaveSubscription, FindOwner
  <1>2. CASE FetchLead(r)
    BY <1>2 DEF FetchLead, Ends
  <1>3. CASE Commit(r)
    <2>1. \A q \in Founders : userRow[q] = "there" => userRow'[q] = "there"
      BY <1>3 DEF Commit
    <2>2. \A c \in Callbacks : accountRow[c] = "there" => accountRow'[c] = "there"
      BY <1>3 DEF Commit
    <2>3. \A x \in PageRows : pageRow[x] = "there" => pageRow'[x] = "there"
      BY <1>3 DEF Commit
    <2> QED BY <1>3, <2>1, <2>2, <2>3 DEF Commit
  <1>4. CASE Reply(r)
    BY <1>4 DEF Reply, Ends
  <1>5. CASE MetaFails(r)
    BY <1>5, RaisesGrown, FaultGrown DEF MetaFails
  <1>6. CASE CutOff(r)
    BY <1>6, RaisesGrown, FaultGrown DEF CutOff
  <1> QED BY <1>1, <1>2, <1>3, <1>4, <1>5, <1>6 DEF SubscribeStep, AttemptStep, EndStep

LEMMA StepGrown ==
    ASSUME IInv, [Next]_vars
    PROVE  Grown
  <1>1. CASE UNCHANGED vars
    BY <1>1 DEF Grown, vars, rowVars, columnVars, requestVars, metaVars
  <1> QED BY <1>1, Steps, FounderGrown, SyncGrown, OtherGrown DEF IInv

LEMMA StepPassive ==
    ASSUME IInv, [Next]_vars, NEW q \in Requests
    PROVE  \/ Passive(q)
           \/ FounderStep(q) \/ SyncStep(q) \/ SubscribeStep(q) \/ AttemptStep(q) \/ EndStep(q)
  <1>1. CASE UNCHANGED vars
    BY <1>1 DEF Passive, vars, rowVars, requestVars, syncVars, metaVars
  <1> QED BY <1>1, Steps, FounderPassive, SyncPassive, OtherPassive DEF IInv

-----------------------------------------------------------------------------
(* Users                                                                   *)

LEMMA EndRows ==
    ASSUME TypeOK, NEW r, EndStep(r)
    PROVE  /\ \A q \in Founders : userRow[q] = "none" => userRow'[q] = "none"
           /\ \A c \in Callbacks : accountRow[c] = "none" => accountRow'[c] = "none"
           /\ \A x \in PageRows : pageRow[x] = "none" => pageRow'[x] = "none"
  <1>1. CASE Commit(r)
    BY <1>1 DEF Commit
  <1>2. CASE Reply(r)
    BY <1>2 DEF Reply, Ends, rowVars
  <1>3. CASE MetaFails(r) \/ CutOff(r)
    BY <1>3, RaisesGrown DEF MetaFails, CutOff
  <1> QED BY <1>1, <1>2, <1>3 DEF EndStep

\* A user appears by an INSERT of its own request, which sees no other with its
\* email.
LEMMA NewUser ==
    ASSUME IInv, [Next]_vars, NEW q \in Founders, userRow[q] = "none", userRow'[q] # "none"
    PROVE  InsertUser(q) /\ UsersWith(email[q]) = {}
  <1> USE DEF rowVars
  <1>1. TypeOK /\ q \in Requests
    BY Kinds DEF IInv
  <1>2. FounderStep(q) \/ EndStep(q)
    BY <1>1, Kinds, StepPassive DEF Passive, SyncStep, SubscribeStep, AttemptStep
  <1>3. FounderStep(q)
    BY <1>1, <1>2, EndRows
  <1>4. InsertUser(q) \/ InsertAccount(q)
    BY <1>3 DEF FounderStep, SignIn, AskFacebook, Submit, FindUser, UpdateUser, FindAccount, UpdateAccount
  <1>5. ~ Raises(q, "error")
    BY <1>1, RaisesGrown
  <1> QED BY <1>4, <1>5 DEF InsertUser, InsertAccount

LEMMA NewAccount ==
    ASSUME IInv, [Next]_vars, NEW c \in Callbacks, accountRow[c] = "none", accountRow'[c] # "none"
    PROVE  InsertAccount(c) /\ AccountsFor(For[c]) = {}
  <1> USE DEF rowVars
  <1>1. TypeOK /\ c \in Requests /\ c \in Founders
    BY Kinds DEF IInv
  <1>2. FounderStep(c) \/ EndStep(c)
    BY <1>1, Kinds, StepPassive DEF Passive, SyncStep, SubscribeStep, AttemptStep
  <1>3. FounderStep(c)
    BY <1>1, <1>2, EndRows
  <1>4. InsertUser(c) \/ InsertAccount(c)
    BY <1>3 DEF FounderStep, SignIn, AskFacebook, Submit, FindUser, UpdateUser, FindAccount, UpdateAccount
  <1>5. ~ Raises(c, "error")
    BY <1>1, RaisesGrown
  <1> QED BY <1>4, <1>5 DEF InsertUser, InsertAccount

LEMMA UniqueNext ==
    ASSUME IInv, [Next]_vars
    PROVE  Unique'
  <1> USE DEF Set
  <1>1. TypeOK /\ Unique /\ Grown
    BY StepGrown DEF IInv
  <1>2. ASSUME NEW q \in Founders, NEW r \in Founders, userRow[q] = "none",
               userRow'[q] # "none", userRow'[r] # "none", email'[q] = email'[r], q # r
        PROVE  FALSE
    <2>1. InsertUser(q) /\ UsersWith(email[q]) = {}
      BY <1>2, NewUser
    <2>2. userRow' = [userRow EXCEPT ![q] = "open"] /\ email' = email
      BY <2>1 DEF InsertUser, requestVars
    <2>3. userRow[r] # "none" /\ email[r] = email[q]
      BY <1>1, <1>2, <2>2 DEF TypeOK
    <2>4. userRow[r] # "open"
      BY <2>1, <2>3 DEF InsertUser
    <2>5. userRow[r] = "there"
      BY <1>1, <2>3, <2>4 DEF TypeOK, RowStates
    <2> QED BY <2>1, <2>3, <2>5 DEF UsersWith
  <1>3. ASSUME NEW q \in Founders, NEW r \in Founders, userRow'[q] # "none",
               userRow'[r] # "none", email'[q] = email'[r]
        PROVE  q = r
    <2>1. (userRow[q] # "none" /\ userRow[r] # "none") \/ q = r
      BY <1>2, <1>3
    <2> QED BY <1>1, <1>3, <2>1 DEF Grown, Unique
  <1>4. ASSUME NEW c \in Callbacks, NEW d \in Callbacks, accountRow[c] = "none",
               accountRow'[c] # "none", accountRow'[d] # "none", For[c] = For[d], c # d
        PROVE  FALSE
    <2>1. InsertAccount(c) /\ AccountsFor(For[c]) = {}
      BY <1>4, NewAccount
    <2>2. accountRow' = [accountRow EXCEPT ![c] = "open"]
      BY <2>1 DEF InsertAccount
    <2>3. accountRow[d] # "none"
      BY <1>1, <1>4, <2>2 DEF TypeOK
    <2>4. accountRow[d] # "open"
      BY <1>4, <2>1, <2>3 DEF InsertAccount
    <2>5. accountRow[d] = "there"
      BY <1>1, <2>3, <2>4 DEF TypeOK, RowStates
    <2> QED BY <1>4, <2>1, <2>3, <2>5 DEF AccountsFor
  <1>5. ASSUME NEW c \in Callbacks, NEW d \in Callbacks, accountRow'[c] # "none",
               accountRow'[d] # "none", For[c] = For[d]
        PROVE  c = d
    <2>1. (accountRow[c] # "none" /\ accountRow[d] # "none") \/ c = d
      BY <1>4, <1>5
    <2> QED BY <1>1, <1>5, <2>1 DEF Unique
  <1> QED BY <1>3, <1>5 DEF Unique

\* Request r answers an error, and nothing of it is left.
LEMMA RaisesOwn ==
    ASSUME TypeOK, NEW r \in Requests, NEW a, Raises(r, a)
    PROVE  /\ stage'[r] = "done" /\ answer'[r] = a
           /\ r \in Founders => userRow'[r] # "open"
           /\ r \in Callbacks => accountRow'[r] # "open"
  BY DEF Raises, Rollback, Answers, Goto, TypeOK

LEMMA SigningInNext ==
    ASSUME IInv, [Next]_vars, NEW r \in Founders
    PROVE  SigningIn(r)'
  <1> USE DEF rowVars, columnVars, requestVars, syncVars, metaVars, Set
  <1>1. TypeOK /\ TypeOK' /\ SigningIn(r) /\ Grown /\ r \in Requests /\ None \notin Founders
    BY StepGrown, TypeNext, Kinds DEF IInv
  <1>2. ASSUME stage'[r] = "done", userRow'[r] # "open" PROVE SigningIn(r)'
    BY <1>2 DEF SigningIn, UnderWay
  <1>3. ASSUME NEW a, Raises(r, a) PROVE SigningIn(r)'
    BY <1>1, <1>2, <1>3, RaisesOwn
  <1>4. ASSUME user'[r] = user[r], email'[r] = email[r], userRow'[r] = userRow[r]
        PROVE  user[r] # None /\ (user[r] \in UsersWith(email[r]) \/ (user[r] = r /\ userRow[r] = "open"))
                  => user'[r] \in UsersWith(email[r])' \/ (user'[r] = r /\ userRow'[r] = "open")
    BY <1>1, <1>4 DEF UsersWith, Grown
  <1>5. CASE Passive(r)
    BY <1>1, <1>4, <1>5 DEF SigningIn, Passive, UnderWay
  <1>6. CASE AskFacebook(r) \/ Submit(r)
    BY <1>1, <1>6 DEF SigningIn, AskFacebook, Submit, Goto, TypeOK
  <1>7. CASE FindUser(r)
    <2>1. userRow'[r] # "open" /\ stage'[r] \in {"done", "foundUser"}
      BY <1>1, <1>7 DEF SigningIn, FindUser, Goto, Answers, TypeOK
    <2>2. user'[r] # None => user'[r] \in UsersWith(email[r])'
      <3>1. user'[r] = OneOf(UsersWith(email[r]))
        BY <1>1, <1>7 DEF FindUser, TypeOK
      <3>2. user'[r] # None => user'[r] \in UsersWith(email[r])
        BY <3>1, OneOfType
      <3>3. UNCHANGED <<userRow, email>>
        BY <1>7 DEF FindUser
      <3> QED BY <3>2, <3>3 DEF UsersWith
    <2> QED BY <2>1, <2>2 DEF SigningIn, UnderWay
  <1>8. CASE InsertUser(r)
    <2>1. CASE UsersWith(email[r]) = {}
      <3>1. userRow'[r] = "open" /\ user'[r] = r /\ stage'[r] \in {"savedUser", "saved"}
        BY <1>1, <1>8, <2>1 DEF InsertUser, TypeOK, Goto
      <3> QED BY <1>1, <3>1, Kinds DEF SigningIn
    <2>2. CASE UsersWith(email[r]) # {}
      BY <1>3, <1>8, <2>2 DEF InsertUser
    <2> QED BY <2>1, <2>2
  <1>9. CASE UpdateUser(r) \/ FindAccount(r) \/ UpdateAccount(r)
    <2>1. /\ user'[r] = user[r] /\ email'[r] = email[r] /\ userRow'[r] = userRow[r]
          /\ stage[r] \in {"foundUser", "savedUser", "foundAccount"} /\ user[r] # None
          /\ stage'[r] \in {"savedUser", "foundAccount", "saved"}
      BY <1>1, <1>9 DEF UpdateUser, FindAccount, UpdateAccount, Goto, TypeOK, SigningIn
    <2> QED BY <1>1, <1>4, <2>1 DEF SigningIn, UnderWay
  <1>10. CASE r \in Callbacks /\ InsertAccount(r)
    <2>1. CASE AccountsFor(For[r]) = {}
      <3>1. /\ user'[r] = user[r] /\ email'[r] = email[r] /\ userRow'[r] = userRow[r]
            /\ stage[r] = "foundAccount" /\ stage'[r] = "saved"
        BY <1>1, <1>10, <2>1 DEF InsertAccount, Goto, TypeOK
      <3> QED BY <1>1, <1>4, <3>1 DEF SigningIn, UnderWay
    <2>2. CASE AccountsFor(For[r]) # {}
      BY <1>3, <1>10, <2>2 DEF InsertAccount
    <2> QED BY <2>1, <2>2
  <1>11. CASE Commit(r)
    <2>1. /\ stage[r] = "saved" /\ stage'[r] = "committed" /\ userRow'[r] # "open"
          /\ user'[r] = user[r] /\ email' = email
      BY <1>1, <1>11 DEF Commit, Goto, TypeOK, Founders
    <2>2. user[r] # None /\ (user[r] \in UsersWith(email[r]) \/ (user[r] = r /\ userRow[r] = "open"))
      BY <1>1, <2>1 DEF SigningIn, UnderWay
    <2>3. user[r] \in Founders /\ userRow'[user[r]] = "there" /\ email[user[r]] = email[r]
      BY <1>1, <1>11, <2>2 DEF UsersWith, Grown, Commit
    <2> QED BY <2>1, <2>2, <2>3 DEF SigningIn, UsersWith
  <1>12. CASE Reply(r)
    <2>1. stage[r] = "committed" /\ stage'[r] = "done" /\ userRow'[r] = userRow[r]
      BY <1>1, <1>12 DEF Reply, Ends, Answers, Goto, TypeOK
    <2> QED BY <1>1, <1>2, <2>1 DEF SigningIn
  <1>13. CASE MetaFails(r) \/ CutOff(r)
    BY <1>3, <1>13 DEF MetaFails, CutOff
  <1>14. Passive(r) \/ FounderStep(r) \/ EndStep(r)
    BY <1>1, StepPassive, Kinds DEF SyncStep, SubscribeStep, AttemptStep
  <1> QED BY <1>5, <1>6, <1>7, <1>8, <1>9, <1>10, <1>11, <1>12, <1>13, <1>14
          DEF FounderStep, SignIn, EndStep

-----------------------------------------------------------------------------
(* Accounts                                                                *)

\* What a callback does in a step.
LEMMA CallbackSteps ==
    ASSUME IInv, [Next]_vars, NEW c \in Callbacks
    PROVE  \/ Passive(c)
           \/ AskFacebook(c) \/ FindUser(c) \/ InsertUser(c) \/ UpdateUser(c)
           \/ FindAccount(c) \/ InsertAccount(c) \/ UpdateAccount(c)
           \/ Commit(c) \/ Reply(c)
           \/ \E a \in {"error", "none"} : Raises(c, a) /\ UNCHANGED <<columnVars, requestVars, alone>>
  <1>1. c \notin Registers /\ c \in Requests
    BY AccountConstants, Kinds
  <1>2. MetaFails(c) \/ CutOff(c) =>
          \E a \in {"error", "none"} : Raises(c, a) /\ UNCHANGED <<columnVars, requestVars, alone>>
    BY DEF MetaFails, CutOff
  <1> QED BY <1>1, <1>2, StepPassive, Kinds
          DEF FounderStep, SignIn, Submit, SyncStep, SubscribeStep, AttemptStep, EndStep

\* An account is linked anew by the commit of a callback, and by nothing else.
LEMMA LinkChange ==
    ASSUME [Next]_vars
    PROVE  \/ UNCHANGED <<link, linked>>
           \/ \E d \in Callbacks : Commit(d)
  <1> USE DEF columnVars
  <1>1. ASSUME NEW r, FounderStep(r) PROVE UNCHANGED <<link, linked>>
    BY <1>1 DEF FounderStep, AskFacebook, Submit, SignIn, FindUser, InsertUser, UpdateUser,
                FindAccount, InsertAccount, UpdateAccount
  <1>2. ASSUME NEW s, SyncStep(s) PROVE UNCHANGED <<link, linked>>
    BY <1>2 DEF SyncStep, BeginSync, Sync, TakeAccount, ListPages, FindPage, FlushPage,
                InsertPages, Deadlocked, AllSynced
  <1>3. ASSUME NEW r, SubscribeStep(r) \/ AttemptStep(r) PROVE UNCHANGED <<link, linked>>
    BY <1>3 DEF SubscribeStep, AttemptStep, FindOwnPage, AskMeta, SaveSubscription, FindOwner, FetchLead
  <1>4. ASSUME NEW r, EndStep(r)
        PROVE  UNCHANGED <<link, linked>> \/ (r \in Callbacks /\ Commit(r))
    BY <1>4 DEF EndStep, Commit, Reply, MetaFails, CutOff
  <1> QED BY <1>1, <1>2, <1>3, <1>4, Steps DEF vars

\* What the commit of callback d makes of the account it works for.
LEMMA CommitLink ==
    ASSUME IInv, NEW d \in Callbacks, Commit(d)
    PROVE  /\ row[d] \in Callbacks /\ For[row[d]] = For[d] /\ user[d] \in Founders
           /\ accountRow'[row[d]] = "there"
           /\ link' = [link EXCEPT ![row[d]] = LinkOf(d)]
           /\ LinkOf(d).token = d
           /\ linked' = linked \cup {<<link'[row[d]].user, row[d]>>}
           /\ \A c \in Callbacks \ {row[d]} : accountRow'[c] = "there" => accountRow[c] = "there"
           /\ UnderWay(d)
  <1> USE DEF Set
  <1>1. TypeOK /\ Linking(d) /\ SigningIn(d) /\ d \in Requests /\ d \in Founders
    BY Kinds DEF IInv
  <1>2. stage[d] = "saved"
    BY DEF Commit
  <1>3. row[d] \in Callbacks /\ user[d] \in Founders
    BY <1>1, <1>2, Kinds DEF Linking, SigningIn, TypeOK
  <1>4. row[d] \in AccountsFor(For[d]) \/ (row[d] = d /\ accountRow[d] = "open")
    BY <1>1, <1>2, <1>3, Kinds DEF Linking
  <1>5. For[row[d]] = For[d] /\ accountRow'[row[d]] = "there"
    BY <1>3, <1>4 DEF AccountsFor, Commit
  <1>6. LinkOf(d).token = d
    BY <1>1, <1>3 DEF LinkOf, TypeOK
  <1>7. \A c \in Callbacks \ {row[d]} : accountRow'[c] = "there" => accountRow[c] = "there"
    BY <1>1 DEF Commit, Linking
  <1> QED BY <1>2, <1>3, <1>5, <1>6, <1>7 DEF Commit, UnderWay

\* The part of Linking(c) that callback c itself sees to.
Placed(c) ==
    /\ row[c] \in Callbacks \cup {None}
    /\ stage[c] \in {"foundAccount", "saved", "committed"} /\ row[c] # None =>
          row[c] \in AccountsFor(For[c]) \/ (row[c] = c /\ accountRow[c] = "open")
    /\ stage[c] \in {"saved", "committed"} => row[c] # None
    /\ accountRow[c] = "open" => stage[c] = "saved" /\ row[c] = c

LEMMA PlacedNext ==
    ASSUME IInv, [Next]_vars, NEW c \in Callbacks
    PROVE  Placed(c)'
  <1> USE DEF rowVars, columnVars, requestVars, syncVars, metaVars, Set
  <1>1. /\ TypeOK /\ TypeOK' /\ Linking(c) /\ Grown /\ c \in Requests /\ c \in Founders
        /\ None \notin Callbacks /\ None \notin Founders
    BY StepGrown, TypeNext, Kinds DEF IInv
  <1>3. Placed(c)
    BY <1>1 DEF Linking, Placed
  <1>4. ASSUME row'[c] = row[c], stage'[c] \notin {"foundAccount", "saved", "committed"},
               accountRow'[c] # "open"
        PROVE  Placed(c)'
    BY <1>3, <1>4 DEF Placed
  <1>5. ASSUME row'[c] = row[c], accountRow'[c] = accountRow[c], row[c] # None,
               row[c] \in AccountsFor(For[c]) \/ (row[c] = c /\ accountRow[c] = "open")
        PROVE  row'[c] \in AccountsFor(For[c])' \/ (row'[c] = c /\ accountRow'[c] = "open")
    BY <1>1, <1>5 DEF AccountsFor, Grown
  <1>6. CASE Passive(c)
    BY <1>3, <1>5, <1>6 DEF Passive, Placed
  <1>7. CASE AskFacebook(c) \/ FindUser(c) \/ UpdateUser(c)
    <2>1. /\ row'[c] = row[c] /\ accountRow'[c] = accountRow[c]
          /\ stage'[c] \notin {"foundAccount", "saved", "committed"} /\ stage[c] # "saved"
      BY <1>1, <1>7 DEF AskFacebook, FindUser, UpdateUser, Goto, Answers, TypeOK
    <2> QED BY <1>3, <1>4, <2>1 DEF Placed
  <1>8. ASSUME NEW a, Raises(c, a), row'[c] = row[c] PROVE Placed(c)'
    BY <1>1, <1>4, <1>8, RaisesOwn
  <1>9. CASE InsertUser(c)
    <2>1. CASE UsersWith(email[c]) = {}
      <3>1. /\ row'[c] = row[c] /\ accountRow'[c] = accountRow[c] /\ stage[c] = "foundUser"
            /\ stage'[c] = "savedUser"
        BY <1>1, <1>9, <2>1 DEF InsertUser, Goto, TypeOK
      <3> QED BY <1>3, <1>4, <3>1 DEF Placed
    <2>2. CASE UsersWith(email[c]) # {}
      BY <1>8, <1>9, <2>2 DEF InsertUser
    <2> QED BY <2>1, <2>2
  <1>10. CASE FindAccount(c)
    <2>1. /\ row'[c] = OneOf(AccountsFor(For[c])) /\ accountRow' = accountRow
          /\ stage[c] = "savedUser" /\ stage'[c] = "foundAccount"
      BY <1>1, <1>10 DEF FindAccount, Goto, TypeOK
    <2>2. row'[c] \in AccountsFor(For[c]) \cup {None}
      BY <2>1, OneOfType
    <2> QED BY <1>3, <2>1, <2>2 DEF AccountsFor, Placed
  <1>11. CASE InsertAccount(c)
    <2>1. CASE AccountsFor(For[c]) = {}
      <3>1. row'[c] = c /\ accountRow'[c] = "open" /\ stage'[c] = "saved"
        BY <1>1, <1>11, <2>1 DEF InsertAccount, Goto, TypeOK
      <3> QED BY <1>1, <3>1 DEF Placed
    <2>2. CASE AccountsFor(For[c]) # {}
      BY <1>8, <1>11, <2>2 DEF InsertAccount
    <2> QED BY <2>1, <2>2
  <1>12. CASE UpdateAccount(c)
    <2>1. /\ row'[c] = row[c] /\ accountRow'[c] = accountRow[c] /\ stage[c] = "foundAccount"
          /\ row[c] # None /\ stage'[c] = "saved"
      BY <1>1, <1>12 DEF UpdateAccount, Goto, TypeOK
    <2> QED BY <1>3, <1>5, <2>1 DEF Placed
  <1>13. CASE Commit(c)
    <2>1. stage'[c] = "committed" /\ row'[c] = row[c] /\ accountRow'[c] # "open"
      BY <1>1, <1>13 DEF Commit, Goto, TypeOK
    <2>2. row[c] \in Callbacks /\ For[row[c]] = For[c] /\ accountRow'[row[c]] = "there"
      BY <1>13, CommitLink
    <2> QED BY <1>1, <2>1, <2>2 DEF AccountsFor, Placed
  <1>14. CASE Reply(c)
    <2>1. /\ row'[c] = row[c] /\ accountRow'[c] = accountRow[c] /\ stage[c] = "committed"
          /\ stage'[c] = "done"
      BY <1>1, <1>14 DEF Reply, Ends, Answers, Goto, TypeOK
    <2> QED BY <1>3, <1>4, <2>1 DEF Placed
  <1>15. CASE \E a \in {"error", "none"} : Raises(c, a) /\ UNCHANGED <<columnVars, requestVars, alone>>
    BY <1>8, <1>15
  <1> QED BY <1>6, <1>7, <1>9, <1>10, <1>11, <1>12, <1>13, <1>14, <1>15, CallbackSteps

LEMMA LinkingNext ==
    ASSUME IInv, [Next]_vars, NEW c \in Callbacks
    PROVE  Linking(c)'
  <1> USE DEF rowVars, columnVars, requestVars, syncVars, metaVars, Set
  <1>1. /\ TypeOK /\ TypeOK' /\ Linking(c) /\ Grown /\ c \in Requests /\ c \in Founders
        /\ None \notin Callbacks /\ None \notin Founders
    BY StepGrown, TypeNext, Kinds DEF IInv
  <1>2. /\ accountRow'[c] = "there" => <<link'[c].user, c>> \in linked'
        /\ For[link'[c].token] = For[c]
        /\ \A u \in Founders : <<u, c>> \in linked' => accountRow'[c] = "there"
    <2>1. CASE \E d \in Callbacks : Commit(d)
      <3>1. PICK d \in Callbacks : Commit(d)
        BY <2>1
      <3>2. CASE c = row[d]
        BY <1>1, <3>1, <3>2, CommitLink DEF TypeOK
      <3>3. CASE c # row[d]
        <4>1. link'[c] = link[c] /\ (accountRow'[c] = "there" => accountRow[c] = "there")
          BY <1>1, <3>1, <3>3, CommitLink DEF TypeOK
        <4>2. \A u \in Founders : <<u, c>> \in linked' => <<u, c>> \in linked
          BY <3>1, <3>3, CommitLink
        <4> QED BY <1>1, <4>1, <4>2 DEF Linking, Grown
      <3> QED BY <3>2, <3>3
    <2>2. CASE ~ \E d \in Callbacks : Commit(d)
      <3>1. UNCHANGED <<link, linked>>
        BY <2>2, LinkChange
      <3>2. accountRow'[c] = "there" => accountRow[c] = "there"
        <4>1. CASE Passive(c)
          BY <4>1 DEF Passive
        <4>2. CASE InsertAccount(c) \/ InsertUser(c)
          BY <1>1, <4>2 DEF InsertAccount, InsertUser, Raises, Rollback, TypeOK
        <4>3. ASSUME NEW a, Raises(c, a) PROVE accountRow'[c] = "there" => accountRow[c] = "there"
          BY <1>1, <4>3 DEF Raises, Rollback, TypeOK
        <4> QED BY <2>2, <4>1, <4>2, <4>3, CallbackSteps
                DEF AskFacebook, FindUser, UpdateUser, FindAccount, UpdateAccount, Reply, Ends
      <3> QED BY <1>1, <3>1, <3>2 DEF Linking, Grown
    <2> QED BY <2>1, <2>2
  <1> QED BY <1>2, PlacedNext DEF Linking, Placed

\* A callback begins by asking Facebook.
LEMMA Wakes ==
    ASSUME IInv, [Next]_vars, NEW d \in Callbacks, ~ UnderWay(d), UnderWay(d)'
    PROVE  AskFacebook(d)
  <1>1. TypeOK /\ d \in Requests
    BY Kinds DEF IInv
  <1>2. stage[d] \in {"idle", "done"} /\ stage'[d] \notin {"idle", "done"}
    BY DEF UnderWay
  <1>3. ~ \E a : Raises(d, a)
    BY <1>1, <1>2, RaisesOwn
  <1> QED BY <1>2, <1>3, CallbackSteps
          DEF Passive, FindUser, InsertUser, UpdateUser, FindAccount, InsertAccount, UpdateAccount,
              Commit, Reply

\* What a callback that asks Facebook does to those alone.
LEMMA AskAlone ==
    ASSUME IInv, NEW d \in Callbacks, AskFacebook(d), NEW c \in Callbacks, c \in alone'
    PROVE  /\ c # d => c \in alone /\ For[c] # For[d]
           /\ c = d => \A b \in Callbacks \ {c} : For[b] = For[c] => ~ UnderWay(b)
  <1> DEFINE others == {b \in Callbacks \ {d} : For[b] = For[d]}
             met == \E b \in others : UnderWay(b)
  <1>1. alone' = (alone \ others) \cup (IF met THEN {} ELSE {d})
    BY DEF AskFacebook
  <1>2. c # d => c \in alone /\ c \notin others
    BY <1>1
  <1>3. c = d => ~ met
    <2>1. d \notin alone
      BY DEF IInv, Alone, AskFacebook
    <2> QED BY <1>1, <2>1
  <1>4. ASSUME c # d PROVE c \in alone /\ For[c] # For[d]
    BY <1>2, <1>4
  <1>5. ASSUME c = d, NEW b \in Callbacks \ {c}, For[b] = For[c] PROVE ~ UnderWay(b)
    <2>1. b \in others
      BY <1>5
    <2> QED BY <1>3, <1>5, <2>1
  <1> QED BY <1>4, <1>5

\* Nothing else changes who is alone.
LEMMA AloneChange ==
    ASSUME [Next]_vars
    PROVE  alone' = alone \/ \E d \in Callbacks : AskFacebook(d)
  <1>1. ASSUME NEW r, FounderStep(r)
        PROVE  alone' = alone \/ (r \in Callbacks /\ AskFacebook(r))
    BY <1>1 DEF FounderStep, AskFacebook, Submit, SignIn, FindUser, InsertUser, UpdateUser,
                FindAccount, InsertAccount, UpdateAccount
  <1>2. ASSUME NEW s, SyncStep(s) PROVE alone' = alone
    BY <1>2 DEF SyncStep, BeginSync, Sync, TakeAccount, ListPages, FindPage, FlushPage,
                InsertPages, Deadlocked, AllSynced
  <1>3. ASSUME NEW r, SubscribeStep(r) \/ AttemptStep(r) PROVE alone' = alone
    BY <1>3 DEF SubscribeStep, AttemptStep, FindOwnPage, AskMeta, SaveSubscription, FindOwner, FetchLead
  <1>4. ASSUME NEW r, EndStep(r) PROVE alone' = alone
    BY <1>4 DEF EndStep, Commit, Reply, MetaFails, CutOff
  <1> QED BY <1>1, <1>2, <1>3, <1>4, Steps DEF vars

\* The account of a callback that is alone is linked by no other.
LEMMA LinkStays ==
    ASSUME IInv, [Next]_vars, NEW c \in Callbacks, c \in alone, ~ Commit(c),
           NEW a \in Callbacks, For[a] = For[c]
    PROVE  link'[a] = link[a]
  <1>1. CASE UNCHANGED <<link, linked>>
    BY <1>1
  <1>2. ASSUME NEW d \in Callbacks, Commit(d) PROVE link'[a] = link[a]
    <2>1. For[row[d]] = For[d] /\ UnderWay(d) /\ link' = [link EXCEPT ![row[d]] = LinkOf(d)]
      BY <1>2, CommitLink
    <2>2. d # c
      BY <1>2
    <2>3. For[d] # For[c]
      BY <2>1, <2>2 DEF IInv, Alone
    <2>4. row[d] # a
      BY <2>1, <2>3
    <2> QED BY <2>1, <2>4 DEF IInv, TypeOK
  <1> QED BY <1>1, <1>2, LinkChange

LEMMA AloneNext ==
    ASSUME IInv, [Next]_vars, NEW c \in Callbacks
    PROVE  Alone(c)'
  <1> USE DEF rowVars, columnVars, requestVars, syncVars, metaVars, Set
  <1>1. /\ TypeOK /\ TypeOK' /\ Linking(c) /\ Alone(c) /\ Grown /\ c \in Requests /\ c \in Founders
        /\ None \notin Callbacks /\ None \notin Founders
        /\ (answer[c] # "none" => stage[c] = "done")
    BY StepGrown, TypeNext, Kinds DEF IInv
  <1> SUFFICES ASSUME c \in alone' PROVE Alone(c)'
    BY DEF Alone
  <1>2. ASSUME NEW d \in Callbacks \ {c}, For[d] = For[c] PROVE ~ UnderWay(d)'
    <2>1. CASE AskFacebook(c)
      <3>1. ~ UnderWay(d)
        BY <1>1, <1>2, <2>1, AskAlone
      <3>2. stage'[d] = stage[d]
        BY <2>1 DEF AskFacebook, Goto, IInv, TypeOK
      <3> QED BY <3>1, <3>2 DEF UnderWay
    <2>2. CASE ~ AskFacebook(c)
      <3>1. c \in alone /\ ~ AskFacebook(d)
        BY <1>1, <1>2, <2>2, AskAlone, AloneChange
      <3>2. ~ UnderWay(d)
        BY <1>1, <1>2, <3>1 DEF Alone
      <3> QED BY <3>1, <3>2, Wakes
    <2> QED BY <2>1, <2>2
  <1>3. CASE AskFacebook(c)
    <2>1. stage'[c] = "known" /\ answer'[c] = answer[c] /\ answer[c] = "none"
      BY <1>1, <1>3 DEF AskFacebook, Goto, TypeOK
    <2> QED BY <1>2, <2>1 DEF Alone
  <1>4. CASE ~ AskFacebook(c)
    <2>1. c \in alone
      BY <1>1, <1>4, AskAlone, AloneChange
    <2>2. stage'[c] \in {"foundAccount", "saved"} /\ row'[c] \notin {None, c} =>
             link'[row'[c]].user = loaded'[c]
      <3> SUFFICES ASSUME stage'[c] \in {"foundAccount", "saved"}, row'[c] \notin {None, c}
                   PROVE  link'[row'[c]].user = loaded'[c]
        OBVIOUS
      <3>1. ~ (\E a : Raises(c, a)) /\ ~ Commit(c)
        <4>1. ~ \E a : Raises(c, a)
          BY <1>1, RaisesOwn
        <4>2. ~ Commit(c)
          BY <1>1 DEF Commit, Goto, TypeOK
        <4> QED BY <4>1, <4>2
      <3>2. CASE FindAccount(c)
        BY <1>1, <3>2 DEF FindAccount, TypeOK
      <3>3. CASE ~ FindAccount(c)
        <4>1. /\ stage[c] \in {"foundAccount", "saved"} /\ row'[c] = row[c] /\ loaded'[c] = loaded[c]
          <5>1. CASE Passive(c)
            BY <5>1 DEF Passive
          <5>2. CASE UpdateAccount(c)
            BY <5>2 DEF UpdateAccount
          <5>3. ~ (FindUser(c) \/ InsertUser(c) \/ UpdateUser(c) \/ Reply(c))
            BY <1>1, <3>1, AccountConstants
               DEF FindUser, InsertUser, UpdateUser, Reply, Ends, Answers, Goto, TypeOK
          <5>4. ~ InsertAccount(c)
            BY <1>1, <3>1 DEF InsertAccount, TypeOK
          <5> QED BY <1>4, <3>1, <3>3, <5>1, <5>2, <5>3, <5>4, CallbackSteps
        <4>2. link[row[c]].user = loaded[c] /\ row[c] \in Callbacks
          BY <1>1, <2>1, <4>1 DEF Alone, Linking
        <4>3. For[row[c]] = For[c]
          BY <1>1, <4>1, <4>2 DEF Linking, AccountsFor
        <4>4. link'[row[c]] = link[row[c]]
          BY <2>1, <3>1, <4>2, <4>3, LinkStays
        <4> QED BY <4>1, <4>2, <4>4
      <3> QED BY <3>2, <3>3
    <2>3. stage'[c] = "committed" \/ answer'[c] = "ok" => Holds(c)'
      <3> SUFFICES ASSUME stage'[c] = "committed" \/ answer'[c] = "ok" PROVE Holds(c)'
        OBVIOUS
      <3>1. CASE Commit(c)
        <4>1. /\ row[c] \in Callbacks /\ For[row[c]] = For[c] /\ user[c] \in Founders
              /\ accountRow'[row[c]] = "there" /\ link'[row[c]] = LinkOf(c) /\ LinkOf(c).token = c
          BY <1>1, <3>1, CommitLink DEF TypeOK
        <4>2. stage[c] = "saved"
          BY <3>1 DEF Commit
        <4>3. LinkOf(c).user = user[c]
          BY <1>1, <2>1, <4>1, <4>2 DEF LinkOf, Alone, TypeOK
        <4>4. user[c] \in UsersWith(email[c])'
          <5>1. stage'[c] = "committed" /\ user'[c] = user[c] /\ email'[c] = email[c]
            BY <1>1, <3>1 DEF Commit, Goto, TypeOK
          <5>2. user'[c] \in UsersWith(email[c])'
            BY <1>1, <4>1, <5>1, SigningInNext DEF SigningIn, UnderWay
          <5> QED BY <5>1, <5>2
        <4> QED BY <4>1, <4>3, <4>4 DEF Holds, AccountsFor
      <3>2. CASE ~ Commit(c)
        <4>1. Holds(c) /\ email'[c] = email[c]
          <5>1. ~ \E a \in {"error", "none"} : Raises(c, a)
            BY <1>1, RaisesOwn
          <5>2. CASE Passive(c)
            BY <1>1, <2>1, <5>2 DEF Passive, Alone
          <5>3. CASE Reply(c)
            BY <1>1, <2>1, <5>3 DEF Reply, Alone
          <5>4. ~ (FindUser(c) \/ InsertUser(c) \/ UpdateUser(c) \/ FindAccount(c)
                   \/ InsertAccount(c) \/ UpdateAccount(c))
            BY <1>1, <5>1, AccountConstants
               DEF FindUser, InsertUser, UpdateUser, FindAccount, InsertAccount, UpdateAccount,
                   Goto, TypeOK
          <5> QED BY <1>4, <3>2, <5>1, <5>2, <5>3, <5>4, CallbackSteps
        <4>2. PICK a \in AccountsFor(For[c]) : link[a].token = c /\ link[a].user \in UsersWith(email[c])
          BY <4>1 DEF Holds
        <4>3. a \in Callbacks /\ link'[a] = link[a]
          BY <2>1, <3>2, <4>2, LinkStays DEF AccountsFor
        <4>4. a \in AccountsFor(For[c])' /\ link[a].user \in UsersWith(email[c])'
          BY <1>1, <4>1, <4>2 DEF AccountsFor, UsersWith, Grown
        <4> QED BY <4>2, <4>3, <4>4 DEF Holds
      <3> QED BY <3>1, <3>2
    <2>4. stage'[c] # "idle"
      <3>1. stage[c] # "idle"
        BY <1>1, <2>1 DEF Alone
      <3>2. ASSUME NEW a, Raises(c, a) PROVE stage'[c] # "idle"
        BY <1>1, <3>2, RaisesOwn
      <3>3. CASE InsertUser(c) \/ InsertAccount(c)
        BY <1>1, <3>2, <3>3 DEF InsertUser, InsertAccount, Goto, TypeOK
      <3> QED BY <1>1, <1>4, <3>1, <3>2, <3>3, CallbackSteps
              DEF Passive, FindUser, UpdateUser, FindAccount, UpdateAccount, Commit, Reply, Ends,
                  Answers, Goto, TypeOK
    <2> QED BY <1>2, <2>1, <2>2, <2>3, <2>4 DEF Alone
  <1> QED BY <1>3, <1>4

-----------------------------------------------------------------------------
(* Syncs and pages                                                         *)

LEMMA SyncingNext ==
    ASSUME IInv, [Next]_vars, NEW s \in Syncs
    PROVE  Syncing(s)'
  <1> USE DEF rowVars, columnVars, requestVars, syncVars, metaVars, Set
  <1>1. /\ TypeOK /\ TypeOK' /\ Syncing(s) /\ Grown /\ s \in Requests
    BY StepGrown, TypeNext, Kinds DEF IInv
  <1>2. ASSUME todo'[s] \subseteq todo[s] PROVE \A a \in todo'[s] : accountRow'[a] = "there"
    BY <1>1, <1>2 DEF Syncing, Grown, TypeOK
  <1>3. CASE Passive(s)
    <2>1. /\ stage'[s] = stage[s] /\ user'[s] = user[s] /\ row'[s] = row[s] /\ todo'[s] = todo[s]
          /\ listed'[s] = listed[s] /\ found'[s] = found[s]
      BY <1>3 DEF Passive
    <2> QED BY <1>1, <1>2, <2>1 DEF Syncing, Grown, UnderWay
  <1>4. ASSUME stage'[s] \in {"saved", "committed", "done"}, todo'[s] \subseteq todo[s],
               user'[s] = user[s], stage'[s] # "done" => UnderWay(s)
        PROVE  Syncing(s)'
    BY <1>1, <1>2, <1>4 DEF Syncing, UnderWay
  <1>5. ASSUME NEW a, Raises(s, a), todo'[s] \subseteq todo[s], user'[s] = user[s]
        PROVE  Syncing(s)'
    BY <1>1, <1>4, <1>5, RaisesOwn
  <1>6. CASE BeginSync(s)
    <2>1. PICK u \in Founders, S \in SUBSET Callbacks :
            /\ user' = [user EXCEPT ![s] = u] /\ todo' = [todo EXCEPT ![s] = S]
            /\ \A a \in S : accountRow[a] = "there"
      <3>1. PICK u \in Founders : /\ user' = [user EXCEPT ![s] = u]
                                 /\ \/ \E a \in Callbacks : accountRow[a] = "there" /\ todo' = [todo EXCEPT ![s] = {a}]
                                    \/ todo' = [todo EXCEPT ![s] = AccountsOf(u)]
        BY <1>6 DEF BeginSync
      <3>2. CASE \E a \in Callbacks : accountRow[a] = "there" /\ todo' = [todo EXCEPT ![s] = {a}]
        <4>1. PICK a \in Callbacks : accountRow[a] = "there" /\ todo' = [todo EXCEPT ![s] = {a}]
          BY <3>2
        <4>2. {a} \in SUBSET Callbacks
          OBVIOUS
        <4> QED BY <3>1, <4>1, <4>2
      <3>3. CASE todo' = [todo EXCEPT ![s] = AccountsOf(u)]
        <4>1. AccountsOf(u) \in SUBSET Callbacks /\ \A a \in AccountsOf(u) : accountRow[a] = "there"
          BY DEF AccountsOf
        <4> QED BY <3>1, <3>3, <4>1
      <3> QED BY <3>1, <3>2, <3>3
    <2>2. user'[s] \in Founders /\ (\A a \in todo'[s] : accountRow'[a] = "there")
      BY <1>1, <1>6, <2>1 DEF TypeOK, BeginSync
    <2>3. stage'[s] = "next" /\ found'[s] = {}
      BY <1>1, <1>6 DEF TypeOK, BeginSync, Goto, Syncing
    <2> QED BY <2>2, <2>3 DEF Syncing
  <1>7. ASSUME NEW a \in Callbacks, TakeAccount(s, a) PROVE Syncing(s)'
    <2>1. /\ todo'[s] = todo[s] \ {a} /\ user' = user /\ found' = found /\ linked' = linked
          /\ row'[s] = a /\ stage[s] = "next" /\ a \in todo[s]
      BY <1>1, <1>7 DEF TypeOK, TakeAccount
    <2>2. CASE Raises(s, "rejected")
      BY <1>5, <2>1, <2>2
    <2>3. CASE ~ Raises(s, "rejected")
      <3>1. link[a].user = user[s] /\ stage'[s] = "listing"
        BY <1>1, <1>7, <2>3 DEF TypeOK, TakeAccount, Goto
      <3>2. <<user[s], a>> \in linked
        BY <1>1, <2>1, <3>1 DEF IInv, Syncing, Linking
      <3> QED BY <1>1, <1>2, <2>1, <3>1, <3>2 DEF Syncing, UnderWay
    <2> QED BY <2>2, <2>3
  <1>8. CASE ListPages(s)
    <2>1. /\ stage[s] = "listing" /\ stage'[s] \in {"next", "finding"}
          /\ listed'[s] = Manages[For[row[s]]] /\ found'[s] = {}
          /\ user' = user /\ row' = row /\ linked' = linked /\ todo' = todo
      BY <1>1, <1>8 DEF TypeOK, ListPages, Goto, Syncing
    <2> QED BY <1>1, <1>2, <2>1 DEF Syncing, UnderWay
  <1>9. ASSUME NEW p \in Pages, FindPage(s, p) PROVE Syncing(s)'
    <2>1. CASE Cardinality(RowsOf(p, s)) > 1
      BY <1>5, <1>9, <2>1 DEF FindPage
    <2>2. CASE ~ (Cardinality(RowsOf(p, s)) > 1)
      <3> DEFINE S == IF RowsOf(p, s) = {} THEN {<<s, p>>} ELSE RowsOf(p, s)
      <3>1. /\ stage[s] = "finding" /\ p \in listed[s] /\ stage'[s] \in {"flushing", "finding"}
            /\ user' = user /\ row' = row /\ linked' = linked /\ todo' = todo
        BY <1>1, <1>9, <2>2 DEF TypeOK, FindPage, Goto
      <3>2. found'[s] \subseteq found[s] \cup S /\ listed'[s] = listed[s] \ {p}
        <4>1. found' = [found EXCEPT ![s] = found[s] \cup S] \/ found' = found
          BY <1>9, <2>2 DEF FindPage
        <4>2. listed' = [listed EXCEPT ![s] = listed[s] \ {p}]
          BY <1>9, <2>2 DEF FindPage
        <4> HIDE DEF S
        <4> QED BY <1>1, <4>1, <4>2 DEF TypeOK
      <3>3. \A x \in S : x[2] = p
        BY DEF RowsOf
      <3> HIDE DEF S
      <3>4. \A q \in listed'[s] \cup {x[2] : x \in found'[s]} : q \in Manages[For[row[s]]]
        BY <1>1, <3>1, <3>2, <3>3 DEF Syncing
      <3> QED BY <1>1, <1>2, <3>1, <3>4 DEF Syncing, UnderWay
    <2> QED BY <2>1, <2>2
  <1>10. ASSUME NEW x \in PageRows, FlushPage(s, x) PROVE Syncing(s)'
    <2>1. /\ stage[s] = "flushing" /\ stage' = stage /\ found'[s] = found[s] \ {x}
          /\ user' = user /\ row' = row /\ linked' = linked /\ todo' = todo /\ listed' = listed
      BY <1>1, <1>10 DEF TypeOK, FlushPage, NextRow
    <2> QED BY <1>1, <1>2, <2>1 DEF Syncing, UnderWay
  <1>11. CASE InsertPages(s)
    <2>1. /\ stage[s] = "flushing" /\ stage'[s] = "next" /\ found'[s] = {}
          /\ user' = user /\ todo' = todo
      BY <1>1, <1>11 DEF TypeOK, InsertPages, Goto
    <2> QED BY <1>1, <1>2, <2>1 DEF Syncing, UnderWay
  <1>12. CASE Deadlocked(s)
    BY <1>5, <1>12 DEF Deadlocked
  <1>13. CASE AllSynced(s)
    <2>1. CASE Raises(s, "error")
      BY <1>5, <1>13, <2>1 DEF AllSynced
    <2>2. CASE ~ Raises(s, "error")
      BY <1>1, <1>4, <1>13, <2>2 DEF AllSynced, Goto, TypeOK, UnderWay
    <2> QED BY <2>1, <2>2
  <1>14. CASE Commit(s)
    BY <1>1, <1>4, <1>14 DEF Commit, Goto, TypeOK, UnderWay
  <1>15. CASE Reply(s)
    BY <1>1, <1>4, <1>15 DEF Reply, Ends, Answers, Goto, TypeOK
  <1>16. CASE MetaFails(s) \/ CutOff(s)
    BY <1>5, <1>16 DEF MetaFails, CutOff
  <1> QED BY <1>1, <1>3, <1>6, <1>7, <1>8, <1>9, <1>10, <1>11, <1>12, <1>13, <1>14, <1>15, <1>16,
             StepPassive, Kinds
          DEF SyncStep, Sync, FounderStep, SubscribeStep, AttemptStep, EndStep

\* A page row appears by the INSERTs of a sync, and keeps its account and user.
LEMMA PageChange ==
    ASSUME IInv, [Next]_vars, NEW x \in PageRows, pageRow'[x] # "none"
    PROVE  \/ pageRow[x] # "none" /\ of'[x] = of[x]
           \/ \E s \in Syncs : InsertPages(s) /\ x \in found[s]
  <1> USE DEF rowVars, columnVars
  <1>1. ASSUME NEW r, FounderStep(r) PROVE pageRow[x] # "none" /\ of'[x] = of[x]
    <2>1. CASE Raises(r, "error")
      BY <1>1, <2>1, RaisesGrown DEF FounderStep, IInv, AskFacebook, Submit, SignIn, FindUser, InsertUser,
             UpdateUser, FindAccount, InsertAccount, UpdateAccount
    <2>2. CASE ~ Raises(r, "error")
      BY <1>1, <2>2 DEF FounderStep, AskFacebook, Submit, SignIn, FindUser, InsertUser, UpdateUser,
             FindAccount, InsertAccount, UpdateAccount
    <2> QED BY <2>1, <2>2
  <1>2. ASSUME NEW s \in Syncs, InsertPages(s)
        PROVE  (pageRow[x] # "none" /\ of'[x] = of[x]) \/ x \in found[s]
    BY <1>2 DEF InsertPages
  <1>3. ASSUME NEW s, SyncStep(s), ~ InsertPages(s) PROVE pageRow[x] # "none" /\ of'[x] = of[x]
    <2>1. \A a : Raises(s, a) => pageRow[x] # "none"
      BY RaisesGrown DEF IInv
    <2> QED BY <1>3, <2>1 DEF SyncStep, BeginSync, Sync, TakeAccount, ListPages, FindPage, FlushPage,
                Deadlocked, AllSynced
  <1>4. ASSUME NEW r, SubscribeStep(r) \/ AttemptStep(r) PROVE pageRow[x] # "none" /\ of'[x] = of[x]
    BY <1>4 DEF SubscribeStep, AttemptStep, FindOwnPage, AskMeta, SaveSubscription, FindOwner,
                FetchLead, Ends
  <1>5. ASSUME NEW r, EndStep(r) PROVE pageRow[x] # "none" /\ of'[x] = of[x]
    <2>1. pageRow[x] # "none"
      BY <1>5, EndRows DEF IInv
    <2> QED BY <1>5, <2>1 DEF EndStep, Commit, Reply, MetaFails, CutOff
  <1> QED BY <1>1, <1>2, <1>3, <1>4, <1>5, Steps DEF vars, SyncStep

LEMMA OwnedNext ==
    ASSUME IInv, [Next]_vars, NEW x \in PageRows, pageRow'[x] # "none"
    PROVE  Owned(x)'
  <1>1. TypeOK /\ Grown
    BY StepGrown DEF IInv
  <1>2. CASE pageRow[x] # "none" /\ of'[x] = of[x]
    BY <1>1, <1>2 DEF IInv, Owned, Grown
  <1>3. ASSUME NEW s \in Syncs, InsertPages(s), x \in found[s] PROVE Owned(x)'
    <2>1. of'[x] = [account |-> row[s], user |-> user[s]] /\ stage[s] = "flushing"
      BY <1>3 DEF InsertPages
    <2>2. <<user[s], row[s]>> \in linked /\ x[2] \in Manages[For[row[s]]]
      BY <1>3, <2>1 DEF IInv, Syncing
    <2> QED BY <1>1, <2>1, <2>2 DEF Owned, Grown
  <1> QED BY <1>2, <1>3, PageChange

-----------------------------------------------------------------------------
(* Subscriptions                                                           *)

\* The marks of pages are written by the commits of requests to subscribe.
LEMMA SubscribedChange ==
    ASSUME [Next]_vars
    PROVE  \/ UNCHANGED subscribed
           \/ \E r \in Subscribes : Commit(r) /\ subscribed' = Marks(r)
  <1> USE DEF columnVars
  <1>1. ASSUME NEW r, FounderStep(r) PROVE UNCHANGED subscribed
    BY <1>1 DEF FounderStep, AskFacebook, Submit, SignIn, FindUser, InsertUser, UpdateUser,
                FindAccount, InsertAccount, UpdateAccount
  <1>2. ASSUME NEW s, SyncStep(s) PROVE UNCHANGED subscribed
    BY <1>2 DEF SyncStep, BeginSync, Sync, TakeAccount, ListPages, FindPage, FlushPage,
                InsertPages, Deadlocked, AllSynced
  <1>3. ASSUME NEW r, SubscribeStep(r) \/ AttemptStep(r) PROVE UNCHANGED subscribed
    BY <1>3 DEF SubscribeStep, AttemptStep, FindOwnPage, AskMeta, SaveSubscription, FindOwner, FetchLead
  <1>4. ASSUME NEW r, EndStep(r)
        PROVE  \/ UNCHANGED subscribed
               \/ r \in Subscribes /\ Commit(r) /\ subscribed' = Marks(r)
    <2>1. CASE Commit(r)
      BY <2>1 DEF Commit
    <2> QED BY <1>4, <2>1 DEF EndStep, Reply, MetaFails, CutOff
  <1> QED BY <1>1, <1>2, <1>3, <1>4, Steps DEF vars

\* A request that Meta has not accepted and that may have committed stays one.
LEMMA RefusedStays ==
    ASSUME IInv, [Next]_vars, NEW x, NEW v \in RefusedFor(x)
    PROVE  v \in RefusedFor(x)'
  <1> USE DEF rowVars, columnVars, requestVars, syncVars, metaVars, Set
  <1>1. /\ TypeOK /\ Subscribing(v) /\ Grown /\ v \in Subscribes /\ v \in Requests
        /\ (answer[v] # "none" => stage[v] = "done")
    BY StepGrown, Kinds DEF IInv, RefusedFor
  <1>2. /\ v \notin accepted /\ row[v] = x /\ stage[v] \in {"committed", "done"}
        /\ stage[v] = "committed" \/ answer[v] = "ok" \/ v \in faults["cut"]
    BY <1>1 DEF RefusedFor, Subscribing
  <1>3. CASE Passive(v)
    BY <1>1, <1>2, <1>3 DEF Passive, RefusedFor, FaultKinds
  <1>4. CASE Reply(v)
    <2>1. answer'[v] = "ok" /\ row' = row /\ accepted' = accepted
      BY <1>1, <1>4 DEF Reply, Ends, Answers, TypeOK
    <2> QED BY <1>1, <1>2, <2>1 DEF RefusedFor
  <1>5. CASE CutOff(v)
    <2>1. v \in faults'["cut"] /\ row' = row /\ accepted' = accepted
      BY <1>1, <1>5 DEF CutOff, Fault, TypeOK, FaultKinds
    <2> QED BY <1>1, <1>2, <2>1 DEF RefusedFor
  <1>6. ~ (FindOwnPage(v) \/ AskMeta(v) \/ SaveSubscription(v) \/ Commit(v) \/ MetaFails(v))
    BY <1>1, <1>2, Kinds DEF FindOwnPage, AskMeta, SaveSubscription, Commit, MetaFails, CallsMeta
  <1> QED BY <1>1, <1>3, <1>4, <1>5, <1>6, StepPassive, Kinds
          DEF SubscribeStep, SyncStep, FounderStep, AttemptStep, EndStep

\* A page loses its mark by a request that Meta has not accepted.
LEMMA MarkedStays ==
    ASSUME IInv, [Next]_vars, NEW x, Marked(x)
    PROVE  Marked(x)'
  <1>1. CASE RefusedFor(x) # {}
    BY <1>1, RefusedStays DEF Marked
  <1>2. CASE x \in subscribed
    <2>1. ASSUME NEW r \in Subscribes, Commit(r), subscribed' = Marks(r), x \notin subscribed'
          PROVE  r \in RefusedFor(x)'
      <3>1. row[r] = x /\ r \notin accepted
        BY <1>2, <2>1 DEF Marks
      <3>2. stage'[r] = "committed" /\ row' = row /\ accepted' = accepted
        BY <2>1, Kinds DEF Commit, Goto, IInv, TypeOK, requestVars, metaVars
      <3> QED BY <3>1, <3>2 DEF RefusedFor
    <2> QED BY <1>2, <2>1, SubscribedChange DEF Marked
  <1> QED BY <1>1, <1>2 DEF Marked

LEMMA SubscribingNext ==
    ASSUME IInv, [Next]_vars, NEW w \in Subscribes
    PROVE  Subscribing(w)'
  <1> USE DEF rowVars, columnVars, requestVars, syncVars, metaVars, Set
  <1>1. /\ TypeOK /\ TypeOK' /\ Subscribing(w) /\ Grown /\ w \in Requests
        /\ (answer[w] # "none" => stage[w] = "done")
    BY StepGrown, TypeNext, Kinds DEF IInv
  <1>2. ASSUME NEW x, x = row[w], row'[w] = row[w] PROVE w \in marked => Marked(x)'
    BY <1>1, <1>2, MarkedStays DEF Subscribing
  <1>3. ASSUME row'[w] = row[w], w \in marked' <=> w \in marked
        PROVE  w \in marked' => Marked(row[w])'
    BY <1>1, <1>2, <1>3 DEF Marked, RefusedFor
  <1>4. CASE Passive(w)
    <2>1. w \in accepted /\ (stage[w] = "committed" \/ answer[w] = "ok") => Marked(row[w])'
      BY <1>1, <1>4, MarkedStays DEF Subscribing, Passive, Marked, RefusedFor
    <2> QED BY <1>1, <1>3, <1>4, <2>1 DEF Passive, Subscribing, Grown, UnderWay, FaultKinds
  <1>5. ASSUME NEW a, a # "ok", Raises(w, a), UNCHANGED <<row, marked, accepted>>
        PROVE  Subscribing(w)'
    BY <1>1, <1>3, <1>5, RaisesOwn DEF Subscribing, UnderWay, Grown
  <1>6. CASE FindOwnPage(w)
    <2>1. row'[w] \in PageRows /\ (w \in marked' => row'[w] \in subscribed)
      <3>1. PICK x \in PageRows : /\ row' = [row EXCEPT ![w] = x]
                                  /\ marked' = IF x \in subscribed THEN marked \cup {w} ELSE marked
        BY <1>6 DEF FindOwnPage
      <3>2. w \notin marked
        BY <1>1, <1>6 DEF FindOwnPage, Subscribing
      <3> QED BY <1>1, <3>1, <3>2 DEF TypeOK
    <2>2. /\ answer'[w] # "ok" /\ stage'[w] \in {"foundPage", "done"} /\ w \notin accepted'
          /\ w \notin faults'["cut"] /\ UNCHANGED subscribed
      BY <1>1, <1>6 DEF FindOwnPage, Goto, Answers, TypeOK, Subscribing
    <2> QED BY <2>1, <2>2 DEF Subscribing, Marked
  <1>7. CASE AskMeta(w)
    <2>1. /\ row' = row /\ stage[w] = "foundPage" /\ stage'[w] = "asked" /\ answer' = answer
          /\ w \in accepted' => row[w][2] \in atMeta'
          /\ marked' = marked /\ faults' = faults
      BY <1>1, <1>7 DEF AskMeta, Goto, TypeOK, Subscribing
    <2> QED BY <1>1, <1>3, <2>1 DEF Subscribing, UnderWay
  <1>8. CASE SaveSubscription(w)
    <2>1. /\ row' = row /\ stage[w] = "asked" /\ stage'[w] = "saved" /\ answer' = answer
          /\ atMeta' = atMeta /\ marked' = marked /\ accepted' = accepted /\ faults' = faults
      BY <1>1, <1>8 DEF SaveSubscription, Goto, TypeOK
    <2> QED BY <1>1, <1>3, <2>1 DEF Subscribing, UnderWay
  <1>9. CASE Commit(w)
    <2>1. /\ row' = row /\ stage[w] = "saved" /\ stage'[w] = "committed" /\ answer' = answer
          /\ atMeta' = atMeta /\ marked' = marked /\ accepted' = accepted /\ faults' = faults
          /\ subscribed' = Marks(w)
      BY <1>1, <1>9 DEF Commit, Goto, TypeOK
    <2>2. w \in accepted => Marked(row[w])'
      <3>1. CASE w \in marked
        BY <1>1, <1>3, <2>1, <3>1
      <3>2. CASE w \notin marked
        BY <2>1, <3>2 DEF Marks, Changes, Marked
      <3> QED BY <3>1, <3>2
    <2> QED BY <1>1, <1>3, <2>1, <2>2 DEF Subscribing, UnderWay
  <1>10. CASE Reply(w)
    <2>1. /\ row' = row /\ stage[w] = "committed" /\ stage'[w] = "done" /\ atMeta' = atMeta
          /\ marked' = marked /\ accepted' = accepted /\ faults' = faults
      BY <1>1, <1>10 DEF Reply, Ends, Answers, Goto, TypeOK
    <2>2. w \in accepted => Marked(row[w])'
      BY <1>1, <2>1, MarkedStays DEF Subscribing, Marked, RefusedFor
    <2> QED BY <1>1, <1>3, <2>1, <2>2 DEF Subscribing, UnderWay
  <1>11. CASE MetaFails(w) \/ CutOff(w)
    BY <1>5, <1>11 DEF MetaFails, CutOff
  <1> QED BY <1>1, <1>4, <1>6, <1>7, <1>8, <1>9, <1>10, <1>11, StepPassive, Kinds
          DEF SubscribeStep, SyncStep, FounderStep, AttemptStep, EndStep

\* A page is marked by the commit of a request that Meta has accepted.
LEMMA SubscribedNext ==
    ASSUME IInv, [Next]_vars, NEW x \in subscribed'
    PROVE  x[2] \in atMeta'
  <1>1. TypeOK /\ Grown
    BY StepGrown DEF IInv
  <1>2. ASSUME x \in subscribed PROVE x[2] \in atMeta'
    BY <1>1, <1>2 DEF IInv, Grown
  <1>3. ASSUME NEW r \in Subscribes, subscribed' = Marks(r), x \notin subscribed
        PROVE  x[2] \in atMeta'
    <2>1. r \in accepted /\ x = row[r]
      BY <1>3 DEF Marks
    <2> QED BY <1>1, <1>3, <2>1 DEF IInv, Subscribing, Grown
  <1> QED BY <1>2, <1>3, SubscribedChange

-----------------------------------------------------------------------------
(* The lead task                                                           *)

\* A reason why a lead is out of reach stays one.
LEMMA CauseStays ==
    ASSUME IInv, [Next]_vars, NEW l \in Attempts, Cause(l), row'[l] = row[l]
    PROVE  Cause(l)'
  <1>1. TypeOK /\ Grown
    BY StepGrown DEF IInv
  <1>2. CASE \E k \in FaultKinds : l \in faults[k]
    BY <1>1, <1>2 DEF Grown, Cause
  <1>3. ASSUME NEW x \in RowsOf(PageOf[l], l),
               \/ RowsOf(PageOf[l], l) # {x}
               \/ row[l] \in PageRows /\ HandedOver(of[x].account)
               \/ row[l] \in Callbacks /\ row[l] # of[x].account
        PROVE  Cause(l)'
    <2>1. \A y \in RowsOf(PageOf[l], l) : y \in RowsOf(PageOf[l], l)' /\ of'[y] = of[y]
      BY <1>1, Kinds DEF RowsOf, Grown, PageRows
    <2>2. CASE RowsOf(PageOf[l], l) # {x}
      BY <1>3, <2>1, <2>2 DEF Cause
    <2>3. CASE row[l] \in PageRows /\ HandedOver(of[x].account)
      <3>1. HandedOver(of[x].account)'
        BY <1>1, <1>3, <2>1, <2>3 DEF HandedOver, Grown
      <3> QED BY <2>1, <2>3, <3>1 DEF Cause
    <2>4. CASE row[l] \in Callbacks /\ row[l] # of[x].account
      BY <2>1, <2>4 DEF Cause
    <2> QED BY <1>3, <2>2, <2>3, <2>4
  <1> QED BY <1>2, <1>3 DEF Cause

LEMMA AttemptingNext ==
    ASSUME IInv, [Next]_vars, NEW l \in Attempts
    PROVE  Attempting(l)'
  <1> USE DEF rowVars, columnVars, requestVars, syncVars, metaVars, Set
  <1>1. /\ TypeOK /\ TypeOK' /\ Attempting(l) /\ Grown /\ l \in Requests
        /\ (answer[l] # "none" => stage[l] = "done")
    BY StepGrown, TypeNext, Kinds DEF IInv
  <1>2. CASE Passive(l)
    <2>1. /\ stage'[l] = stage[l] /\ user'[l] = user[l] /\ row'[l] = row[l]
          /\ answer'[l] = answer[l]
      BY <1>2 DEF Passive
    <2>2. answer'[l] = "error" => Cause(l)'
      BY <1>1, <2>1, CauseStays DEF Attempting
    <2> QED BY <1>1, <2>1, <2>2 DEF Attempting, Grown
  <1>3. ASSUME NEW a, Raises(l, a), \E k \in FaultKinds : l \in faults'[k] PROVE Attempting(l)'
    BY <1>1, <1>3, RaisesOwn DEF Attempting, Cause
  <1>4. CASE FindOwner(l)
    <2> DEFINE rows == RowsOf(PageOf[l], l)
    <2>1. CASE Cardinality(rows) = 1
      <3>1. rows # {} /\ rows \subseteq PageRows
        BY <2>1, FS_EmptySet DEF RowsOf
      <3>2. OneOf(rows) \in rows
        BY <3>1, OneOfType
      <3>3. /\ row'[l] = OneOf(rows) /\ user'[l] = of[row'[l]].user /\ stage'[l] = "foundPage"
            /\ answer' = answer /\ pageRow' = pageRow /\ of' = of
        BY <1>1, <1>4, <2>1 DEF FindOwner, Goto, TypeOK
      <3>4. /\ row'[l] \in PageRows /\ pageRow[row'[l]] = "there" /\ row'[l][2] = PageOf[l]
        BY <3>2, <3>3, Kinds DEF RowsOf, PageRows
      <3>5. answer[l] # "error"
        BY <1>1, <1>4 DEF FindOwner
      <3> QED BY <3>3, <3>4, <3>5 DEF Attempting
    <2>2. CASE Cardinality(rows) # 1
      <3>1. /\ stage'[l] = "done" /\ answer'[l] = (IF rows = {} THEN "rejected" ELSE "error")
            /\ pageRow' = pageRow
        BY <1>1, <1>4, <2>2 DEF FindOwner, Answers, Goto, TypeOK
      <3>2. ASSUME rows # {} PROVE Cause(l)'
        <4>1. PICK x \in rows : TRUE
          BY <3>2
        <4>2. rows # {x}
          BY <2>2, FS_Singleton
        <4>3. RowsOf(PageOf[l], l)' = rows
          BY <3>1 DEF RowsOf
        <4> QED BY <4>1, <4>2, <4>3 DEF Cause
      <3> QED BY <3>1, <3>2 DEF Attempting
    <2> QED BY <2>1, <2>2
  <1>5. CASE FetchLead(l)
    <2>1. stage[l] = "foundPage" /\ stage'[l] = "done" /\ UNCHANGED <<pageRow, of, linked>>
      BY <1>1, <1>5 DEF FetchLead, Ends, Answers, Goto, TypeOK
    <2>2. PICK x \in PageRows : /\ x = row[l] /\ pageRow[x] = "there" /\ x[2] = PageOf[l]
                                /\ user[l] = of[x].user
      BY <1>1, <2>1 DEF Attempting
    <2>3. x \in RowsOf(PageOf[l], l)'
      BY <2>1, <2>2 DEF RowsOf
    <2>4. /\ <<of[x].user, of[x].account>> \in linked /\ PageOf[l] \in Manages[For[of[x].account]]
          /\ of[x].account \in Callbacks /\ of[x].user \in Founders
      BY <1>1, <2>2 DEF IInv, Owned, TypeOK
    <2>5. CASE AccountsOf(user[l]) = {} /\ UNCHANGED row
      <3>1. accountRow[of[x].account] = "there"
        BY <2>4 DEF IInv, Linking
      <3>2. /\ <<link[of[x].account].user, of[x].account>> \in linked
            /\ link[of[x].account].user \in Founders
        BY <1>1, <2>4, <3>1 DEF IInv, Linking, TypeOK
      <3>3. link[of[x].account].user # of[x].user
        BY <2>2, <2>4, <2>5, <3>1 DEF AccountsOf
      <3>4. HandedOver(of[x].account)'
        BY <2>1, <2>4, <3>2, <3>3 DEF HandedOver
      <3>5. row'[l] \in PageRows
        BY <2>2, <2>5
      <3> QED BY <2>1, <2>3, <3>4, <3>5 DEF Attempting, Cause
    <2>6. ASSUME NEW a \in AccountsOf(user[l]), row' = [row EXCEPT ![l] = a],
                 Ends(l, IF PageOf[l] \in Manages[For[link[a].token]] THEN "ok" ELSE "error")
          PROVE  Attempting(l)'
      <3>1. a \in Callbacks /\ row'[l] = a
        BY <1>1, <2>6 DEF AccountsOf, TypeOK
      <3>2. ASSUME answer'[l] = "error" PROVE a # of[x].account
        <4>1. PageOf[l] \notin Manages[For[link[a].token]]
          BY <1>1, <2>6, <3>2 DEF Ends, Answers, TypeOK
        <4>2. For[link[a].token] = For[a]
          BY <3>1 DEF IInv, Linking
        <4> QED BY <2>4, <4>1, <4>2
      <3>3. answer'[l] = "error" => Cause(l)'
        BY <2>1, <2>3, <3>1, <3>2 DEF Cause
      <3> QED BY <2>1, <3>3 DEF Attempting
    <2> QED BY <1>5, <2>5, <2>6 DEF FetchLead
  <1>6. ~ (Commit(l) \/ Reply(l))
    BY <1>1 DEF Commit, Reply, Attempting
  <1>7. CASE MetaFails(l) \/ CutOff(l)
    <2>1. \E k \in FaultKinds : Fault(k, l)
      BY <1>7 DEF MetaFails, CutOff, FaultKinds
    <2>2. \E k \in FaultKinds : l \in faults'[k]
      BY <1>1, <2>1 DEF Fault, TypeOK
    <2> QED BY <1>3, <1>7, <2>2 DEF MetaFails, CutOff
  <1> QED BY <1>1, <1>2, <1>4, <1>5, <1>6, <1>7, StepPassive, Kinds
          DEF SubscribeStep, SyncStep, FounderStep, AttemptStep, EndStep

\* A request that was answered has ended.
LEMMA AnsweredNext ==
    ASSUME IInv, [Next]_vars, NEW r \in Requests, answer'[r] # "none"
    PROVE  stage'[r] = "done"
  <1>1. /\ TypeOK /\ (answer[r] # "none" => stage[r] = "done")
    BY DEF IInv
  <1>2. ASSUME NEW a, Answers(r, a) PROVE stage'[r] = "done"
    BY <1>1, <1>2 DEF Answers, Goto, TypeOK
  <1>3. ASSUME answer' = answer, stage[r] # "done" PROVE FALSE
    BY <1>1, <1>3
  <1>4. CASE Passive(r)
    BY <1>1, <1>4 DEF Passive
  <1>5. CASE FounderStep(r)
    BY <1>2, <1>3, <1>5 DEF FounderStep, AskFacebook, Submit, SignIn, FindUser, InsertUser,
           UpdateUser, FindAccount, InsertAccount, UpdateAccount, Raises
  <1>6. CASE SyncStep(r)
    BY <1>2, <1>3, <1>6 DEF SyncStep, BeginSync, Sync, TakeAccount, ListPages, FindPage, FlushPage,
           NextRow, InsertPages, Deadlocked, AllSynced, Raises
  <1>7. CASE SubscribeStep(r) \/ AttemptStep(r)
    BY <1>2, <1>3, <1>7 DEF SubscribeStep, AttemptStep, FindOwnPage, AskMeta, SaveSubscription,
           FindOwner, FetchLead, Ends
  <1>8. CASE EndStep(r)
    BY <1>2, <1>3, <1>8 DEF EndStep, Commit, Reply, MetaFails, CutOff, Ends, Raises
  <1> QED BY <1>4, <1>5, <1>6, <1>7, <1>8, StepPassive

-----------------------------------------------------------------------------
(* The invariant                                                           *)

LEMMA IInvNext ==
    ASSUME IInv, [Next]_vars
    PROVE  IInv'
  BY TypeNext, UniqueNext, AnsweredNext, SigningInNext, LinkingNext, AloneNext, SyncingNext,
     OwnedNext, SubscribingNext, SubscribedNext, AttemptingNext DEF IInv

LEMMA IInvInit == Init => IInv
  <1> SUFFICES ASSUME Init PROVE IInv
    OBVIOUS
  <1> USE AccountConstants
  <1>1. TypeOK
    BY TypeInit
  <1>2. \A r \in Requests : stage[r] \in {"idle", "done"} /\ answer[r] = "none"
    BY DEF Init
  <1>3. \A r \in Founders : /\ userRow[r] = IF r \in PastUsers THEN "there" ELSE "none"
                            /\ email[r] \in Profile[r]
    <2>1. \A r \in Founders : (CHOOSE e \in Profile[r] : TRUE) \in Profile[r]
      OBVIOUS
    <2> QED BY <2>1 DEF Init
  <1>4. \A c \in Callbacks : /\ accountRow[c] = IF c \in DOMAIN PastLinks THEN "there" ELSE "none"
                             /\ link[c].token = c /\ row[c] = None
                             /\ c \in DOMAIN PastLinks => link[c].user = PastLinks[c]
    BY Kinds DEF Init
  <1>5. linked = {<<PastLinks[c], c>> : c \in DOMAIN PastLinks}
    BY DEF Init
  <1>6. Unique
    BY <1>3, <1>4 DEF Unique
  <1>7. ASSUME NEW r \in Founders PROVE SigningIn(r)
    <2>1. stage[r] = "idle" => r \notin PastUsers
      BY Kinds DEF Init, PastRequests
    <2> QED BY <1>2, <1>3, <2>1, Kinds DEF SigningIn, UnderWay
  <1>8. ASSUME NEW c \in Callbacks PROVE Linking(c)
    BY <1>2, <1>4, <1>5, Kinds DEF Linking
  <1>9. ASSUME NEW c \in Callbacks PROVE Alone(c)
    <2>1. c \in alone => stage[c] # "idle"
      BY Kinds DEF Init, PastRequests
    <2> QED BY <1>2, <2>1, Kinds DEF Alone, UnderWay
  <1>10. ASSUME NEW s \in Syncs PROVE Syncing(s)
    <2>1. todo[s] = {} /\ found[s] = {}
      BY DEF Init
    <2> QED BY <1>2, <2>1, Kinds DEF Syncing, UnderWay
  <1>11. ASSUME NEW x \in PageRows, pageRow[x] # "none" PROVE Owned(x)
    <2>1. x \in DOMAIN PastPages
      BY <1>11 DEF Init
    <2>2. PastPages[x] \in DOMAIN PastLinks /\ PastPages[x] \in Callbacks
      BY <2>1
    <2>3. of[x] = [account |-> PastPages[x], user |-> link[PastPages[x]].user]
      BY <2>1 DEF Init
    <2> QED BY <1>4, <1>5, <2>1, <2>2, <2>3 DEF Owned
  <1>12. ASSUME NEW w \in Subscribes PROVE Subscribing(w)
    <2>1. w \notin accepted /\ w \notin marked /\ w \notin faults["cut"]
      BY DEF Init, FaultKinds
    <2> QED BY <1>2, <2>1, Kinds DEF Subscribing, UnderWay
  <1>13. ASSUME NEW l \in Attempts PROVE Attempting(l)
    BY <1>2, Kinds DEF Attempting
  <1>14. subscribed = {}
    BY DEF Init
  <1> QED BY <1>1, <1>2, <1>6, <1>7, <1>8, <1>9, <1>10, <1>11, <1>12, <1>13, <1>14 DEF IInv

\* One row for each email and Facebook user, also among what is not committed, and
\* rows and requests that agree on whose they are: every step keeps all of it.
THEOREM Inductive == Spec => []IInv
  <1>1. IInv /\ [Next]_vars => IInv'
    BY IInvNext
  <1> QED BY IInvInit, <1>1, PTL DEF Spec

\* Every variable keeps its type.
THEOREM TypeCorrect == Spec => []TypeOK
  <1>1. IInv => TypeOK
    BY DEF IInv
  <1> QED BY Inductive, <1>1, PTL

LEMMA AtMostOne ==
    ASSUME NEW S, \A x, y \in S : x = y
    PROVE  Cardinality(S) <= 1
  <1>1. CASE S = {}
    BY <1>1, FS_EmptySet
  <1>2. CASE S # {}
    <2>1. PICK x \in S : TRUE
      BY <1>2
    <2>2. S = {x}
      BY <2>1
    <2> QED BY <2>2, FS_Singleton
  <1> QED BY <1>1, <1>2

\* However sign-ins and registrations overlap, an email has one user and a
\* Facebook user one account.
THEOREM OneRowForEach == Spec => []OneRowEach
  <1>1. IInv => OneRowEach
    <2> SUFFICES ASSUME IInv PROVE OneRowEach
      OBVIOUS
    <2>1. ASSUME NEW e \in Emails PROVE Cardinality(UsersWith(e)) <= 1
      BY AtMostOne DEF IInv, Unique, UsersWith
    <2>2. ASSUME NEW c \in Callbacks PROVE Cardinality(AccountsFor(For[c])) <= 1
      BY AtMostOne DEF IInv, Unique, AccountsFor
    <2> QED BY <2>1, <2>2 DEF OneRowEach
  <1> QED BY Inductive, <1>1, PTL

\* A sign-in that was answered, and that no other for its account has met or
\* followed, has left the account with its token and its user.
THEOREM LoneLinkStands == Spec => []LoneLinkHolds
  <1>1. IInv => LoneLinkHolds
    <2> SUFFICES ASSUME IInv, NEW c \in alone, answer[c] = "ok" PROVE Holds(c)
      BY DEF Holds, LoneLinkHolds
    <2>1. c \in Callbacks
      BY DEF IInv, TypeOK
    <2> QED BY <2>1 DEF IInv, Alone
  <1> QED BY Inductive, <1>1, PTL

\* A page is kept for a user who was linked to its account, and for an account
\* whose Facebook user sees it.
THEOREM OwnersLinked == Spec => []OwnersWereLinked
  <1>1. IInv => OwnersWereLinked
    BY DEF IInv, Owned, OwnersWereLinked
  <1> QED BY Inductive, <1>1, PTL

\* A lead of a page that is known is out of reach only after a fault, of a page
\* stored twice, after a handover, or by the token of another account.
THEOREM LostOnlyWithCause == Spec => []LostLeadNeedsCause
  <1>1. IInv => LostLeadNeedsCause
    BY DEF IInv, Attempting, LostLeadNeedsCause
  <1> QED BY Inductive, <1>1, PTL

\* A page marked subscribed is one whose events Meta sends, and a request that Meta
\* accepted and that was answered has marked it, unless Meta refused another.
THEOREM SubscriptionsTold == Spec => []SubscriptionTold
  <1>1. IInv => SubscriptionTold
    BY DEF IInv, TypeOK, Subscribing, Marked, SubscriptionTold
  <1> QED BY Inductive, <1>1, PTL

-----------------------------------------------------------------------------
(* Progress: where the locks are                                           *)

\* What r does with its locks: it keeps them, and then was not about to commit;
\* or takes that of a user; or one more, the last thing before its commit or in
\* the middle of a sync; or gives all back.
Keeps(r) ==
    /\ locks'[r] = locks[r] /\ stage[r] # "saved"
    /\ stage[r] \in {"next", "listing", "finding", "flushing"} =>
          stage'[r] \in {"next", "listing", "finding", "flushing", "saved"}
Takes(r) ==
    \E x \in Locks :
        /\ locks'[r] = locks[r] \cup {x}
        /\ \/ x[1] = "user" /\ stage[r] = "foundUser"
           \/ x[1] = "account" /\ stage[r] = "foundAccount" /\ stage'[r] = "saved"
           \/ x[1] = "page" /\ stage[r] = "asked" /\ stage'[r] = "saved"
           \/ x[1] = "page" /\ r \in Syncs /\ stage[r] = "flushing" /\ stage'[r] = "flushing"
GivesBack(r) == locks'[r] = {}

LEMMA RaisesGivesBack ==
    ASSUME TypeOK, NEW r \in Requests, NEW a, Raises(r, a)
    PROVE  GivesBack(r) /\ \A q \in Requests \ {r} : locks'[q] = locks[q]
  BY DEF TypeOK, Raises, Rollback, Released, GivesBack

LEMMA UpdateAdds ==
    ASSUME TypeOK, NEW r \in Requests, NEW x, Update(r, x)
    PROVE  locks'[r] = locks[r] \cup {x} /\ \A q \in Requests \ {r} : locks'[q] = locks[q]
  BY DEF TypeOK, Update

LEMMA FounderLocks ==
    ASSUME IInv, NEW r, FounderStep(r)
    PROVE  /\ Keeps(r) \/ Takes(r) \/ GivesBack(r)
           /\ \A q \in Requests \ {r} : locks'[q] = locks[q]
  <1> USE DEF rowVars, columnVars, requestVars, syncVars, metaVars, Set
  <1>1. TypeOK /\ r \in Founders /\ r \in Requests /\ user[r] \in Founders \cup {None}
    BY Kinds DEF IInv, TypeOK, FounderStep
  <1>2. CASE AskFacebook(r) \/ Submit(r)
    BY <1>1, <1>2 DEF AskFacebook, Submit, Keeps
  <1>3. CASE FindUser(r)
    BY <1>1, <1>3 DEF FindUser, Keeps
  <1>4. CASE InsertUser(r)
    BY <1>1, <1>4, RaisesGivesBack DEF InsertUser, Keeps
  <1>5. CASE UpdateUser(r)
    <2>1. <<"user", user[r]>> \in Locks
      BY <1>1, <1>5 DEF UpdateUser, Locks
    <2>2. CASE Update(r, <<"user", user[r]>>)
      <3>1. Takes(r)
        BY <1>1, <1>5, <2>1, <2>2, UpdateAdds DEF UpdateUser, Takes
      <3> QED BY <1>1, <2>2, <3>1, UpdateAdds
    <2>3. CASE UNCHANGED locks
      BY <1>5, <2>3 DEF UpdateUser, Keeps
    <2> QED BY <1>5, <2>2, <2>3 DEF UpdateUser
  <1>6. CASE FindAccount(r)
    BY <1>1, <1>6 DEF FindAccount, Keeps
  <1>7. CASE InsertAccount(r)
    BY <1>1, <1>7, RaisesGivesBack DEF InsertAccount, Keeps
  <1>8. CASE r \in Callbacks /\ UpdateAccount(r)
    <2>1. <<"account", row[r]>> \in Locks
      BY <1>8 DEF UpdateAccount, IInv, Linking, Locks
    <2>2. Takes(r)
      <3>1. stage[r] = "foundAccount" /\ stage'[r] = "saved" /\ Update(r, <<"account", row[r]>>)
        BY <1>1, <1>8 DEF UpdateAccount, Goto, TypeOK
      <3> QED BY <1>1, <2>1, <3>1, UpdateAdds DEF Takes
    <2> QED BY <1>1, <1>8, <2>2, UpdateAdds DEF UpdateAccount
  <1> QED BY <1>2, <1>3, <1>4, <1>5, <1>6, <1>7, <1>8 DEF FounderStep, SignIn

LEMMA SyncLocks ==
    ASSUME IInv, NEW s, SyncStep(s)
    PROVE  /\ Keeps(s) \/ Takes(s) \/ GivesBack(s)
           /\ \A q \in Requests \ {s} : locks'[q] = locks[q]
  <1> USE DEF rowVars, columnVars, requestVars, syncVars, metaVars, Set
  <1>1. TypeOK /\ s \in Syncs /\ s \in Requests
    BY Kinds DEF IInv, SyncStep
  <1>2. CASE BeginSync(s)
    BY <1>1, <1>2 DEF BeginSync, Keeps
  <1>3. ASSUME NEW a \in Callbacks, TakeAccount(s, a)
        PROVE  /\ Keeps(s) \/ GivesBack(s)
               /\ \A q \in Requests \ {s} : locks'[q] = locks[q]
    BY <1>1, <1>3, RaisesGivesBack DEF TakeAccount, Keeps, Goto, TypeOK
  <1>4. CASE ListPages(s)
    BY <1>1, <1>4 DEF ListPages, Keeps, Goto, TypeOK
  <1>5. ASSUME NEW p \in Pages, FindPage(s, p)
        PROVE  /\ Keeps(s) \/ GivesBack(s)
               /\ \A q \in Requests \ {s} : locks'[q] = locks[q]
    BY <1>1, <1>5, RaisesGivesBack DEF FindPage, Keeps, Goto, TypeOK
  <1>6. ASSUME NEW x \in PageRows, FlushPage(s, x)
        PROVE  /\ Takes(s)
               /\ \A q \in Requests \ {s} : locks'[q] = locks[q]
    <2>1. <<"page", x>> \in Locks
      BY DEF Locks
    <2>2. stage[s] = "flushing" /\ stage'[s] = "flushing"
      BY <1>6 DEF FlushPage, NextRow
    <2> QED BY <1>1, <1>6, <2>1, <2>2, UpdateAdds DEF FlushPage, Takes
  <1>7. CASE InsertPages(s)
    BY <1>1, <1>7 DEF InsertPages, Keeps, Goto, TypeOK
  <1>8. CASE Deadlocked(s)
    BY <1>1, <1>8, RaisesGivesBack DEF Deadlocked
  <1>9. CASE AllSynced(s)
    BY <1>1, <1>9, RaisesGivesBack DEF AllSynced, Keeps, Goto, TypeOK
  <1> QED BY <1>2, <1>3, <1>4, <1>5, <1>6, <1>7, <1>8, <1>9 DEF SyncStep, Sync

LEMMA OtherLocks ==
    ASSUME IInv, NEW r, SubscribeStep(r) \/ AttemptStep(r) \/ EndStep(r)
    PROVE  /\ Keeps(r) \/ Takes(r) \/ GivesBack(r)
           /\ \A q \in Requests \ {r} : locks'[q] = locks[q]
  <1> USE DEF rowVars, columnVars, requestVars, syncVars, metaVars, Set
  <1>1. TypeOK /\ r \in Requests
    BY Kinds DEF IInv, SubscribeStep, AttemptStep, EndStep
  <1>2. CASE FindOwnPage(r)
    BY <1>1, <1>2 DEF FindOwnPage, Keeps
  <1>3. CASE AskMeta(r)
    BY <1>1, <1>3 DEF AskMeta, Keeps
  <1>4. CASE r \in Subscribes /\ SaveSubscription(r)
    <2>1. <<"page", row[r]>> \in Locks
      BY <1>4 DEF SaveSubscription, IInv, Subscribing, UnderWay, Locks
    <2>2. stage[r] = "asked" /\ stage'[r] = "saved"
      BY <1>1, <1>4 DEF SaveSubscription, Goto, TypeOK
    <2>3. CASE Update(r, <<"page", row[r]>>)
      BY <1>1, <2>1, <2>2, <2>3, UpdateAdds DEF Takes
    <2>4. CASE UNCHANGED locks
      BY <2>2, <2>4 DEF Keeps
    <2> QED BY <1>4, <2>3, <2>4 DEF SaveSubscription
  <1>5. CASE FindOwner(r)
    BY <1>1, <1>5 DEF FindOwner, Keeps
  <1>6. CASE FetchLead(r)
    BY <1>1, <1>6 DEF FetchLead, Ends, Keeps
  <1>7. CASE Commit(r)
    BY <1>1, <1>7 DEF Commit, Released, GivesBack, TypeOK
  <1>8. CASE Reply(r)
    BY <1>1, <1>8 DEF Reply, Ends, Keeps
  <1>9. CASE MetaFails(r) \/ CutOff(r)
    BY <1>1, <1>9, RaisesGivesBack DEF MetaFails, CutOff
  <1> QED BY <1>2, <1>3, <1>4, <1>5, <1>6, <1>7, <1>8, <1>9
          DEF SubscribeStep, AttemptStep, EndStep

LEMMA LockChange ==
    ASSUME IInv, [Next]_vars, NEW q \in Requests
    PROVE  \/ locks'[q] = locks[q] /\ stage'[q] = stage[q]
           \/ Keeps(q) \/ Takes(q) \/ GivesBack(q)
  <1>1. CASE UNCHANGED vars
    BY <1>1 DEF vars, rowVars
  <1>2. ASSUME NEW r \in Requests, q # r, 
               FounderStep(r) \/ SyncStep(r) \/ SubscribeStep(r) \/ AttemptStep(r) \/ EndStep(r)
        PROVE  locks'[q] = locks[q] /\ stage'[q] = stage[q]
    <2>1. locks'[q] = locks[q]
      BY <1>2, FounderLocks, SyncLocks, OtherLocks
    <2>2. Passive(q)
      BY <1>2, FounderPassive, SyncPassive, OtherPassive DEF IInv
    <2> QED BY <2>1, <2>2 DEF Passive
  <1> QED BY <1>1, <1>2, Steps, FounderLocks, SyncLocks, OtherLocks

LEMMA LocksNext ==
    ASSUME LockInv, [Next]_vars, NEW r \in Requests, NEW x \in locks'[r]
    PROVE  /\ x[1] = "account" => stage'[r] = "saved"
           /\ x[1] = "page" => stage'[r] = "saved" \/
                 (r \in Syncs /\ stage'[r] \in {"next", "listing", "finding", "flushing"})
  <1>1. IInv /\ \A y \in locks[r] :
          /\ y[1] = "account" => stage[r] = "saved"
          /\ y[1] = "page" => stage[r] = "saved" \/
                (r \in Syncs /\ stage[r] \in {"next", "listing", "finding", "flushing"})
    BY DEF LockInv
  <1>2. CASE locks'[r] = locks[r] /\ stage'[r] = stage[r]
    BY <1>1, <1>2
  <1>3. CASE Keeps(r)
    BY <1>1, <1>3 DEF Keeps
  <1>4. CASE Takes(r)
    <2>1. PICK y \in Locks :
            /\ locks'[r] = locks[r] \cup {y}
            /\ \/ y[1] = "user" /\ stage[r] = "foundUser"
               \/ y[1] = "account" /\ stage[r] = "foundAccount" /\ stage'[r] = "saved"
               \/ y[1] = "page" /\ stage[r] = "asked" /\ stage'[r] = "saved"
               \/ y[1] = "page" /\ r \in Syncs /\ stage[r] = "flushing" /\ stage'[r] = "flushing"
      BY <1>4 DEF Takes
    <2>2. CASE x = y
      BY <2>1, <2>2
    <2>3. CASE x \in locks[r]
      BY <1>1, <2>1, <2>3
    <2> QED BY <2>1, <2>2, <2>3
  <1>5. CASE GivesBack(r)
    BY <1>5 DEF GivesBack
  <1> QED BY <1>1, <1>2, <1>3, <1>4, <1>5, LockChange

\* Where a request of each kind may stand.
LEMMA PlacesNext ==
    ASSUME LockInv, [Next]_vars
    PROVE  /\ \A r \in Founders :
                 stage'[r] \notin {"next", "listing", "finding", "flushing", "foundPage", "asked"}
           /\ \A r \in Registers : /\ stage'[r] \notin {"savedUser", "foundAccount"}
                                   /\ stage'[r] = "foundUser" => user'[r] = None
           /\ \A s \in Syncs : stage'[s] \in {"idle", "next", "listing", "finding", "flushing",
                                              "saved", "committed", "done"}
           /\ \A w \in Subscribes :
                 stage'[w] \in {"idle", "foundPage", "asked", "saved", "committed", "done"}
  <1>1. IInv /\ TypeOK
    BY DEF LockInv, IInv
  <1>2. ASSUME NEW r \in Requests, NEW a, Raises(r, a) \/ Answers(r, a) PROVE stage'[r] = "done"
    BY <1>1, <1>2 DEF Raises, Answers, Goto, TypeOK
  <1>3. ASSUME NEW r \in Requests, EndStep(r) PROVE stage'[r] \in {"committed", "done"}
    BY <1>1, <1>2, <1>3 DEF EndStep, Commit, Reply, Ends, MetaFails, CutOff, Goto, TypeOK
  <1>4. ASSUME NEW r \in Founders
        PROVE  /\ stage'[r] \notin {"next", "listing", "finding", "flushing", "foundPage", "asked"}
               /\ r \in Registers => /\ stage'[r] \notin {"savedUser", "foundAccount"}
                                     /\ stage'[r] = "foundUser" => user'[r] = None
    <2>1. r \in Requests /\ r \notin Syncs /\ r \notin Subscribes /\ r \notin Attempts
      BY Kinds
    <2>2. r \in Registers => r \notin Callbacks
      BY AccountConstants
    <2>3. CASE Passive(r)
      BY <2>3 DEF LockInv, Passive
    <2>4. CASE AskFacebook(r) \/ Submit(r)
      BY <1>1, <2>1, <2>4 DEF AskFacebook, Submit, Goto, TypeOK
    <2>5. CASE FindUser(r)
      BY <1>1, <1>2, <2>1, <2>5 DEF FindUser, Goto, TypeOK
    <2>6. CASE InsertUser(r)
      BY <1>1, <1>2, <2>1, <2>2, <2>6 DEF InsertUser, Goto, TypeOK
    <2>7. CASE r \in Callbacks /\ (UpdateUser(r) \/ FindAccount(r) \/ InsertAccount(r) \/ UpdateAccount(r))
      BY <1>1, <1>2, <2>1, <2>2, <2>7
      DEF UpdateUser, FindAccount, InsertAccount, UpdateAccount, Goto, TypeOK
    <2>8. CASE EndStep(r)
      BY <1>3, <2>1, <2>8
    <2> QED BY <1>1, <2>1, <2>3, <2>4, <2>5, <2>6, <2>7, <2>8, StepPassive
            DEF FounderStep, SignIn, SyncStep, SubscribeStep, AttemptStep
  <1>5. ASSUME NEW s \in Syncs
        PROVE  stage'[s] \in {"idle", "next", "listing", "finding", "flushing", "saved",
                              "committed", "done"}
    <2>1. s \in Requests /\ s \notin Founders /\ s \notin Subscribes /\ s \notin Attempts
      BY Kinds
    <2>2. CASE Passive(s)
      BY <2>2 DEF LockInv, Passive
    <2>3. CASE SyncStep(s)
      BY <1>1, <1>2, <2>1, <2>3
      DEF SyncStep, BeginSync, Sync, TakeAccount, ListPages, FindPage, FlushPage, NextRow,
          InsertPages, Deadlocked, AllSynced, Goto, TypeOK
    <2> QED BY <1>1, <1>3, <2>1, <2>2, <2>3, StepPassive
            DEF FounderStep, SubscribeStep, AttemptStep
  <1>6. ASSUME NEW w \in Subscribes
        PROVE  stage'[w] \in {"idle", "foundPage", "asked", "saved", "committed", "done"}
    <2>1. w \in Requests /\ w \notin Founders /\ w \notin Syncs /\ w \notin Attempts
      BY Kinds
    <2>2. CASE Passive(w)
      BY <2>2 DEF LockInv, Passive
    <2>3. CASE SubscribeStep(w)
      BY <1>1, <1>2, <2>1, <2>3
      DEF SubscribeStep, FindOwnPage, AskMeta, SaveSubscription, Goto, TypeOK
    <2> QED BY <1>1, <1>3, <2>1, <2>2, <2>3, StepPassive
            DEF FounderStep, SyncStep, AttemptStep
  <1>7. Registers \subseteq Founders
    BY DEF Founders
  <1> QED BY <1>4, <1>5, <1>6, <1>7

LEMMA LockNext == LockInv /\ [Next]_vars => LockInv'
  <1> SUFFICES ASSUME LockInv, [Next]_vars PROVE LockInv'
    OBVIOUS
  <1>1. IInv'
    BY IInvNext DEF LockInv
  <1>2. \A r \in Requests : \A x \in locks'[r] :
          /\ x[1] = "account" => stage'[r] = "saved"
          /\ x[1] = "page" => stage'[r] = "saved" \/
                (r \in Syncs /\ stage'[r] \in {"next", "listing", "finding", "flushing"})
    BY LocksNext
  <1> QED BY <1>1, <1>2, PlacesNext DEF LockInv

LEMMA LockInit == Init => LockInv
  <1> SUFFICES ASSUME Init PROVE LockInv
    OBVIOUS
  <1>1. \A r \in Requests : stage[r] \in {"idle", "done"} /\ locks[r] = {}
    BY DEF Init
  <1> QED BY <1>1, IInvInit, Kinds DEF LockInv, Founders

\* Only requests about to commit lock accounts, and only these and syncs pages.
THEOREM LocksInductive == Spec => []LockInv
  BY LockInit, LockNext, PTL DEF Spec

-----------------------------------------------------------------------------
(* Progress: one may go on                                                 *)

LEMMA NatWellFounded == IsWellFoundedOn({ss \in Nat \X Nat : ss[1] < ss[2]}, Nat)
  BY NatLessThanWellFounded DEF OpToRel

LEMMA LeastOf ==
    ASSUME NEW S, S \subseteq Nat, S # {}
    PROVE  \E m \in S : \A n \in S : m <= n
  <1> DEFINE R == {ss \in Nat \X Nat : ss[1] < ss[2]}
  <1>1. PICK m \in S : \A n \in S : ~ (<<n, m>> \in R)
    <2>1. IsWellFoundedOn(R, Nat)
      BY NatWellFounded
    <2> HIDE DEF R
    <2> QED BY <2>1, WFMin
  <1>2. \A n \in S : ~ (n < m)
    BY <1>1
  <1> QED BY <1>2

\* A flush that has rows to update has one that comes first.
LEMMA SomeNextRow ==
    ASSUME TypeOK, NEW s \in Syncs, stage[s] = "flushing", ToUpdate(s) # {}
    PROVE  \E x \in PageRows : NextRow(s, x)
  <1> DEFINE ranks == {Rank[x] : x \in ToUpdate(s)}
  <1>1. ToUpdate(s) \subseteq PageRows
    BY DEF ToUpdate, TypeOK
  <1>2. ranks \subseteq Nat /\ ranks # {}
    BY <1>1, AccountConstants
  <1>3. PICK m \in ranks : \A n \in ranks : m <= n
    <2> HIDE DEF ranks
    <2> QED BY <1>2, LeastOf
  <1>4. PICK x \in ToUpdate(s) : m = Rank[x]
    BY <1>3
  <1> QED BY <1>1, <1>3, <1>4 DEF NextRow

\* In a state where nobody may go on, a sign-in waits for one that may.
LEMMA SignInsGoOn ==
    ASSUME LockInv, \A k \in Requests : ~ MayGoOn(k), NEW r \in Founders
    PROVE  ~ UnderWay(r)
  <1>1. /\ IInv /\ TypeOK /\ Founders \subseteq Requests /\ Callbacks \subseteq Founders
        /\ \A q \in Founders : stage[q] \in Stages /\ SigningIn(q)
    BY Kinds DEF LockInv, IInv, TypeOK
  <1>2. \A k \in Requests : stage[k] \notin {"known", "savedUser", "saved", "committed"}
    BY DEF MayGoOn
  <1>3. ASSUME NEW c \in Founders, stage[c] = "foundAccount" PROVE FALSE
    <2>1. c \in Callbacks /\ c \in Requests
      BY <1>1, <1>3 DEF LockInv, Founders
    <2>2. CASE row[c] = None
      <3>1. PICK d \in Callbacks : accountRow[d] = "open"
        BY <1>3, <2>1, <2>2 DEF MayGoOn
      <3>2. stage[d] = "saved"
        BY <1>1, <3>1 DEF IInv, Linking
      <3> QED BY <1>1, <1>2, <3>2
    <2>3. CASE row[c] # None
      <3>1. PICK q \in Requests : <<"account", row[c]>> \in locks[q]
        BY <1>3, <2>1, <2>3 DEF MayGoOn, Locked
      <3>2. stage[q] = "saved"
        BY <3>1 DEF LockInv
      <3> QED BY <1>2, <3>2
    <2> QED BY <2>2, <2>3
  <1>4. stage[r] # "foundUser"
    <2> SUFFICES ASSUME stage[r] = "foundUser" PROVE FALSE
      OBVIOUS
    <2>1. PICK q \in Founders : userRow[q] = "open"
      BY <1>1 DEF MayGoOn
    <2>2. stage[q] \in {"savedUser", "foundAccount", "saved"}
      BY <1>1, <2>1 DEF SigningIn
    <2> QED BY <1>1, <1>2, <1>3, <2>2
  <1> QED BY <1>1, <1>2, <1>3, <1>4 DEF LockInv, UnderWay, Stages

\* Syncs that nobody but syncs keeps waiting wait for each other, and one is ended.
LEMMA SyncsGoOn ==
    ASSUME LockInv, \A k \in Requests : ~ MayGoOn(k), NEW s \in Syncs
    PROVE  ~ UnderWay(s)
  <1>1. TypeOK /\ Syncs \subseteq Requests
    BY Kinds DEF LockInv, IInv
  <1>2. \A k \in Requests : stage[k] \notin {"next", "listing", "finding", "saved", "committed"}
    BY DEF MayGoOn
  <1> DEFINE S == {t \in Syncs : stage[t] = "flushing"}
  <1>3. ASSUME NEW t \in S PROVE \E q \in S : WaitsFor(t, q)
    <2>1. PICK x \in PageRows : NextRow(t, x)
      BY <1>1, SomeNextRow DEF MayGoOn
    <2>2. PICK q \in Requests : <<"page", x>> \in locks[q]
      BY <1>1, <2>1 DEF MayGoOn, Locked
    <2>3. stage[q] = "saved" \/ (q \in Syncs /\ stage[q] \in {"next", "listing", "finding", "flushing"})
      BY <2>2 DEF LockInv
    <2>4. q \in S
      BY <1>2, <2>3
    <2> QED BY <2>1, <2>2, <2>4 DEF WaitsFor
  <1>4. stage[s] # "flushing"
    <2> SUFFICES ASSUME stage[s] = "flushing" PROVE FALSE
      OBVIOUS
    <2>1. S \in SUBSET Syncs /\ s \in S
      OBVIOUS
    <2> HIDE DEF S
    <2>2. InDeadlock(s)
      BY <1>3, <2>1 DEF InDeadlock
    <2> QED BY <1>1, <2>2 DEF MayGoOn
  <1> QED BY <1>1, <1>2, <1>4 DEF LockInv, UnderWay

\* While a request is under way, whatever rows are locked or inserted and not yet
\* committed, one may go on: the part of RequestsEnd that speaks of single states.
THEOREM OneMayGoOn == Spec => []NoStandstill
  <1>1. LockInv => NoStandstill
    <2> SUFFICES ASSUME LockInv, \A k \in Requests : ~ MayGoOn(k), NEW r \in Requests
                 PROVE  ~ UnderWay(r)
      BY DEF NoStandstill
    <2>1. \A k \in Requests : stage[k] \notin {"foundPage", "saved", "committed"}
      BY DEF MayGoOn
    <2>2. CASE r \in Founders
      BY <2>2, SignInsGoOn
    <2>3. CASE r \in Syncs
      BY <2>3, SyncsGoOn
    <2>4. CASE r \in Subscribes
      <3>1. stage[r] # "asked"
        <4> SUFFICES ASSUME stage[r] = "asked" PROVE FALSE
          OBVIOUS
        <4>1. PICK q \in Requests : <<"page", row[r]>> \in locks[q]
          BY DEF MayGoOn, Locked
        <4>2. stage[q] = "saved" \/ (q \in Syncs /\ stage[q] \in {"next", "listing", "finding", "flushing"})
          BY <4>1 DEF LockInv
        <4>3. q \in Syncs => ~ UnderWay(q)
          BY SyncsGoOn
        <4> QED BY <2>1, <4>2, <4>3 DEF UnderWay
      <3> QED BY <2>1, <2>4, <3>1 DEF LockInv, UnderWay
    <2>5. CASE r \in Attempts
      BY <2>1, <2>5 DEF LockInv, IInv, Attempting, UnderWay
    <2> QED BY <2>2, <2>3, <2>4, <2>5 DEF Requests
  <1> QED BY <1>1, LocksInductive, PTL

-----------------------------------------------------------------------------
(* Progress: the steps run out                                             *)

Finite == IsFiniteSet(Callbacks) /\ IsFiniteSet(Syncs) /\ IsFiniteSet(Pages)

LEMMA RoundType ==
    ASSUME Finite
    PROVE  /\ Cardinality(Callbacks) \in Nat /\ Cardinality(Pages) \in Nat
           /\ Round \in Nat /\ Round = 2 * Cardinality(Pages) + 4
  BY FS_CardinalityType DEF Finite, Round

LEMMA Times ==
    /\ \A m, n \in Nat : m * n \in Nat /\ (m + 1) * n = m * n + n
    /\ \A m, n, k \in Nat : m <= n => m * k <= n * k
  OBVIOUS

LEMMA PlaceType ==
    ASSUME Finite
    PROVE  /\ \A s \in Stages : Place(s) \in Nat
           /\ Place("known") = 6 /\ Place("foundUser") = 5 /\ Place("finding") = 5
           /\ Place("savedUser") = 4 /\ Place("foundPage") = 4 /\ Place("flushing") = 4
           /\ Place("foundAccount") = 3 /\ Place("asked") = 3 /\ Place("next") = 3
           /\ Place("saved") = 2 /\ Place("committed") = 1 /\ Place("done") = 0
           /\ Place("listing") = Round + 2
           /\ Place("idle") = Cardinality(Callbacks) * Round + Round + 3
  <1>1. (Cardinality(Callbacks) + 1) * Round = Cardinality(Callbacks) * Round + Round
        /\ Cardinality(Callbacks) * Round \in Nat /\ Round \in Nat
    BY RoundType, Times
  <1>2. /\ Place("known") = 6 /\ Place("foundUser") = 5 /\ Place("finding") = 5
        /\ Place("savedUser") = 4 /\ Place("foundPage") = 4 /\ Place("flushing") = 4
        /\ Place("foundAccount") = 3 /\ Place("asked") = 3 /\ Place("next") = 3
        /\ Place("saved") = 2 /\ Place("committed") = 1 /\ Place("done") = 0
        /\ Place("listing") = Round + 2
        /\ Place("idle") = (Cardinality(Callbacks) + 1) * Round + 3
    BY DEF Place
  <1>3. ASSUME NEW s \in Stages PROVE Place(s) \in Nat
    <2> HIDE DEF Place
    <2> QED BY <1>1, <1>2 DEF Stages
  <1> QED BY <1>1, <1>2, <1>3

\* Of what a sync has still to do, every part is finite.
LEMMA WorkType ==
    ASSUME Finite, NEW T \in SUBSET Callbacks, NEW L \in SUBSET Pages, NEW F \in SUBSET PageRows
    PROVE  /\ IsFiniteSet(T) /\ IsFiniteSet(L) /\ IsFiniteSet(F)
           /\ Cardinality(T) \in Nat /\ Cardinality(T) <= Cardinality(Callbacks)
           /\ Cardinality(L) \in Nat /\ Cardinality(L) <= Cardinality(Pages)
           /\ Cardinality(F) \in Nat
           /\ Cardinality(T) * Round + 2 * Cardinality(L) + Cardinality(F) \in Nat
  <1>1. IsFiniteSet(PageRows)
    BY FS_Product DEF Finite, PageRows
  <1>2. /\ IsFiniteSet(T) /\ IsFiniteSet(L) /\ IsFiniteSet(F)
        /\ Cardinality(T) \in Nat /\ Cardinality(T) <= Cardinality(Callbacks)
        /\ Cardinality(L) \in Nat /\ Cardinality(L) <= Cardinality(Pages)
        /\ Cardinality(F) \in Nat
    BY <1>1, FS_Subset, FS_CardinalityType DEF Finite
  <1>3. Cardinality(T) * Round \in Nat
    BY <1>2, RoundType, Times
  <1> QED BY <1>2, <1>3

\* What sync s has still to do, apart from where it stands.
Work(s) == Cardinality(todo[s]) * Round + 2 * Cardinality(listed[s]) + Cardinality(found[s])

LEMMA WorkNat ==
    ASSUME Finite, TypeOK, NEW s \in Syncs
    PROVE  Work(s) \in Nat
  BY WorkType DEF Work, TypeOK

LEMMA StepsLeftType ==
    ASSUME Finite, TypeOK, NEW r \in Requests
    PROVE  /\ StepsLeft(r) \in Nat
           /\ StepsLeft(r) = Place(stage[r]) + IF r \in Syncs /\ UnderWay(r) THEN Work(r) ELSE 0
  <1>1. Place(stage[r]) \in Nat
    BY PlaceType DEF TypeOK
  <1>2. StepsLeft(r) = Place(stage[r]) + IF r \in Syncs /\ UnderWay(r) THEN Work(r) ELSE 0
    BY DEF StepsLeft, Work
  <1>3. (IF r \in Syncs /\ UnderWay(r) THEN Work(r) ELSE 0) \in Nat
    BY WorkNat
  <1> QED BY <1>1, <1>2, <1>3

\* A request that ends without a sync's work, from wherever it stood.
LEMMA EndsLower ==
    ASSUME Finite, TypeOK, TypeOK', NEW r \in Requests, stage[r] # "done", stage'[r] = "done"
    PROVE  StepsLeft(r)' < StepsLeft(r)
  <1>1. StepsLeft(r)' = 0
    BY PlaceType DEF StepsLeft, UnderWay
  <1>2. Place(stage[r]) > 0
    <2>1. /\ Cardinality(Callbacks) * Round \in Nat /\ Round \in Nat
      BY RoundType, Times
    <2>2. stage[r] \in Stages \ {"done"}
      BY DEF TypeOK
    <2> QED BY <2>1, <2>2, PlaceType DEF Stages
  <1>3. (IF r \in Syncs /\ UnderWay(r) THEN Work(r) ELSE 0) \in Nat /\ Place(stage[r]) \in Nat
    BY WorkNat, PlaceType DEF TypeOK
  <1> QED BY <1>1, <1>2, <1>3, StepsLeftType

LEMMA OtherStepsLower ==
    ASSUME Finite, IInv, TypeOK', NEW r \in Requests,
           FounderStep(r) \/ SubscribeStep(r) \/ AttemptStep(r)
    PROVE  StepsLeft(r)' < StepsLeft(r)
  <1>1. TypeOK /\ r \notin Syncs
    BY Kinds DEF IInv, FounderStep, SubscribeStep, AttemptStep
  <1>2. \/ stage[r] # "done" /\ stage'[r] = "done"
        \/ stage[r] = "idle" /\ stage'[r] \in {"known", "foundPage"}
        \/ stage[r] = "known" /\ stage'[r] = "foundUser"
        \/ stage[r] = "foundUser" /\ stage'[r] \in {"savedUser", "saved"}
        \/ stage[r] = "savedUser" /\ stage'[r] = "foundAccount"
        \/ stage[r] = "foundAccount" /\ stage'[r] = "saved"
        \/ stage[r] = "foundPage" /\ stage'[r] = "asked"
        \/ stage[r] = "asked" /\ stage'[r] = "saved"
    <2>1. CASE FounderStep(r)
      BY <1>1, <2>1
      DEF FounderStep, AskFacebook, Submit, SignIn, FindUser, InsertUser, UpdateUser, FindAccount,
          InsertAccount, UpdateAccount, Raises, Answers, Goto, TypeOK
    <2>2. CASE SubscribeStep(r) \/ AttemptStep(r)
      BY <1>1, <2>2
      DEF SubscribeStep, AttemptStep, FindOwnPage, AskMeta, SaveSubscription, FindOwner, FetchLead,
          Ends, Answers, Goto, TypeOK
    <2> QED BY <2>1, <2>2
  <1>3. StepsLeft(r) = Place(stage[r]) /\ StepsLeft(r)' = Place(stage'[r])
    <2>1. Place(stage[r]) \in Nat /\ Place(stage'[r]) \in Nat
      BY <1>1, PlaceType DEF TypeOK
    <2> QED BY <1>1, <2>1 DEF StepsLeft
  <1>4. Cardinality(Callbacks) * Round \in Nat /\ Round \in Nat /\ Round >= 4
    BY RoundType, Times
  <1>5. CASE stage[r] = "idle" /\ stage'[r] \in {"known", "foundPage"}
    BY <1>3, <1>4, <1>5, PlaceType
  <1>6. CASE stage[r] # "done" /\ stage'[r] = "done"
    BY <1>1, <1>6, EndsLower
  <1> QED BY <1>2, <1>3, <1>5, <1>6, PlaceType

LEMMA EndStepsLower ==
    ASSUME Finite, IInv, TypeOK', NEW r \in Requests, EndStep(r)
    PROVE  StepsLeft(r)' < StepsLeft(r)
  <1>1. TypeOK
    BY DEF IInv
  <1>2. CASE Commit(r)
    <2>1. stage[r] = "saved" /\ stage'[r] = "committed" /\ UNCHANGED <<todo, listed, found>>
      BY <1>1, <1>2 DEF Commit, Goto, TypeOK, syncVars, metaVars
    <2>2. CASE r \in Syncs
      <3>1. StepsLeft(r) = 2 + Work(r) /\ StepsLeft(r)' = 1 + Work(r)
        BY <2>1, <2>2, PlaceType DEF StepsLeft, Work, UnderWay
      <3> QED BY <1>1, <2>2, <3>1, WorkNat
    <2>3. CASE r \notin Syncs
      BY <2>1, <2>3, PlaceType DEF StepsLeft
    <2> QED BY <2>2, <2>3
  <1>3. CASE Reply(r)
    BY <1>1, <1>3, EndsLower DEF Reply, Ends, Answers, Goto, TypeOK
  <1>4. CASE MetaFails(r)
    BY <1>1, <1>4, EndsLower DEF MetaFails, CallsMeta, Raises, Answers, Goto, TypeOK
  <1>5. CASE CutOff(r)
    BY <1>1, <1>5, EndsLower DEF CutOff, UnderWay, Raises, Answers, Goto, TypeOK
  <1> QED BY <1>2, <1>3, <1>4, <1>5 DEF EndStep

LEMMA SyncStepsLower ==
    ASSUME Finite, IInv, TypeOK', NEW s \in Requests, SyncStep(s)
    PROVE  StepsLeft(s)' < StepsLeft(s)
  <1> USE DEF Set
  <1>1. TypeOK /\ s \in Syncs /\ Syncing(s)
    BY DEF IInv, SyncStep
  <1> DEFINE t == Cardinality(todo[s])
             l == Cardinality(listed[s])
             f == Cardinality(found[s])
             w == t * Round
             P == Cardinality(Pages)
             C == Cardinality(Callbacks)
             A == C * Round
  <1>2. /\ t \in Nat /\ l \in Nat /\ f \in Nat /\ t' \in Nat /\ l' \in Nat /\ f' \in Nat
        /\ t <= C /\ l <= P /\ t' <= C /\ l' <= P /\ C \in Nat /\ P \in Nat
        /\ Round \in Nat /\ Round = 2 * P + 4
        /\ IsFiniteSet(todo[s]) /\ IsFiniteSet(listed[s]) /\ IsFiniteSet(found[s])
    <2>1. /\ todo[s] \in SUBSET Callbacks /\ listed[s] \in SUBSET Pages
          /\ found[s] \in SUBSET PageRows /\ todo'[s] \in SUBSET Callbacks
          /\ listed'[s] \in SUBSET Pages /\ found'[s] \in SUBSET PageRows
      BY <1>1 DEF TypeOK
    <2> QED BY <2>1, WorkType, RoundType
  <1>3. /\ stage[s] \in {"next", "listing", "finding", "flushing", "saved"} =>
              StepsLeft(s) = Place(stage[s]) + (w + 2 * l + f)
        /\ stage'[s] \in {"next", "listing", "finding", "flushing", "saved"} =>
              StepsLeft(s)' = Place(stage'[s]) + (w' + 2 * l' + f')
    BY <1>1 DEF StepsLeft, UnderWay
  <1>4. /\ w \in Nat /\ w' \in Nat /\ A \in Nat /\ w' <= A
        /\ (t = t' => w = w') /\ (t = t' + 1 => w = w' + Round)
    <2>1. w = t * Round /\ w' = t' * Round /\ A = C * Round
      BY DEF Round
    <2> HIDE DEF t, w, A, C
    <2>2. t * Round \in Nat /\ t' * Round \in Nat /\ C * Round \in Nat /\ t' * Round <= C * Round
      BY <1>2, Times
    <2>3. (t' + 1) * Round = t' * Round + Round
      BY <1>2, Times
    <2> QED BY <2>1, <2>2, <2>3
  <1>5. CASE stage[s] # "done" /\ stage'[s] = "done"
    BY <1>1, <1>5, EndsLower
  <1>6. CASE BeginSync(s)
    <2>1. stage[s] = "idle" /\ stage'[s] = "next" /\ f' = f /\ f = 0
      <3>1. found[s] = {} /\ found' = found
        BY <1>1, <1>6 DEF BeginSync, Syncing
      <3> QED BY <1>1, <1>6, <3>1, FS_EmptySet DEF BeginSync, Goto, TypeOK
    <2>2. StepsLeft(s) = A + Round + 3
      BY <1>2, <1>4, <2>1, PlaceType DEF StepsLeft, UnderWay
    <2>3. StepsLeft(s)' = 3 + (w' + 2 * l' + f')
      BY <1>3, <2>1, PlaceType
    <2> HIDE DEF t, l, f, w, P, C, A
    <2>4. \A a, v, k, m \in Nat : v <= a /\ k <= m => 3 + (v + 2 * k + 0) < a + (2 * m + 4) + 3
      OBVIOUS
    <2>5. 3 + (w' + 2 * l' + 0) < A + (2 * P + 4) + 3
      BY <1>2, <1>4, <2>4
    <2> QED BY <1>2, <2>1, <2>2, <2>3, <2>5
  <1>7. ASSUME NEW a \in Callbacks, TakeAccount(s, a), stage'[s] # "done"
        PROVE  StepsLeft(s)' < StepsLeft(s)
    <2>1. /\ stage[s] = "next" /\ stage'[s] = "listing" /\ UNCHANGED <<listed, found>>
          /\ a \in todo[s] /\ todo'[s] = todo[s] \ {a}
      BY <1>1, <1>7 DEF TakeAccount, Raises, Answers, Goto, TypeOK
    <2>2. t' = t - 1 /\ l' = l /\ f' = f
      <3>1. Cardinality(todo[s] \ {a}) = Cardinality(todo[s]) - 1
        BY <1>2, <2>1, FS_RemoveElement
      <3> QED BY <2>1, <3>1
    <2>3. /\ StepsLeft(s) = 3 + (w + 2 * l + f)
          /\ StepsLeft(s)' = Round + 2 + (w' + 2 * l' + f')
      BY <1>3, <2>1, PlaceType
    <2> HIDE DEF t, l, f, w, P, C, A
    <2>4. t = t' + 1
      BY <1>2, <2>2
    <2>5. w = w' + Round
      BY <1>4, <2>4
    <2>6. \A v, k, m, n \in Nat : n + 2 + (v + 2 * k + m) < 3 + ((v + n) + 2 * k + m)
      OBVIOUS
    <2>7. Round + 2 + (w' + 2 * l' + f') < 3 + ((w' + Round) + 2 * l' + f')
      BY <1>2, <1>4, <2>6
    <2> QED BY <2>2, <2>3, <2>5, <2>7
  <1>8. CASE ListPages(s)
    <2>1. /\ stage[s] = "listing" /\ stage'[s] \in {"next", "finding"} /\ UNCHANGED <<todo, found>>
          /\ stage'[s] = "next" => listed'[s] = {}
      BY <1>1, <1>8 DEF ListPages, Goto, TypeOK
    <2>2. t' = t /\ f' = f /\ f = 0
      BY <1>1, <2>1, FS_EmptySet DEF Syncing
    <2>3. /\ StepsLeft(s) = Round + 2 + (w + 2 * l + f)
          /\ StepsLeft(s)' = Place(stage'[s]) + (w' + 2 * l' + f')
      BY <1>3, <2>1, PlaceType
    <2>4. Place(stage'[s]) \in {3, 5}
      BY <2>1, PlaceType
    <2> HIDE DEF t, l, f, w, P, C, A
    <2> QED BY <1>2, <1>4, <2>2, <2>3, <2>4
  <1>9. ASSUME NEW p \in Pages, FindPage(s, p), stage'[s] # "done"
        PROVE  StepsLeft(s)' < StepsLeft(s)
    <2>1. /\ stage[s] = "finding" /\ p \in listed[s] /\ ~ (Cardinality(RowsOf(p, s)) > 1)
          /\ listed'[s] = listed[s] \ {p} /\ todo' = todo
          /\ stage'[s] \in {"finding", "flushing"}
      BY <1>1, <1>9 DEF FindPage, Raises, Answers, Goto, TypeOK
    <2>5. \/ found'[s] = found[s] \cup (IF RowsOf(p, s) = {} THEN {<<s, p>>} ELSE RowsOf(p, s))
          \/ found' = found
      BY <1>1, <1>9 DEF FindPage, Raises, Answers, Goto, TypeOK
    <2>2. PICK x : found'[s] = found[s] \cup {x} \/ found' = found
      <3>1. CASE RowsOf(p, s) = {}
        BY <2>5, <3>1
      <3>2. CASE RowsOf(p, s) # {}
        <4>1. IsFiniteSet(PageRows) /\ RowsOf(p, s) \in SUBSET PageRows
          BY FS_Product DEF Finite, PageRows, RowsOf
        <4>2. IsFiniteSet(RowsOf(p, s)) /\ Cardinality(RowsOf(p, s)) \in Nat
          BY <4>1, FS_Subset, FS_CardinalityType
        <4>3. PICK y \in RowsOf(p, s) : TRUE
          BY <3>2
        <4>4. RowsOf(p, s) = {y}
          <5>1. Cardinality({y}) = 1 /\ {y} \in SUBSET RowsOf(p, s)
            BY <4>3, FS_Singleton
          <5>2. 1 <= Cardinality(RowsOf(p, s)) /\ (Cardinality(RowsOf(p, s)) = 1 => RowsOf(p, s) = {y})
            BY <4>2, <5>1, FS_Subset
          <5> QED BY <2>1, <4>2, <5>2
        <4> QED BY <2>5, <3>2, <4>4
      <3> QED BY <3>1, <3>2
    <2>3. t' = t /\ l' = l - 1 /\ f' <= f + 1
      <3>1. l' = l - 1
        <4>1. Cardinality(listed[s] \ {p}) = Cardinality(listed[s]) - 1
          BY <1>2, <2>1, FS_RemoveElement
        <4> QED BY <2>1, <4>1
      <3>2. f' <= f + 1
        <4>1. Cardinality(found[s] \cup {x}) \in {f, f + 1}
          BY <1>2, FS_AddElement
        <4>2. f' = f \/ f' = Cardinality(found[s] \cup {x})
          BY <2>2
        <4> HIDE DEF t, l, f, w, P, C, A
        <4> QED BY <1>2, <4>1, <4>2
      <3> QED BY <2>1, <3>1, <3>2
    <2>4. /\ StepsLeft(s) = 5 + (w + 2 * l + f)
          /\ StepsLeft(s)' = Place(stage'[s]) + (w' + 2 * l' + f')
          /\ Place(stage'[s]) \in {4, 5}
      BY <1>3, <2>1, PlaceType
    <2> HIDE DEF t, l, f, w, P, C, A
    <2> QED BY <1>2, <1>4, <2>3, <2>4
  <1>10. ASSUME NEW x \in PageRows, FlushPage(s, x)
         PROVE  StepsLeft(s)' < StepsLeft(s)
    <2>1. /\ stage[s] = "flushing" /\ stage'[s] = "flushing" /\ UNCHANGED <<todo, listed>>
          /\ x \in found[s] /\ found'[s] = found[s] \ {x}
      BY <1>1, <1>10 DEF FlushPage, NextRow, ToUpdate, TypeOK
    <2>2. t' = t /\ l' = l /\ f' = f - 1
      <3>1. Cardinality(found[s] \ {x}) = Cardinality(found[s]) - 1
        BY <1>2, <2>1, FS_RemoveElement
      <3> QED BY <2>1, <3>1
    <2>3. /\ StepsLeft(s) = 4 + (w + 2 * l + f)
          /\ StepsLeft(s)' = 4 + (w' + 2 * l' + f')
      BY <1>3, <2>1, PlaceType
    <2> HIDE DEF t, l, f, w, P, C, A
    <2>4. \A v, k, m \in Nat : 4 + (v + 2 * k + (m - 1)) < 4 + (v + 2 * k + m)
      OBVIOUS
    <2>5. 4 + (w + 2 * l + (f - 1)) < 4 + (w + 2 * l + f)
      BY <1>2, <1>4, <2>4
    <2> QED BY <1>4, <2>2, <2>3, <2>5
  <1>11. CASE InsertPages(s)
    <2>1. /\ stage[s] = "flushing" /\ stage'[s] = "next" /\ UNCHANGED <<todo, listed>>
          /\ found'[s] = {}
      BY <1>1, <1>11 DEF InsertPages, Goto, TypeOK
    <2>2. t' = t /\ l' = l /\ f' = 0
      BY <2>1, FS_EmptySet
    <2>3. /\ StepsLeft(s) = 4 + (w + 2 * l + f)
          /\ StepsLeft(s)' = 3 + (w' + 2 * l' + f')
      BY <1>3, <2>1, PlaceType
    <2> HIDE DEF t, l, f, w, P, C, A
    <2>4. \A v, k, m \in Nat : 3 + (v + 2 * k + 0) < 4 + (v + 2 * k + m)
      OBVIOUS
    <2>5. 3 + (w + 2 * l + 0) < 4 + (w + 2 * l + f)
      BY <1>2, <1>4, <2>4
    <2> QED BY <1>4, <2>2, <2>3, <2>5
  <1>12. CASE AllSynced(s)
    <2>1. CASE stage'[s] = "done"
      BY <1>5, <1>12, <2>1 DEF AllSynced
    <2>2. CASE stage'[s] # "done"
      <3>1. stage[s] = "next" /\ stage'[s] = "saved" /\ UNCHANGED <<todo, listed, found>>
        BY <1>1, <1>12, <2>2 DEF AllSynced, Raises, Answers, Goto, TypeOK, syncVars
      <3>2. t' = t /\ l' = l /\ f' = f
        BY <3>1
      <3>3. /\ StepsLeft(s) = 3 + (w + 2 * l + f)
            /\ StepsLeft(s)' = 2 + (w' + 2 * l' + f')
        BY <1>3, <3>1, PlaceType
      <3> HIDE DEF t, l, f, w, P, C, A
      <3>4. \A v, k, m \in Nat : 2 + (v + 2 * k + m) < 3 + (v + 2 * k + m)
        OBVIOUS
      <3>5. 2 + (w + 2 * l + f) < 3 + (w + 2 * l + f)
        BY <1>2, <1>4, <3>4
      <3> QED BY <1>4, <3>2, <3>3, <3>5
    <2> QED BY <2>1, <2>2
  <1>13. CASE Deadlocked(s)
    <2>1. stage[s] # "done" /\ stage'[s] = "done"
      BY <1>1, <1>13 DEF Deadlocked, InDeadlock, WaitsFor, NextRow, Raises, Answers, Goto, TypeOK
    <2> QED BY <1>5, <2>1
  <1>14. stage[s] # "done"
    BY <1>13 DEF SyncStep, BeginSync, Sync, TakeAccount, ListPages, FindPage, FlushPage, NextRow,
          InsertPages, Deadlocked, InDeadlock, WaitsFor, AllSynced
  <1> QED BY <1>5, <1>6, <1>7, <1>8, <1>9, <1>10, <1>11, <1>12, <1>13, <1>14 DEF SyncStep, Sync

\* The steps of a request are bounded before it begins, whatever the others do:
\* with OneMayGoOn, all that have begun end.
THEOREM StepsAreBounded ==
    ASSUME IsFiniteSet(Callbacks), IsFiniteSet(Syncs), IsFiniteSet(Pages)
    PROVE  Spec => StepsRunOut
  <1>1. IInv /\ IInv' /\ [Next]_vars =>
          [\E r \in Requests :
              /\ StepsLeft(r) \in Nat /\ StepsLeft(r)' \in Nat /\ StepsLeft(r)' < StepsLeft(r)
              /\ \A q \in Requests \ {r} : StepsLeft(q)' = StepsLeft(q)]_vars
    <2> SUFFICES ASSUME IInv, IInv', [Next]_vars, ~ UNCHANGED vars
                 PROVE  \E r \in Requests :
                          /\ StepsLeft(r) \in Nat /\ StepsLeft(r)' \in Nat
                          /\ StepsLeft(r)' < StepsLeft(r)
                          /\ \A q \in Requests \ {r} : StepsLeft(q)' = StepsLeft(q)
      OBVIOUS
    <2>1. TypeOK /\ TypeOK' /\ Finite
      BY DEF IInv, Finite
    <2>2. PICK r \in Requests : FounderStep(r) \/ SyncStep(r) \/ SubscribeStep(r)
                                \/ AttemptStep(r) \/ EndStep(r)
      BY Steps
    <2>3. StepsLeft(r)' < StepsLeft(r)
      BY <2>1, <2>2, OtherStepsLower, SyncStepsLower, EndStepsLower
    <2>4. StepsLeft(r) \in Nat /\ StepsLeft(r)' \in Nat
      <3>1. Place(stage'[r]) \in Nat
        BY <2>1, PlaceType DEF TypeOK
      <3>2. r \in Syncs => /\ todo'[r] \in SUBSET Callbacks /\ listed'[r] \in SUBSET Pages
                           /\ found'[r] \in SUBSET PageRows
        BY <2>1 DEF TypeOK
      <3>3. r \in Syncs =>
              Cardinality(todo'[r]) * Round + 2 * Cardinality(listed'[r]) + Cardinality(found'[r])
                \in Nat
        BY <2>1, <3>2, WorkType
      <3>4. StepsLeft(r)' \in Nat
        BY <3>1, <3>3 DEF StepsLeft, UnderWay
      <3> QED BY <2>1, <3>4, StepsLeftType
    <2>5. ASSUME NEW q \in Requests \ {r} PROVE StepsLeft(q)' = StepsLeft(q)
      <3>1. Passive(q)
        BY <2>1, <2>2, FounderPassive, SyncPassive, OtherPassive
      <3> QED BY <3>1 DEF Passive, StepsLeft, UnderWay
    <2> QED BY <2>3, <2>4, <2>5
  <1> QED BY <1>1, Inductive, PTL DEF Spec, StepsRunOut
=============================================================================
