----------------------------- MODULE AccountLink -----------------------------
(***************************************************************************)
(* Sign-in and what it links (services/auth.py, services/facebook.py): the *)
(* users, their Facebook accounts and the pages of these; the OAuth        *)
(* callback, registration, the syncs of pages, the subscription of a page  *)
(* to lead events, and the lookups with which the lead task finds a token. *)
(*                                                                         *)
(* A row is known by the request that inserted it: a user by the callback  *)
(* or registration, an account by the callback, a page by sync and page.   *)
(* Every request has one transaction at READ COMMITTED, committed before   *)
(* its answer; no row is ever deleted.                                     *)
(***************************************************************************)
EXTENDS Naturals, FiniteSets

CONSTANTS
    Emails, Pages,
    Callbacks, Registers,  \* sign-ins with Facebook, registrations
    Syncs, Named,          \* requests to sync pages; those that name an account
    Subscribes,            \* requests to subscribe a page
    Attempts,              \* attempts of the lead task
    For,                   \* For[c]: the Facebook user of callback c
    Profile,               \* Profile[r]: the emails Facebook, or the form, may give
    Manages,               \* Manages[f]: the pages Facebook user f lists
    PageOf,                \* PageOf[l]: the page of the lead of attempt l
    Rank,                  \* Rank[x]: place of page row x among the primary keys
    PastUsers,             \* founders of the users that exist at the start,
    PastLinks,             \*   by account: the user it is linked to,
    PastPages,             \*   by <<sync, page>>: the account it was listed with
    Mixes,                 \* sets of requests that come together
    None,
    Budget                 \* Budget[k]: how many requests fault k may hit

Founders == Callbacks \cup Registers
Requests == Founders \cup Syncs \cup Subscribes \cup Attempts
PageRows == Syncs \X Pages
Locks == ({"user"} \X Founders) \cup ({"account"} \X Callbacks) \cup ({"page"} \X PageRows)
FaultKinds == {"meta", "cut"}

ASSUME AccountConstants ==
    /\ Callbacks \cap Registers = {} /\ Founders \cap Syncs = {}
    /\ Named \subseteq Syncs
    /\ Subscribes \cap (Founders \cup Syncs) = {}
    /\ Attempts \cap (Founders \cup Syncs \cup Subscribes) = {}
    /\ None \notin Requests \cup PageRows
    /\ Callbacks # {}
    /\ Profile \in [Founders -> (SUBSET Emails) \ {{}}]
    /\ \A c \in Callbacks : Manages[For[c]] \subseteq Pages
    /\ PastUsers \subseteq Founders
    /\ \A q, r \in PastUsers : q # r => Profile[q] \cap Profile[r] = {}
    /\ DOMAIN PastLinks \subseteq Callbacks
    /\ \A c \in DOMAIN PastLinks : PastLinks[c] \in PastUsers
    /\ \A c, d \in DOMAIN PastLinks : c # d => For[c] # For[d]
    /\ DOMAIN PastPages \subseteq PageRows
    /\ \A x \in DOMAIN PastPages :
          PastPages[x] \in DOMAIN PastLinks /\ x[2] \in Manages[For[PastPages[x]]]
    /\ Rank \in [PageRows -> Nat]
    /\ Mixes \subseteq SUBSET Requests
    /\ Budget \in [FaultKinds -> Nat]

VARIABLES
    userRow,     \* userRow[r], accountRow[c], pageRow[x]: "none", "open"
    accountRow,  \*   (inserted, not committed) or "there"
    pageRow,
    email,       \* email[r]: of the user that callback or registration r is about
    link,        \* link[c]: user of account c, and callback that gave its token
    of,          \* of[x]: account and user of page row x
    subscribed,  \* page rows with webhook_subscribed
    locks,       \* locks[r]: rows that r has updated and not committed
    stage,       \* stage[r]: where request r stands
    user,        \* user[r]: the user it works for
    row,         \* row[r]: the account or page row it has found
    loaded,      \* loaded[c]: user_id of the account callback c has found
    todo,        \* todo[s]: accounts that sync s has still to go through
    listed,      \* listed[s]: pages listed and not yet looked up
    found,       \* found[s]: page rows it has found and not yet updated
    answer,      \* answer[r]: "none", "ok", "rejected" (a 4xx) or "error"
    marked,      \* subscribe requests that have loaded a page as subscribed,
    accepted,    \*   and those that Meta answered with success
    atMeta,      \* pages that Meta sends lead events of (history)
    linked,      \* pairs of a user and an account ever linked (history)
    alone,       \* callbacks not met by another for their account (history)
    faults       \* faults[k]: the requests fault k has hit

rowVars == <<userRow, accountRow, pageRow, locks>>
columnVars == <<link, of, subscribed, linked>>
requestVars == <<email, user, row, loaded>>
syncVars == <<todo, listed, found>>
metaVars == <<atMeta, marked, accepted>>
vars == <<rowVars, columnVars, stage, requestVars, syncVars, answer, metaVars, alone, faults>>

RowStates == {"none", "open", "there"}
Stages == {"idle", "known", "foundUser", "savedUser", "foundAccount", "next", "listing",
           "finding", "flushing", "foundPage", "asked", "saved", "committed", "done"}

TypeOK ==
    /\ userRow \in [Founders -> RowStates]
    /\ accountRow \in [Callbacks -> RowStates]
    /\ pageRow \in [PageRows -> RowStates]
    /\ email \in [Founders -> Emails]
    /\ link \in [Callbacks -> [user : Founders, token : Callbacks]]
    /\ of \in [PageRows -> [account : Callbacks, user : Founders]]
    /\ subscribed \subseteq PageRows
    /\ locks \in [Requests -> SUBSET Locks]
    /\ stage \in [Requests -> Stages]
    /\ user \in [Requests -> Founders \cup {None}]
    /\ row \in [Requests -> Callbacks \cup PageRows \cup {None}]
    /\ loaded \in [Callbacks -> Founders \cup {None}]
    /\ todo \in [Syncs -> SUBSET Callbacks]
    /\ listed \in [Syncs -> SUBSET Pages]
    /\ found \in [Syncs -> SUBSET PageRows]
    /\ answer \in [Requests -> {"none", "ok", "rejected", "error"}]
    /\ marked \subseteq Subscribes
    /\ accepted \subseteq Subscribes
    /\ atMeta \subseteq Pages
    /\ linked \subseteq Founders \X Callbacks
    /\ alone \subseteq Callbacks
    /\ faults \in [FaultKinds -> SUBSET Requests]

PastRequests == PastUsers \cup DOMAIN PastLinks \cup {x[1] : x \in DOMAIN PastPages}
SomeFounder == CHOOSE r \in Founders : TRUE
SomeAccount == CHOOSE c \in Callbacks : TRUE

\* The columns of rows that do not exist, and what a request has not looked up
\* yet, hold values without meaning.
Init ==
    /\ userRow = [r \in Founders |-> IF r \in PastUsers THEN "there" ELSE "none"]
    /\ accountRow = [c \in Callbacks |-> IF c \in DOMAIN PastLinks THEN "there" ELSE "none"]
    /\ pageRow = [x \in PageRows |-> IF x \in DOMAIN PastPages THEN "there" ELSE "none"]
    /\ email = [r \in Founders |-> CHOOSE e \in Profile[r] : TRUE]
    /\ link = [c \in Callbacks |->
                 [user |-> IF c \in DOMAIN PastLinks THEN PastLinks[c] ELSE SomeFounder,
                  token |-> c]]
    /\ of = [x \in PageRows |->
               LET a == IF x \in DOMAIN PastPages THEN PastPages[x] ELSE SomeAccount
               IN [account |-> a, user |-> link[a].user]]
    /\ subscribed = {}
    /\ locks = [r \in Requests |-> {}]
    /\ \E mix \in Mixes :
        stage = [r \in Requests |-> IF r \in mix \ PastRequests THEN "idle" ELSE "done"]
    /\ user = [r \in Requests |-> None]
    /\ row = [r \in Requests |-> None]
    /\ loaded = [c \in Callbacks |-> None]
    /\ todo = [s \in Syncs |-> {}]
    /\ listed = [s \in Syncs |-> {}]
    /\ found = [s \in Syncs |-> {}]
    /\ answer = [r \in Requests |-> "none"]
    /\ marked = {}
    /\ accepted = {}
    /\ atMeta = {}
    /\ linked = {<<PastLinks[c], c>> : c \in DOMAIN PastLinks}
    /\ alone = DOMAIN PastLinks
    /\ faults = [k \in FaultKinds |-> {}]

Fault(k, r) ==
    /\ faults' = [faults EXCEPT ![k] = @ \cup {r}]
    /\ Cardinality(faults'[k]) <= Budget[k]

UnderWay(r) == stage[r] \notin {"idle", "done"}
Goto(r, s) == stage' = [stage EXCEPT ![r] = s]
Set(f, r, v) == [f EXCEPT ![r] = v]

-----------------------------------------------------------------------------
(* Rows and locks                                                          *)

Locked(x, r) == \E q \in Requests \ {r} : x \in locks[q]

\* An UPDATE of x by r waits for the transaction that has updated it.
Update(r, x) ==
    /\ ~ Locked(x, r)
    /\ locks' = [locks EXCEPT ![r] = @ \cup {x}]

\* Mutant: the session of a sync is left open.
ReleasedNot(r) == IF r \in Syncs THEN UNCHANGED locks ELSE locks' = [locks EXCEPT ![r] = {}]

Released(r) == locks' = [locks EXCEPT ![r] = {}]

Rollback(r) ==
    /\ userRow' = [q \in Founders |-> IF q = r /\ userRow[q] = "open" THEN "none" ELSE userRow[q]]
    /\ accountRow' = [c \in Callbacks |->
                        IF c = r /\ accountRow[c] = "open" THEN "none" ELSE accountRow[c]]
    /\ pageRow' = [x \in PageRows |->
                     IF x[1] = r /\ pageRow[x] = "open" THEN "none" ELSE pageRow[x]]
    /\ Released(r)

Answers(r, a) ==
    /\ Goto(r, "done")
    /\ answer' = [answer EXCEPT ![r] = a]

\* The handler raises: get_db rolls back, and the error is answered.
Raises(r, a) == Rollback(r) /\ Answers(r, a)

\* Ends a request that has written nothing, or has committed.
Ends(r, a) == Answers(r, a) /\ UNCHANGED rowVars

UsersWith(e) == {q \in Founders : userRow[q] = "there" /\ email[q] = e}
AccountsFor(f) == {c \in Callbacks : accountRow[c] = "there" /\ For[c] = f}
AccountsOf(u) == {c \in Callbacks : accountRow[c] = "there" /\ link[c].user = u}
OneOf(S) == IF S = {} THEN None ELSE CHOOSE x \in S : TRUE

\* Page rows that r sees: what is committed, and its own.
RowsOf(p, r) ==
    {x \in PageRows : x[2] = p /\ (pageRow[x] = "there" \/ (pageRow[x] = "open" /\ x[1] = r))}

-----------------------------------------------------------------------------
(* Sign-in                                                                 *)

\* The code is exchanged, the token extended and the profile read, all before
\* the database is used.  A profile without email gets a made-up one, so that a
\* Facebook user may come with more than one.
AskFacebook(c) ==
    /\ stage[c] = "idle"
    /\ c \in Callbacks
    /\ \E e \in Profile[c] : email' = Set(email, c, e)
    /\ Goto(c, "known")
    /\ LET others == {d \in Callbacks \ {c} : For[d] = For[c]} IN
       alone' = (alone \ others) \cup (IF \E d \in others : UnderWay(d) THEN {} ELSE {c})
    /\ UNCHANGED <<rowVars, columnVars, user, row, loaded, syncVars, answer, metaVars, faults>>

\* The form of a registration.
Submit(r) ==
    /\ stage[r] = "idle"
    /\ r \in Registers
    /\ \E e \in Profile[r] : email' = Set(email, r, e)
    /\ Goto(r, "known")
    /\ UNCHANGED <<rowVars, columnVars, user, row, loaded, syncVars, answer, metaVars, alone, faults>>

\* get_by_email; a registration is refused if there is one.
FindUser(r) ==
    /\ stage[r] = "known"
    /\ user' = Set(user, r, OneOf(UsersWith(email[r])))
    /\ IF r \in Registers /\ user'[r] # None THEN Answers(r, "rejected")
       ELSE Goto(r, "foundUser") /\ UNCHANGED answer
    /\ UNCHANGED <<rowVars, columnVars, email, row, loaded, syncVars, metaVars, alone, faults>>

\* Mutant: users.email without its unique index.
InsertUserUnindexed(r) ==
    /\ stage[r] = "foundUser" /\ user[r] = None
    /\ userRow' = Set(userRow, r, "open")
    /\ user' = Set(user, r, r)
    /\ Goto(r, IF r \in Callbacks THEN "savedUser" ELSE "saved")
    /\ UNCHANGED <<accountRow, pageRow, locks, answer>>
    /\ UNCHANGED <<columnVars, email, row, loaded, syncVars, metaVars, alone, faults>>

\* The INSERT of a user waits for the uncommitted user of another session with
\* its email, and fails on a committed one: an IntegrityError, not handled.
InsertUser(r) ==
    /\ stage[r] = "foundUser" /\ user[r] = None
    /\ \A q \in Founders : userRow[q] = "open" => email[q] # email[r]
    /\ IF UsersWith(email[r]) = {}
       THEN /\ userRow' = Set(userRow, r, "open")
            /\ user' = Set(user, r, r)
            /\ Goto(r, IF r \in Callbacks THEN "savedUser" ELSE "saved")
            /\ UNCHANGED <<accountRow, pageRow, locks, answer>>
       ELSE Raises(r, "error") /\ UNCHANGED user
    /\ UNCHANGED <<columnVars, email, row, loaded, syncVars, metaVars, alone, faults>>

\* Name and picture are brought up to date; unchanged, no UPDATE is issued.
UpdateUser(c) ==
    /\ stage[c] = "foundUser" /\ user[c] # None
    /\ Update(c, <<"user", user[c]>>) \/ UNCHANGED locks
    /\ Goto(c, "savedUser")
    /\ UNCHANGED <<userRow, accountRow, pageRow>>
    /\ UNCHANGED <<columnVars, requestVars, syncVars, answer, metaVars, alone, faults>>

\* get_by_facebook_id.
FindAccount(c) ==
    /\ stage[c] = "savedUser"
    /\ row' = Set(row, c, OneOf(AccountsFor(For[c])))
    /\ loaded' = Set(loaded, c, IF row'[c] = None THEN None ELSE link[row'[c]].user)
    /\ Goto(c, "foundAccount")
    /\ UNCHANGED <<rowVars, columnVars, email, user, syncVars, answer, metaVars, alone, faults>>

\* The INSERT of an account, which facebook_user_id keeps unique.
InsertAccount(c) ==
    /\ stage[c] = "foundAccount" /\ row[c] = None
    /\ \A d \in Callbacks : accountRow[d] = "open" => For[d] # For[c]
    /\ IF AccountsFor(For[c]) = {}
       THEN /\ accountRow' = Set(accountRow, c, "open")
            /\ row' = Set(row, c, c)
            /\ Goto(c, "saved")
            /\ UNCHANGED <<userRow, pageRow, locks, answer>>
       ELSE Raises(c, "error") /\ UNCHANGED row
    /\ UNCHANGED <<columnVars, email, user, loaded, syncVars, metaVars, alone, faults>>

\* The account gets the new token and the callback's user; the encryption of a
\* token is never the same, so that there is always an UPDATE.
UpdateAccount(c) ==
    /\ stage[c] = "foundAccount" /\ row[c] # None
    /\ Update(c, <<"account", row[c]>>)
    /\ Goto(c, "saved")
    /\ UNCHANGED <<userRow, accountRow, pageRow>>
    /\ UNCHANGED <<columnVars, requestVars, syncVars, answer, metaVars, alone, faults>>

-----------------------------------------------------------------------------
(* Pages                                                                   *)

\* sync_pages names an account, sync_all_user_pages takes all of the user's; no
\* order is asked for.
BeginSync(s) ==
    /\ stage[s] = "idle"
    /\ \E u \in Founders :
        /\ userRow[u] = "there"
        /\ user' = Set(user, s, u)
        /\ IF s \in Named
           THEN \E a \in Callbacks : accountRow[a] = "there" /\ todo' = Set(todo, s, {a})
           ELSE todo' = Set(todo, s, AccountsOf(u))
    /\ Goto(s, "next")
    /\ UNCHANGED <<rowVars, columnVars, email, row, loaded, listed, found, answer, metaVars, alone, faults>>

\* Mutant: the account is looked up by its id only.
TakeAnyAccount(s, a) ==
    /\ stage[s] = "next" /\ a \in todo[s]
    /\ todo' = Set(todo, s, todo[s] \ {a})
    /\ row' = Set(row, s, a)
    /\ Goto(s, "listing")
    /\ UNCHANGED <<rowVars, answer>>
    /\ UNCHANGED <<columnVars, email, user, loaded, listed, found, metaVars, alone, faults>>

\* _get_fb_account_token: an account that is not, or no longer, the user's ends
\* the whole request.
TakeAccount(s, a) ==
    /\ stage[s] = "next" /\ a \in todo[s]
    /\ todo' = Set(todo, s, todo[s] \ {a})
    /\ row' = Set(row, s, a)
    /\ IF link[a].user = user[s] THEN Goto(s, "listing") /\ UNCHANGED <<rowVars, answer>>
       ELSE Raises(s, "rejected")
    /\ UNCHANGED <<columnVars, email, user, loaded, listed, found, metaVars, alone, faults>>

ListPages(s) ==
    /\ stage[s] = "listing"
    /\ listed' = Set(listed, s, Manages[For[row[s]]])
    /\ Goto(s, IF listed'[s] = {} THEN "next" ELSE "finding")
    /\ UNCHANGED <<rowVars, columnVars, requestVars, todo, found, answer, metaVars, alone, faults>>

\* A listed page is looked up by page_id alone; two rows raise
\* MultipleResultsFound.  A row to insert is not seen before the flush, which
\* comes when all are looked up.  A row that is there is updated, unless the page
\* is listed without a token and under the same name.
FindPage(s, p) ==
    /\ stage[s] = "finding" /\ p \in listed[s]
    /\ LET rows == RowsOf(p, s) IN
       IF Cardinality(rows) > 1 THEN Raises(s, "error") /\ UNCHANGED <<listed, found>>
       ELSE /\ \/ found' = Set(found, s, found[s] \cup
                               IF rows = {} THEN {<<s, p>>} ELSE rows)
               \/ rows # {} /\ UNCHANGED found
            /\ listed' = Set(listed, s, listed[s] \ {p})
            /\ Goto(s, IF listed'[s] = {} THEN "flushing" ELSE "finding")
            /\ UNCHANGED <<rowVars, answer>>
    /\ UNCHANGED <<columnVars, requestVars, todo, metaVars, alone, faults>>

ToUpdate(s) == {x \in found[s] : pageRow[x] # "none"}

\* The next row of a flush: its updates go by primary key.
NextRow(s, x) ==
    /\ stage[s] = "flushing"
    /\ x \in ToUpdate(s)
    /\ \A y \in ToUpdate(s) : Rank[x] <= Rank[y]

\* Token and name of a page; the owner, the account and the subscription stay.
FlushPage(s, x) ==
    /\ NextRow(s, x)
    /\ Update(s, <<"page", x>>)
    /\ found' = Set(found, s, found[s] \ {x})
    /\ UNCHANGED <<userRow, accountRow, pageRow>>
    /\ UNCHANGED <<columnVars, stage, requestVars, todo, listed, answer, metaVars, alone, faults>>

\* Mutant: a page is stored with any account of the user.
InsertPagesAnyAccount(s) ==
    /\ stage[s] = "flushing" /\ ToUpdate(s) = {}
    /\ pageRow' = [x \in PageRows |-> IF x \in found[s] THEN "open" ELSE pageRow[x]]
    /\ \E a \in AccountsOf(user[s]) :
        of' = [x \in PageRows |->
                 IF x \in found[s] THEN [account |-> a, user |-> user[s]] ELSE of[x]]
    /\ found' = Set(found, s, {})
    /\ Goto(s, "next")
    /\ UNCHANGED <<userRow, accountRow, locks>>
    /\ UNCHANGED <<link, subscribed, linked, requestVars, todo, listed, answer, metaVars, alone, faults>>

\* The INSERTs, which no unique index checks.
InsertPages(s) ==
    /\ stage[s] = "flushing" /\ ToUpdate(s) = {}
    /\ pageRow' = [x \in PageRows |-> IF x \in found[s] THEN "open" ELSE pageRow[x]]
    /\ of' = [x \in PageRows |->
                IF x \in found[s] THEN [account |-> row[s], user |-> user[s]] ELSE of[x]]
    /\ found' = Set(found, s, {})
    /\ Goto(s, "next")
    /\ UNCHANGED <<userRow, accountRow, locks>>
    /\ UNCHANGED <<link, subscribed, linked, requestVars, todo, listed, answer, metaVars, alone, faults>>

WaitsFor(s, t) == \E x \in PageRows : NextRow(s, x) /\ <<"page", x>> \in locks[t]

InDeadlock(s) == \E S \in SUBSET Syncs : s \in S /\ \A t \in S : \E q \in S : WaitsFor(t, q)

\* Syncs that go through accounts in different orders wait for each other;
\* PostgreSQL ends the wait of one.
Deadlocked(s) ==
    /\ InDeadlock(s)
    /\ Raises(s, "error")
    /\ UNCHANGED <<columnVars, requestVars, syncVars, metaVars, alone, faults>>

\* The pages are the answer.  sync_all_user_pages reads them once more; sync_pages
\* answers with what it has flushed, and the updated_at of an updated row has
\* expired: reading it raises MissingGreenlet, and all is rolled back.
AllSynced(s) ==
    /\ stage[s] = "next" /\ todo[s] = {}
    /\ IF s \in Named /\ locks[s] # {} THEN Raises(s, "error")
       ELSE Goto(s, "saved") /\ UNCHANGED <<rowVars, answer>>
    /\ UNCHANGED <<columnVars, requestVars, syncVars, metaVars, alone, faults>>

\* subscribe_page_webhook: the page by id and user, with its token.
FindOwnPage(w) ==
    /\ stage[w] = "idle"
    /\ \E u \in Founders, x \in PageRows :
        /\ userRow[u] = "there" /\ pageRow[x] = "there"
        /\ user' = Set(user, w, u)
        /\ row' = Set(row, w, x)
        /\ marked' = IF x \in subscribed THEN marked \cup {w} ELSE marked
        /\ IF of[x].user = u THEN Goto(w, "foundPage") /\ UNCHANGED answer
           ELSE Answers(w, "rejected")
    /\ UNCHANGED <<rowVars, columnVars, email, loaded, syncVars, atMeta, accepted, alone, faults>>

\* Mutant: the page is named by the id of its row.
AskMetaById(w) ==
    /\ stage[w] = "foundPage"
    /\ atMeta' = atMeta \cup {row[w]}
    /\ accepted' = accepted \cup {w}
    /\ Goto(w, "asked")
    /\ UNCHANGED <<rowVars, columnVars, requestVars, syncVars, answer, marked, alone, faults>>

\* subscribe_page_to_app returns what Meta answers, also an error, after which
\* the page may be subscribed, or have been before.
AskMeta(w) ==
    /\ stage[w] = "foundPage"
    /\ \/ /\ accepted' = accepted \cup {w}
          /\ atMeta' = atMeta \cup {row[w][2]}
       \/ /\ atMeta' \in {atMeta, atMeta \cup {row[w][2]}}
          /\ UNCHANGED accepted
    /\ Goto(w, "asked")
    /\ UNCHANGED <<rowVars, columnVars, requestVars, syncVars, answer, marked, alone, faults>>

\* webhook_subscribed becomes the "success" of the answer, or False without one:
\* no UPDATE is issued if the page was loaded with that value.
Changes(w) == w \in accepted <=> w \notin marked

SaveSubscription(w) ==
    /\ stage[w] = "asked"
    /\ IF Changes(w) THEN Update(w, <<"page", row[w]>>) ELSE UNCHANGED locks
    /\ Goto(w, "saved")
    /\ UNCHANGED <<userRow, accountRow, pageRow>>
    /\ UNCHANGED <<columnVars, requestVars, syncVars, answer, metaVars, alone, faults>>

\* Mutant: the page is marked whatever Meta has answered.
MarksAlways(w) == subscribed \cup {row[w]}

\* The pages marked subscribed once request w has committed.
Marks(w) ==
    IF ~ Changes(w) THEN subscribed
    ELSE IF w \in accepted THEN subscribed \cup {row[w]} ELSE subscribed \ {row[w]}

-----------------------------------------------------------------------------
(* The lead task's way to a token                                          *)

\* The page by page_id, of whichever user; a page without a row is skipped.
FindOwner(l) ==
    /\ stage[l] = "idle"
    /\ LET rows == RowsOf(PageOf[l], l) IN
       IF Cardinality(rows) = 1
       THEN /\ row' = Set(row, l, OneOf(rows))
            /\ user' = Set(user, l, of[row'[l]].user)
            /\ Goto(l, "foundPage")
            /\ UNCHANGED answer
       ELSE Answers(l, IF rows = {} THEN "rejected" ELSE "error") /\ UNCHANGED <<row, user>>
    /\ UNCHANGED <<rowVars, columnVars, email, loaded, syncVars, metaVars, alone, faults>>

\* The first account of the page's user, whichever that is: not the page's.  Its
\* token has to be one with which Facebook shows the page's leads.
FetchLead(l) ==
    /\ stage[l] = "foundPage"
    /\ \/ AccountsOf(user[l]) = {} /\ Ends(l, "error") /\ UNCHANGED row
       \/ \E a \in AccountsOf(user[l]) :
            /\ row' = Set(row, l, a)
            /\ Ends(l, IF PageOf[l] \in Manages[For[link[a].token]] THEN "ok" ELSE "error")
    /\ UNCHANGED <<columnVars, email, user, loaded, syncVars, metaVars, alone, faults>>

-----------------------------------------------------------------------------
(* The end of a request                                                    *)

\* Mutant: the user of an account that is known is left alone.
LinkOfFirst(c) ==
    IF row[c] = c THEN [user |-> user[c], token |-> c]
    ELSE [link[row[c]] EXCEPT !.token = c]

\* What a callback makes of the account it has saved: user_id is only written
\* if it differs from what was loaded.
LinkOf(c) ==
    IF row[c] = c \/ loaded[c] # user[c] THEN [user |-> user[c], token |-> c]
    ELSE [link[row[c]] EXCEPT !.token = c]

Commit(r) ==
    /\ stage[r] = "saved"
    /\ userRow' = [q \in Founders |-> IF q = r /\ userRow[q] = "open" THEN "there" ELSE userRow[q]]
    /\ accountRow' = [c \in Callbacks |->
                        IF c = r /\ accountRow[c] = "open" THEN "there" ELSE accountRow[c]]
    /\ pageRow' = [x \in PageRows |->
                     IF x[1] = r /\ pageRow[x] = "open" THEN "there" ELSE pageRow[x]]
    /\ Released(r)
    /\ link' = IF r \in Callbacks THEN Set(link, row[r], LinkOf(r)) ELSE link
    /\ linked' = IF r \in Callbacks THEN linked \cup {<<link'[row[r]].user, row[r]>>} ELSE linked
    /\ subscribed' = IF r \in Subscribes THEN Marks(r) ELSE subscribed
    /\ Goto(r, "committed")
    /\ UNCHANGED <<of, requestVars, syncVars, answer, metaVars, alone, faults>>

Reply(r) ==
    /\ stage[r] = "committed"
    /\ Ends(r, "ok")
    /\ UNCHANGED <<columnVars, requestVars, syncVars, metaVars, alone, faults>>

CallsMeta(r) ==
    \/ r \in Callbacks /\ stage[r] = "known"
    \/ stage[r] = "listing"
    \/ stage[r] = "foundPage"

\* A call to Facebook raises: it is refused, except for a subscription, or goes
\* unanswered, in which case a subscription may have been made.
MetaFails(r) ==
    /\ CallsMeta(r)
    /\ Fault("meta", r)
    /\ Raises(r, "error")
    /\ IF r \in Subscribes THEN atMeta' \in {atMeta, atMeta \cup {row[r][2]}}
       ELSE UNCHANGED atMeta
    /\ UNCHANGED <<columnVars, requestVars, syncVars, marked, accepted, alone>>

\* The database fails, also at a commit that lands, and a 500 is answered; or the
\* process dies, and nothing is.
CutOff(r) ==
    /\ UnderWay(r)
    /\ Fault("cut", r)
    /\ Raises(r, "error") \/ Raises(r, "none")
    /\ UNCHANGED <<columnVars, requestVars, syncVars, metaVars, alone>>

SignIn(r) ==
    \/ FindUser(r) \/ InsertUser(r)
    \/ r \in Callbacks /\ (UpdateUser(r) \/ FindAccount(r) \/ InsertAccount(r) \/ UpdateAccount(r))

Sync(s) ==
    \/ \E a \in Callbacks : TakeAccount(s, a)
    \/ ListPages(s)
    \/ \E p \in Pages : FindPage(s, p)
    \/ \E x \in PageRows : FlushPage(s, x)
    \/ InsertPages(s) \/ Deadlocked(s) \/ AllSynced(s)

Proceed(r) ==
    \/ r \in Founders /\ SignIn(r)
    \/ r \in Syncs /\ Sync(r)
    \/ r \in Subscribes /\ (AskMeta(r) \/ SaveSubscription(r))
    \/ r \in Attempts /\ FetchLead(r)
    \/ Commit(r) \/ Reply(r)

Begin(r) ==
    \/ AskFacebook(r) \/ Submit(r)
    \/ r \in Syncs /\ BeginSync(r)
    \/ r \in Subscribes /\ FindOwnPage(r)
    \/ r \in Attempts /\ FindOwner(r)

Done == (\A r \in Requests : ~ UnderWay(r)) /\ UNCHANGED vars

Next ==
    \/ \E r \in Requests : Begin(r) \/ Proceed(r) \/ MetaFails(r) \/ CutOff(r)
    \/ Done

Spec == Init /\ [][Next]_vars

\* While a request can be served on, some request is: calls to the Graph API end
\* by their timeout.  This is less than fairness for each, and enough, as every
\* request has finitely many steps.
FairSpec == Spec /\ WF_vars(\E r \in Requests : Proceed(r))

-----------------------------------------------------------------------------
(* Properties                                                              *)

\* However sign-ins and registrations overlap, each of which looks before it
\* inserts, an email has one user and a Facebook user one account: with two,
\* every later scalar_one_or_none for them would raise.
OneRowEach ==
    /\ \A e \in Emails : Cardinality(UsersWith(e)) <= 1
    /\ \A c \in Callbacks : Cardinality(AccountsFor(For[c])) <= 1

\* A sign-in that was answered, and that no other for its account has met or
\* followed, has left the account with the token it brought and the user it
\* signed in, also when the account was another user's before.
LoneLinkHolds ==
    \A c \in alone : answer[c] = "ok" =>
        \E a \in AccountsFor(For[c]) :
            link[a].token = c /\ link[a].user \in UsersWith(email[c])

\* A page is kept for a user who was linked to the account it was listed with,
\* and for an account whose Facebook user sees it: what a sync has read before
\* it asked Facebook may be outdated, but not another user's.
OwnersWereLinked ==
    \A x \in PageRows : pageRow[x] = "there" =>
        /\ <<of[x].user, of[x].account>> \in linked
        /\ x[2] \in Manages[For[of[x].account]]

HandedOver(a) == \E u, v \in Founders : u # v /\ <<u, a>> \in linked /\ <<v, a>> \in linked

Cause(l) ==
    \/ \E k \in FaultKinds : l \in faults[k]
    \/ \E x \in RowsOf(PageOf[l], l) :
        \/ RowsOf(PageOf[l], l) # {x}
        \/ row[l] \in PageRows /\ HandedOver(of[x].account)
        \/ row[l] \in Callbacks /\ row[l] # of[x].account

\* A lead of a page that is known is out of reach only for a reason: a fault, a
\* page stored twice, an account handed over to another user, whose pages stay
\* behind, or another account of the owner, of which the task takes any.
LostLeadNeedsCause == \A l \in Attempts : answer[l] = "error" => Cause(l)

\* The requests for page row x that Meta has not accepted and that have committed,
\* or were cut off and may have.
RefusedFor(x) ==
    {v \in Subscribes \ accepted :
        row[v] = x /\ (stage[v] = "committed" \/ answer[v] = "ok" \/ v \in faults["cut"])}

\* A page marked subscribed is one whose events Meta sends.  A request that Meta
\* has accepted and that was answered has marked it for good, whatever syncs write
\* to the row, unless Meta did not accept another for the page: that one may
\* take the mark away, and then one that had loaded it does not write it again.
SubscriptionTold ==
    /\ \A x \in subscribed : x[2] \in atMeta
    /\ \A w \in accepted : answer[w] = "ok" =>
          row[w] \in subscribed \/ RefusedFor(row[w]) # {}

\* Requests come to an end, all of them: sign-ins take the lock of a user before
\* that of an account and never wait in a circle, and of syncs that do one is
\* ended.  (There are finitely many, so each ends if now and then none is open.)
RequestsEnd == []<>(\A r \in Requests : ~ UnderWay(r))

-----------------------------------------------------------------------------
(* An inductive invariant for all of these but the last                    *)

\* An email and a Facebook user have one row also among what is not committed.
Unique ==
    /\ \A q, r \in Founders :
          userRow[q] # "none" /\ userRow[r] # "none" /\ email[q] = email[r] => q = r
    /\ \A c, d \in Callbacks :
          accountRow[c] # "none" /\ accountRow[d] # "none" /\ For[c] = For[d] => c = d

\* The user that sign-in or registration r works for has its email.
SigningIn(r) ==
    /\ stage[r] = "idle" => userRow[r] = "none"
    /\ userRow[r] = "open" => stage[r] \in {"savedUser", "foundAccount", "saved"}
    /\ UnderWay(r) /\ stage[r] # "known" /\ user[r] # None =>
          user[r] \in UsersWith(email[r]) \/ (user[r] = r /\ userRow[r] = "open")
    /\ stage[r] \in {"savedUser", "foundAccount", "saved", "committed"} => user[r] # None

Holds(c) ==
    \E a \in AccountsFor(For[c]) : link[a].token = c /\ link[a].user \in UsersWith(email[c])

\* The account that callback c works for is that of its Facebook user.
Linking(c) ==
    /\ row[c] \in Callbacks \cup {None}
    /\ stage[c] \in {"foundAccount", "saved", "committed"} /\ row[c] # None =>
          row[c] \in AccountsFor(For[c]) \/ (row[c] = c /\ accountRow[c] = "open")
    /\ stage[c] \in {"saved", "committed"} => row[c] # None
    /\ accountRow[c] = "open" => stage[c] = "saved" /\ row[c] = c
    /\ accountRow[c] = "there" => <<link[c].user, c>> \in linked
    /\ For[link[c].token] = For[c]
    /\ \A u \in Founders : <<u, c>> \in linked => accountRow[c] = "there"

\* No other callback for its account comes in the way of c.
Alone(c) == c \in alone =>
    /\ stage[c] # "idle"
    /\ \A d \in Callbacks \ {c} : For[d] = For[c] => ~ UnderWay(d)
    /\ stage[c] \in {"foundAccount", "saved"} /\ row[c] \notin {None, c} =>
          link[row[c]].user = loaded[c]
    /\ stage[c] = "committed" \/ answer[c] = "ok" => Holds(c)

\* What sync s has found are pages of an account that was linked to its user.
Syncing(s) ==
    /\ UnderWay(s) => user[s] \in Founders
    /\ \A a \in todo[s] : accountRow[a] = "there"
    /\ stage[s] \in {"listing", "finding", "flushing"} =>
          row[s] \in Callbacks /\ <<user[s], row[s]>> \in linked
    /\ stage[s] \in {"idle", "next", "listing"} => found[s] = {}
    /\ stage[s] \in {"finding", "flushing"} =>
          \A p \in listed[s] \cup {x[2] : x \in found[s]} : p \in Manages[For[row[s]]]

Owned(x) ==
    /\ <<of[x].user, of[x].account>> \in linked
    /\ x[2] \in Manages[For[of[x].account]]

Marked(x) == x \in subscribed \/ RefusedFor(x) # {}

\* The page that request w subscribes, and what it knows of it.
Subscribing(w) ==
    /\ UnderWay(w) \/ answer[w] = "ok" \/ w \in accepted => row[w] \in PageRows
    /\ w \in accepted => row[w][2] \in atMeta
    /\ stage[w] = "idle" => w \notin accepted \cup marked
    /\ stage[w] = "foundPage" => w \notin accepted
    /\ w \in faults["cut"] => stage[w] = "done"
    /\ w \in marked => Marked(row[w])
    /\ w \in accepted /\ (stage[w] = "committed" \/ answer[w] = "ok") => Marked(row[w])

\* The owner that attempt l has found is that of a page with its name.
Attempting(l) ==
    /\ stage[l] \in {"idle", "foundPage", "done"}
    /\ stage[l] = "foundPage" =>
          /\ row[l] \in PageRows /\ pageRow[row[l]] = "there" /\ row[l][2] = PageOf[l]
          /\ user[l] = of[row[l]].user
    /\ answer[l] = "error" => Cause(l)

\* One row for each, and rows and requests that agree on whose they are.
IInv ==
    /\ TypeOK /\ Unique
    /\ \A r \in Requests : answer[r] # "none" => stage[r] = "done"
    /\ \A r \in Founders : SigningIn(r)
    /\ \A c \in Callbacks : Linking(c) /\ Alone(c)
    /\ \A s \in Syncs : Syncing(s)
    /\ \A x \in PageRows : pageRow[x] # "none" => Owned(x)
    /\ \A w \in Subscribes : Subscribing(w)
    /\ \A x \in subscribed : x[2] \in atMeta
    /\ \A l \in Attempts : Attempting(l)

-----------------------------------------------------------------------------
(* Progress, the part of RequestsEnd that is safety                        *)

\* Request r is under way and need not wait for another: what enables Proceed(r).
MayGoOn(r) ==
    \/ stage[r] \in {"known", "savedUser", "next", "listing", "finding", "foundPage", "saved",
                     "committed"}
    \/ /\ stage[r] = "foundUser"
       /\ user[r] # None \/ \A q \in Founders : userRow[q] = "open" => email[q] # email[r]
    \/ /\ stage[r] = "foundAccount"
       /\ IF row[r] = None THEN \A d \in Callbacks : accountRow[d] = "open" => For[d] # For[r]
          ELSE ~ Locked(<<"account", row[r]>>, r)
    \/ stage[r] = "asked" /\ (Changes(r) => ~ Locked(<<"page", row[r]>>, r))
    \/ /\ stage[r] = "flushing"
       /\ \/ ToUpdate(r) = {} \/ InDeadlock(r)
          \/ \E x \in PageRows : NextRow(r, x) /\ ~ Locked(<<"page", x>>, r)

\* Whatever rows are locked and inserted, one of the requests under way may go on.
NoStandstill == (\E r \in Requests : UnderWay(r)) => \E r \in Requests : MayGoOn(r)

\* Where the locks are: only the last step of a sign-in or of a subscription takes
\* one that others wait for, and a sync keeps its own until it ends.
LockInv ==
    /\ IInv
    /\ \A r \in Founders :
          stage[r] \notin {"next", "listing", "finding", "flushing", "foundPage", "asked"}
    /\ \A r \in Registers : /\ stage[r] \notin {"savedUser", "foundAccount"}
                            /\ stage[r] = "foundUser" => user[r] = None
    /\ \A s \in Syncs : stage[s] \in {"idle", "next", "listing", "finding", "flushing", "saved",
                                      "committed", "done"}
    /\ \A w \in Subscribes :
          stage[w] \in {"idle", "foundPage", "asked", "saved", "committed", "done"}
    /\ \A r \in Requests : \A x \in locks[r] :
          /\ x[1] = "account" => stage[r] = "saved"
          /\ x[1] = "page" => stage[r] = "saved" \/
                (r \in Syncs /\ stage[r] \in {"next", "listing", "finding", "flushing"})

\* A bound on the steps that request r has before it: up to the end from where it
\* stands, and a sync more for the accounts, pages and rows it has still to do.
Round == 2 * Cardinality(Pages) + 4

Place(s) ==
    CASE s = "known" -> 6
      [] s \in {"foundUser", "finding"} -> 5
      [] s \in {"savedUser", "foundPage", "flushing"} -> 4
      [] s \in {"foundAccount", "asked", "next"} -> 3
      [] s = "saved" -> 2
      [] s = "committed" -> 1
      [] s = "done" -> 0
      [] s = "listing" -> Round + 2
      [] s = "idle" -> (Cardinality(Callbacks) + 1) * Round + 3

StepsLeft(r) ==
    Place(stage[r]) +
        IF r \in Syncs /\ UnderWay(r)
        THEN Cardinality(todo[r]) * Round + 2 * Cardinality(listed[r]) + Cardinality(found[r])
        ELSE 0

\* Every step, of a fault too, takes one request nearer to its end and leaves the
\* others where they are.
StepsRunOut ==
    [][\E r \in Requests :
          /\ StepsLeft(r) \in Nat /\ StepsLeft(r)' \in Nat /\ StepsLeft(r)' < StepsLeft(r)
          /\ \A q \in Requests \ {r} : StepsLeft(q)' = StepsLeft(q)]_vars
=============================================================================
