------------------------ MODULE MetaMirrorRowsProofs ------------------------
(***************************************************************************)
(* What the rows of MetaMirror hold, for every set of objects and          *)
(* requests: one row where the index is unique, no object lost but by a    *)
(* fault, what the commit of a lone sync leaves, and rows as Meta has them *)
(* where nothing failed and no two requests overlapped.  Then how far      *)
(* requests get: one can go on, and the steps of each are numbered.        *)
(***************************************************************************)
EXTENDS MetaMirrorProofs, FiniteSetTheorems, WellFoundedInduction

-----------------------------------------------------------------------------
(* The rows of an object                                                   *)

\* Every change of the rows is the commit of a session that is ready.
LEMMA RowsOf ==
    ASSUME NEW r \in Requests, Begin(r) \/ Proceed(r) \/ Fails(r)
    PROVE  rows' = rows \/ (Ready(r) /\ rows' = Saved(r) /\ Forget(r))
  <1>1. CASE Begin(r)
    BY <1>1 DEF Begin, BeginSync, BeginCreate, BeginUpdate
  <1>2. CASE Proceed(r)
    BY <1>2 DEF Proceed, Work, Flush, LockFails, UniqueFails, AnswerFails, Commit, Rollback,
                Fetch, Look, PostCreate, CommitPhase, PostUpdate
  <1>3. CASE Fails(r)
    BY <1>3 DEF Fails, FetchFails, PostUnanswered, PostGarbled, PostRefused, StoreFails, Crash
  <1> QED BY <1>1, <1>2, <1>3

LEMMA RowsStep ==
    ASSUME [Next]_vars
    PROVE  \/ rows' = rows
           \/ \E r \in Requests : Ready(r) /\ rows' = Saved(r) /\ Forget(r)
  <1>1. ASSUME NEW o \in Objects, ChangeOutside(o) PROVE rows' = rows
    BY <1>1 DEF ChangeOutside
  <1>2. CASE UNCHANGED vars
    BY <1>2 DEF vars
  <1> QED BY <1>1, <1>2, RowsOf DEF Next, Done

\* The unique index refuses a second row, whoever raced for the first.
LEMMA UniqueNext == IInv /\ UniqueRows /\ [Next]_vars => UniqueRows'
  <1> SUFFICES ASSUME IInv, UniqueRows, [Next]_vars, NEW o \in Unique
               PROVE  Len(rows'[o]) <= 1
    BY DEF UniqueRows
  <1>0. TypeOK /\ Sessions /\ o \in Objects
    BY MirrorConstants DEF IInv
  <1>1. CASE rows' = rows
    BY <1>1 DEF UniqueRows
  <1>2. ASSUME NEW r \in Requests, Ready(r), rows' = Saved(r) PROVE Len(rows'[o]) <= 1
    <2>1. Len(rows'[o]) = IF o \in added[r] THEN Len(rows[o]) + 1 ELSE Len(rows[o])
      BY <1>0, <1>2, SavedRows DEF Sessions
    <2>2. o \in added[r] => rows[o] = <<>>
      BY <1>2 DEF Ready, Refused
    <2>3. Len(<<>>) = 0
      OBVIOUS
    <2> QED BY <2>1, <2>2, <2>3 DEF UniqueRows
  <1> QED BY <1>1, <1>2, RowsStep

LEMMA UniqueInit == Init => UniqueRows
  <1> SUFFICES ASSUME Init, NEW o \in Unique PROVE Len(rows[o]) <= 1
    BY DEF UniqueRows
  <1>1. o \in Objects
    BY MirrorConstants
  <1>2. rows[o] = <<>> \/ rows[o] = <<Content0>>
    BY <1>1 DEF Init
  <1>3. CASE rows[o] = <<>>
    BY <1>3
  <1>4. CASE rows[o] = <<Content0>>
    BY <1>4
  <1> QED BY <1>2, <1>3, <1>4

\* For any syncs and creates that overlap in any way, with any failures: a table
\* with a unique index on the id at Meta, as instagram_accounts has, keeps one
\* row for each object.
THEOREM UniqueIndexKeeps == Spec => []UniqueRows
  <1>1. IInv /\ UniqueRows /\ [Next]_vars => UniqueRows'
    BY UniqueNext
  <1> QED BY <1>1, UniqueInit, Inductive, PTL DEF Spec

\* So InstagramService.sync_accounts keeps one row for each account.
THEOREM OneRowWhereUnique ==
    ASSUME Unique = Objects
    PROVE  Spec => []OneRowPerObject
  <1>1. UniqueRows => OneRowPerObject
    BY DEF UniqueRows, OneRowPerObject
  <1> QED BY <1>1, UniqueIndexKeeps, PTL

-----------------------------------------------------------------------------
(* Sessions                                                                *)

\* A step of one request leaves the sessions of the others alone.
SameSession(q) ==
    /\ stage'[q] = stage[q] /\ got'[q] = got[q] /\ todo'[q] = todo[q]
    /\ plan'[q] = plan[q] /\ wrote'[q] = wrote[q] /\ added'[q] = added[q]

LEMMA SessionsApart ==
    ASSUME TypeOK, NEW r \in Requests, Begin(r) \/ Proceed(r) \/ Fails(r),
           NEW q \in Requests \ {r}
    PROVE  SameSession(q)
  <1>f. ASSUME Forget(r)
        PROVE  /\ got'[q] = got[q] /\ todo'[q] = todo[q]
               /\ plan'[q] = plan[q] /\ wrote'[q] = wrote[q] /\ added'[q] = added[q]
    BY <1>f DEF Forget, TypeOK
  <1>g. ASSUME NEW s, Goto(r, s) PROVE stage'[q] = stage[q]
    BY <1>g DEF Goto, TypeOK
  <1>1. CASE Begin(r)
    BY <1>1 DEF Begin, BeginSync, BeginCreate, BeginUpdate, Goto, SameSession, TypeOK, sessionVars
  <1>2. CASE \/ LockFails(r) \/ UniqueFails(r) \/ AnswerFails(r) \/ Commit(r) \/ Rollback(r)
             \/ StoreFails(r) \/ Crash(r) \/ CommitPhase(r)
    <2>1. Forget(r) /\ \E s \in {"failing", "done", "post"} : Goto(r, s)
      BY <1>2 DEF LockFails, UniqueFails, AnswerFails, Commit, Rollback, StoreFails, Crash, CommitPhase
    <2> QED BY <1>f, <1>g, <2>1 DEF SameSession
  <1>3. CASE Flush(r)
    BY <1>3 DEF Flush, SameSession, TypeOK
  <1>4. CASE Fetch(r) \/ FetchFails(r)
    BY <1>4 DEF Fetch, FetchFails, Goto, SameSession, TypeOK, sessionVars
  <1>5. ASSUME NEW o \in Objects, Look(r, o) PROVE SameSession(q)
    <2>1. plan'[q] = plan[q] /\ added'[q] = added[q]
      BY <1>5 DEF Look, TypeOK
    <2>2. stage' = stage \/ Goto(r, "failing")
      BY <1>5 DEF Look
    <2>3. todo' = [todo EXCEPT ![r] = @ \ {o}]
      BY <1>5 DEF Look
    <2>4. todo'[q] = todo[q]
      BY <2>3 DEF TypeOK
    <2> QED BY <1>5, <1>g, <2>1, <2>2, <2>4 DEF Look, SameSession
  <1>6. CASE PostCreate(r)
    <2>1. PICK o \in Objects :
            /\ got' = [got EXCEPT ![r][o] = Fresh(o)]
            /\ added' = [added EXCEPT ![r] = @ \cup {o}]
      BY <1>6 DEF PostCreate
    <2> QED BY <1>6, <1>g, <2>1 DEF PostCreate, SameSession, TypeOK
  <1>7. CASE PostUpdate(r)
    BY <1>7, <1>g DEF PostUpdate, SameSession, sessionVars
  <1>8. CASE PostUnanswered(r) \/ PostGarbled(r) \/ PostRefused(r)
    <2>1. stage' = stage \/ \E s \in {"work", "failing"} : Goto(r, s)
      BY <1>8 DEF PostUnanswered, PostGarbled, PostRefused, PostRaises
    <2> QED BY <1>8, <1>g, <2>1 DEF PostUnanswered, PostGarbled, PostRefused, SameSession, sessionVars
  <1> QED BY <1>1, <1>2, <1>3, <1>4, <1>5, <1>6, <1>7, <1>8 DEF Proceed, Work, Fails

\* A session that is dropped holds nothing.
EmptySession(r) ==
    /\ got'[r] = Nothing /\ todo'[r] = {} /\ plan'[r] = {} /\ wrote'[r] = {} /\ added'[r] = {}

LEMMA ForgetEmpties ==
    ASSUME TypeOK, NEW r \in Requests, Forget(r)
    PROVE  EmptySession(r)
  BY DEF Forget, EmptySession, TypeOK

\* The steps that do not drop r's session, by kind.
LEMMA StepKinds ==
    ASSUME NEW r \in Requests, Begin(r) \/ Proceed(r) \/ Fails(r)
    PROVE  \/ Forget(r) /\ \E s \in {"failing", "done", "post"} : Goto(r, s)
           \/ Flush(r)
           \/ r \in Syncs /\ \/ BeginSync(r) \/ Fetch(r) \/ FetchFails(r)
                             \/ \E o \in Objects : Look(r, o)
           \/ r \in Creates /\ \/ BeginCreate(r) \/ PostCreate(r)
                               \/ PostUnanswered(r) \/ PostGarbled(r) \/ PostRefused(r)
           \/ r \in Updates /\ \/ BeginUpdate(r) \/ PostUpdate(r)
                               \/ PostUnanswered(r) \/ PostGarbled(r) \/ PostRefused(r)
  <1>1. CASE Begin(r)
    BY <1>1 DEF Begin
  <1>2. CASE \/ LockFails(r) \/ UniqueFails(r) \/ AnswerFails(r) \/ Commit(r) \/ Rollback(r)
             \/ StoreFails(r) \/ Crash(r) \/ CommitPhase(r)
    BY <1>2 DEF LockFails, UniqueFails, AnswerFails, Commit, Rollback, StoreFails, Crash, CommitPhase
  <1> QED BY <1>1, <1>2 DEF Proceed, Work, Fails, Requests

-----------------------------------------------------------------------------
(* Objects without a row                                                   *)

PostingOf(c) ==
    /\ plan[c] = {} /\ wrote[c] = {}
    /\ added[c] # {} => stage[c] = "work"
    /\ \A o, p \in added[c] : o = p
    /\ \A o \in Objects : got[c][o] # Absent => o \in added[c]

LEMMA PostingNext == IInv /\ Posting /\ [Next]_vars => Posting'
  <1> SUFFICES ASSUME IInv, Posting, [Next]_vars, NEW c \in Creates PROVE PostingOf(c)'
    BY DEF Posting, PostingOf
  <1>0. TypeOK /\ c \in Requests /\ PostingOf(c) /\ c \notin Syncs /\ c \notin Updates
    BY Kinds DEF IInv, Posting, PostingOf, Requests
  <1>s. ASSUME SameSession(c) PROVE PostingOf(c)'
    BY <1>0, <1>s DEF SameSession, PostingOf
  <1>1. ASSUME Begin(c) \/ Proceed(c) \/ Fails(c) PROVE PostingOf(c)'
    <2>1. CASE Forget(c)
      BY <1>0, <2>1, ForgetEmpties DEF EmptySession, PostingOf, Nothing
    <2>2. CASE BeginCreate(c)
      BY <1>0, <2>2 DEF BeginCreate, PostingOf, sessionVars, Goto, TypeOK
    <2>3. CASE PostCreate(c)
      <3>1. PICK o \in Objects :
              /\ got' = [got EXCEPT ![c][o] = Fresh(o)]
              /\ added' = [added EXCEPT ![c] = @ \cup {o}]
        BY <2>3 DEF PostCreate
      <3>2. stage[c] = "post" /\ stage' = [stage EXCEPT ![c] = "work"] /\ UNCHANGED <<plan, wrote>>
        BY <2>3 DEF PostCreate, Goto
      <3>3. added[c] = {} /\ added'[c] = {o} /\ stage'[c] = "work"
        BY <1>0, <3>1, <3>2 DEF PostingOf, TypeOK
      <3>4. got[c] \in [Objects -> Content \cup {Absent}] /\ got'[c] = [got[c] EXCEPT ![o] = Fresh(o)]
        BY <1>0, <3>1 DEF TypeOK
      <3>5. \A p \in Objects : got'[c][p] # Absent => p \in added'[c]
        BY <1>0, <3>3, <3>4 DEF PostingOf
      <3> QED BY <1>0, <3>2, <3>3, <3>5 DEF PostingOf
    <2>4. CASE PostUnanswered(c) \/ PostGarbled(c) \/ PostRefused(c)
      <3>1. stage[c] = "post" /\ UNCHANGED <<got, plan, wrote, added>>
        BY <2>4 DEF PostUnanswered, PostGarbled, PostRefused, sessionVars
      <3> QED BY <1>0, <3>1 DEF PostingOf
    <2>5. CASE Flush(c)
      BY <1>0, <2>5 DEF Flush, NextWrites, PostingOf
    <2> QED BY <1>0, <1>1, <2>1, <2>2, <2>3, <2>4, <2>5, StepKinds
  <1>2. ASSUME NEW r \in Requests, Begin(r) \/ Proceed(r) \/ Fails(r) PROVE PostingOf(c)'
    <2>1. CASE r = c
      BY <1>1, <1>2, <2>1
    <2>2. CASE r # c
      BY <1>0, <1>2, <1>s, <2>2, SessionsApart
    <2> QED BY <2>1, <2>2
  <1>3. ASSUME NEW o \in Objects, ChangeOutside(o) PROVE PostingOf(c)'
    BY <1>3, <1>s DEF ChangeOutside, sessionVars, SameSession
  <1>4. CASE UNCHANGED vars
    BY <1>4, <1>s DEF vars, sessionVars, SameSession
  <1> QED BY <1>2, <1>3, <1>4 DEF Next, Done

\* A row that is there stays, and a commit gives one to every object it adds.
LEMMA RowsStay ==
    ASSUME IInv, [Next]_vars, NEW o \in Objects, rows'[o] = <<>>
    PROVE  /\ rows[o] = <<>>
           /\ \A r \in Requests : rows' = Saved(r) => o \notin added[r]
  <1>0. TypeOK /\ TypeOK'
    BY TypeNext DEF IInv
  <1>1. rows[o] \in Seq(Content) /\ rows'[o] \in Seq(Content)
    BY <1>0 DEF TypeOK
  <1>2. ASSUME NEW r \in Requests, rows' = Saved(r) PROVE rows[o] = <<>> /\ o \notin added[r]
    <2>1. Len(rows'[o]) = IF o \in added[r] THEN Len(rows[o]) + 1 ELSE Len(rows[o])
      BY <1>0, <1>2, SavedRows DEF IInv, Sessions
    <2> QED BY <1>1, <2>1
  <1> QED BY <1>2, RowsStep

LostKept == Lost' \subseteq Lost /\ (UNCHANGED faults \/ \E k \in FaultKinds : Fault(k))

OneLost ==
    \E x : /\ Lost' \subseteq Lost \cup {x}
           /\ \E k \in {"unanswered", "store", "crash"} : Fault(k)

\* Without a create's post no object is made, and without its session added
\* stays as it is.
LEMMA LostStays ==
    ASSUME IInv, [Next]_vars, UNCHANGED made,
           \A c \in Creates : added'[c] = added[c]
    PROVE  Lost' \subseteq Lost
  BY RowsStay DEF Lost

\* The objects a create was about to add a row for, when its session is dropped.
LEMMA DroppedCreate ==
    ASSUME IInv, Posting, [Next]_vars, NEW r \in Requests,
           Begin(r) \/ Proceed(r) \/ Fails(r), Forget(r), UNCHANGED made
    PROVE  Lost' \subseteq Lost \cup (IF r \in Creates THEN added[r] ELSE {})
  <1>0. TypeOK
    BY DEF IInv
  <1> SUFFICES ASSUME NEW o \in Lost', NEW c \in Creates, o \in made'[c] \ added'[c]
               PROVE  o \in Lost \cup (IF r \in Creates THEN added[r] ELSE {})
    BY DEF Lost
  <1>1. o \in Objects /\ rows[o] = <<>> /\ c \in Requests
    BY RowsStay DEF Lost, Requests
  <1>2. c # r => added'[c] = added[c]
    BY <1>0, <1>1, SessionsApart DEF SameSession
  <1> QED BY <1>1, <1>2 DEF Lost

LEMMA LostStep ==
    ASSUME IInv, Posting, [Next]_vars
    PROVE  LostKept \/ OneLost
  <1>0. TypeOK
    BY DEF IInv
  <1>p. ASSUME NEW c \in Creates
        PROVE  PostingOf(c) /\ c \in Requests /\ c \notin Syncs /\ c \notin Updates
    BY Kinds DEF Posting, PostingOf, Requests
  <1>1. ASSUME NEW r \in Requests, Begin(r) \/ Proceed(r) \/ Fails(r) PROVE LostKept \/ OneLost
    <2>a. \A c \in Creates \ {r} : added'[c] = added[c]
      BY <1>0, <1>1, <1>p, SessionsApart DEF SameSession
    <2>1. CASE \/ LockFails(r) \/ UniqueFails(r) \/ AnswerFails(r)
               \/ Commit(r) \/ Rollback(r) \/ CommitPhase(r)
      <3>1. Lost' \subseteq Lost \cup (IF r \in Creates THEN added[r] ELSE {})
        BY <1>1, <2>1, DroppedCreate
           DEF LockFails, UniqueFails, AnswerFails, Commit, Rollback, CommitPhase
      <3>2. ASSUME r \in Creates, NEW o \in added[r] PROVE o \notin Lost'
        <4>0. PostingOf(r) /\ o \in Objects
          BY <1>0, <1>p, <3>2 DEF TypeOK
        <4>1. ~ LockFails(r)
          BY <4>0 DEF LockFails, InDeadlock, WaitsFor, NextWrites, PostingOf
        <4>2. ~ Rollback(r) /\ ~ AnswerFails(r)
          BY <4>0, <3>2 DEF Rollback, AnswerFails, Stale, PostingOf
        <4>3. CASE UniqueFails(r)
          <5>1. PICK p \in added[r] : rows[p] # <<>>
            BY <4>3 DEF UniqueFails, AnswerFails, Refused
          <5>2. rows'[o] # <<>>
            BY <4>0, <4>3, <5>1, <3>2 DEF PostingOf, UniqueFails
          <5> QED BY <5>2 DEF Lost
        <4>4. CASE Commit(r) \/ CommitPhase(r)
          <5>1. rows' = Saved(r)
            BY <4>4 DEF Commit, CommitPhase
          <5> QED BY <4>0, <5>1, <3>2, RowsStay DEF Lost
        <4> QED BY <2>1, <4>1, <4>2, <4>3, <4>4
      <3>3. UNCHANGED faults
        BY <2>1 DEF LockFails, UniqueFails, AnswerFails, Commit, Rollback, CommitPhase
      <3> QED BY <3>1, <3>2, <3>3 DEF LostKept
    <2>2. CASE StoreFails(r) \/ Crash(r)
      <3>1. Lost' \subseteq Lost \cup (IF r \in Creates THEN added[r] ELSE {})
        BY <1>1, <2>2, DroppedCreate DEF StoreFails, Crash
      <3>2. \E x : (IF r \in Creates THEN added[r] ELSE {}) \subseteq {x}
        BY <1>p DEF PostingOf
      <3>3. \E k \in {"unanswered", "store", "crash"} : Fault(k)
        BY <2>2 DEF StoreFails, Crash
      <3> QED BY <3>1, <3>2, <3>3 DEF OneLost
    <2>3. CASE r \in Creates /\ PostCreate(r)
      <3>1. PICK o \in Objects :
              /\ made' = [made EXCEPT ![r] = @ \cup {o}]
              /\ added' = [added EXCEPT ![r] = @ \cup {o}]
        BY <2>3 DEF PostCreate, CreatesAtMeta
      <3>2. \A c \in Creates : made'[c] \ added'[c] \subseteq made[c] \ added[c]
        BY <1>0, <1>p, <3>1 DEF TypeOK
      <3>3. Lost' \subseteq Lost
        BY <3>2, RowsStay DEF Lost
      <3> QED BY <2>3, <3>3 DEF LostKept, PostCreate
    <2>4. CASE PostUnanswered(r) \/ PostGarbled(r)
      <3>1. UNCHANGED added /\ Fault("unanswered")
        BY <2>4 DEF PostUnanswered, PostGarbled, sessionVars
      <3>2. \E x : \A c \in Creates : made'[c] \subseteq made[c] \cup {x}
        <4>1. CASE UNCHANGED made
          BY <4>1
        <4>2. CASE \E o \in Objects : CreatesAtMeta(r, o)
          <5>1. PICK o \in Objects : made' = [made EXCEPT ![r] = @ \cup {o}]
            BY <4>2 DEF CreatesAtMeta
          <5> QED BY <1>0, <5>1 DEF TypeOK
        <4> QED BY <2>4, <4>1, <4>2 DEF PostUnanswered, PostGarbled, MayHaveActed, UpdatesAtMeta
      <3>3. PICK x : \A c \in Creates : made'[c] \subseteq made[c] \cup {x}
        BY <3>2
      <3>4. Lost' \subseteq Lost \cup {x}
        BY <3>1, <3>3, RowsStay DEF Lost
      <3> QED BY <3>1, <3>4 DEF OneLost
    <2>5. CASE \/ Begin(r) \/ Flush(r) \/ PostUpdate(r) \/ PostRefused(r)
               \/ r \in Syncs /\ (Fetch(r) \/ FetchFails(r) \/ \E o \in Objects : Look(r, o))
      <3>1. UNCHANGED made /\ (UNCHANGED faults \/ \E k \in FaultKinds : Fault(k))
        BY <2>5 DEF Begin, BeginSync, BeginCreate, BeginUpdate, Flush, Fetch, FetchFails, Look,
                    PostUpdate, PostRefused, UpdatesAtMeta, FaultKinds
      <3>2. r \in Creates => added'[r] = added[r]
        BY <1>p, <2>5 DEF Begin, BeginSync, BeginCreate, BeginUpdate, Flush,
                          PostUpdate, PostRefused, sessionVars
      <3> QED BY <2>a, <3>1, <3>2, LostStays DEF LostKept
    <2> QED BY <1>1, <2>1, <2>2, <2>3, <2>4, <2>5 DEF Proceed, Work, Fails
  <1>2. ASSUME NEW o \in Objects, ChangeOutside(o) PROVE LostKept
    BY <1>2, LostStays DEF ChangeOutside, sessionVars, LostKept, FaultKinds
  <1>3. CASE UNCHANGED vars
    BY <1>3, LostStays DEF vars, sessionVars, LostKept
  <1> QED BY <1>1, <1>2, <1>3 DEF Next, Done

\* The faults counted, and how a step changes them.
Charged == faults["unanswered"] + faults["store"] + faults["crash"]

LEMMA ChargedNext ==
    ASSUME faults \in [FaultKinds -> Nat]
    PROVE  /\ Charged \in Nat
           /\ \A k \in FaultKinds : Fault(k) => Charged' \in Nat /\ Charged' >= Charged
           /\ \A k \in {"unanswered", "store", "crash"} : Fault(k) => Charged' = Charged + 1
  <1>1. \A k \in FaultKinds : faults[k] \in Nat
    OBVIOUS
  <1>2. ASSUME NEW k \in FaultKinds, Fault(k)
        PROVE  /\ faults'[k] = faults[k] + 1
               /\ \A j \in FaultKinds \ {k} : faults'[j] = faults[j]
    BY <1>2 DEF Fault
  <1> QED BY <1>1, <1>2 DEF Charged, FaultKinds

LEMMA LostCostNext == IInv /\ Posting /\ LostCostFaults /\ [Next]_vars => LostCostFaults'
  <1> SUFFICES ASSUME IInv, Posting, LostCostFaults, [Next]_vars PROVE LostCostFaults'
    OBVIOUS
  <1>0. faults \in [FaultKinds -> Nat]
    BY DEF IInv, TypeOK
  <1>1. IsFiniteSet(Lost) /\ Cardinality(Lost) \in Nat /\ Cardinality(Lost) <= Charged
    BY FS_CardinalityType DEF LostCostFaults, Charged
  <1>2. CASE LostKept
    <2>1. IsFiniteSet(Lost') /\ Cardinality(Lost') \in Nat /\ Cardinality(Lost') <= Cardinality(Lost)
      BY <1>1, <1>2, FS_Subset, FS_CardinalityType DEF LostKept
    <2>2. Charged' \in Nat /\ Charged' >= Charged
      BY <1>0, <1>2, ChargedNext DEF LostKept, Charged
    <2>3. Cardinality(Lost') <= Charged'
      BY <1>0, <1>1, <2>1, <2>2, ChargedNext
    <2> QED BY <2>1, <2>3 DEF LostCostFaults, Charged
  <1>3. CASE OneLost
    <2>1. PICK x : /\ Lost' \subseteq Lost \cup {x}
                   /\ \E k \in {"unanswered", "store", "crash"} : Fault(k)
      BY <1>3 DEF OneLost
    <2>2. /\ IsFiniteSet(Lost \cup {x})
          /\ Cardinality(Lost \cup {x}) \in Nat
          /\ Cardinality(Lost \cup {x}) <= Cardinality(Lost) + 1
      <3>1. IsFiniteSet(Lost \cup {x})
            /\ (Cardinality(Lost \cup {x}) = Cardinality(Lost)
                \/ Cardinality(Lost \cup {x}) = Cardinality(Lost) + 1)
        BY <1>1, FS_AddElement
      <3> QED BY <1>1, <3>1
    <2>3. IsFiniteSet(Lost') /\ Cardinality(Lost') \in Nat
          /\ Cardinality(Lost') <= Cardinality(Lost \cup {x})
      BY <2>1, <2>2, FS_Subset, FS_CardinalityType
    <2>4. Charged' = Charged + 1 /\ Charged \in Nat
      BY <1>0, <2>1, ChargedNext
    <2>5. Cardinality(Lost') <= Charged'
      BY <1>1, <2>2, <2>3, <2>4
    <2> QED BY <2>3, <2>5 DEF LostCostFaults, Charged
  <1> QED BY <1>2, <1>3, LostStep

LEMMA LostInit == Init => Posting /\ LostCostFaults
  <1> SUFFICES ASSUME Init PROVE Posting /\ LostCostFaults
    OBVIOUS
  <1>1. Posting
    BY DEF Init, Posting, Requests, Nothing
  <1>2. Lost = {}
    BY DEF Init, Lost
  <1>3. faults \in [FaultKinds -> Nat]
    BY DEF Init
  <1>4. IsFiniteSet(Lost) /\ Cardinality(Lost) = 0
    BY <1>2, FS_EmptySet
  <1>5. Charged >= 0
    BY <1>3, ChargedNext
  <1> QED BY <1>1, <1>4, <1>5 DEF LostCostFaults, Charged

\* Creates that are over have an object at Meta without a row only as often as a
\* post was left unanswered, a write failed or the process died.
THEOREM LostInductive == Spec => []LostInv
  <1>1. IInv /\ Posting /\ LostCostFaults /\ [Next]_vars => Posting' /\ LostCostFaults'
    BY PostingNext, LostCostNext
  <1>2. IInv /\ Posting /\ LostCostFaults => LostInv
    BY DEF LostInv
  <1> QED BY <1>1, <1>2, LostInit, Inductive, PTL DEF Spec

\* For any creates, retries of FacebookGraphClient._request and failures: no
\* fault loses track of more than one object at Meta, and nothing else loses one.
THEOREM OrphansAreCharged == Spec => []OrphansCostFaults
  <1>1. ASSUME LostInv PROVE OrphansCostFaults
    <2>1. TypeOK /\ Sessions /\ IsFiniteSet(Lost) /\ Cardinality(Lost) <= Charged
      BY <1>1 DEF LostInv, LostCostFaults, IInv, Charged
    <2>2. ASSUME NEW o \in Orphans PROVE o \in Lost
      <3>1. PICK c \in Creates : ~ UnderWay(c) /\ o \in made[c]
        BY DEF Orphans
      <3>2. c \in Requests /\ added[c] = {}
        BY <2>1, <3>1 DEF Requests, Sessions, UnderWay
      <3>3. o \in Objects /\ rows[o] = <<>>
        BY <2>1, <3>1 DEF Orphans, TypeOK
      <3> QED BY <3>1, <3>2, <3>3 DEF Lost
    <2>3. IsFiniteSet(Orphans) /\ Cardinality(Orphans) <= Cardinality(Lost)
      BY <2>1, <2>2, FS_Subset
    <2>4. Cardinality(Orphans) \in Nat /\ Cardinality(Lost) \in Nat /\ Charged \in Nat
      BY <2>1, <2>3, FS_CardinalityType, ChargedNext DEF TypeOK
    <2> QED BY <2>1, <2>3, <2>4 DEF OrphansCostFaults, Charged
  <1> QED BY <1>1, LostInductive, PTL

-----------------------------------------------------------------------------
(* What a session changes                                                  *)

WritingOf(r) ==
    /\ \A w \in plan[r] \cup wrote[r] : w.object \in Touches(r)
    /\ wrote[r] # {} => stage[r] \in {"work", "failing"}
    /\ plan[r] # {} => UnderWay(r)
    /\ r \in Syncs => SyncWrites(r)
    /\ r \in Updates => \A w \in plan[r] \cup wrote[r] :
                           w.field = Change[r][1] /\ w.value = Change[r][2]

LEMMA DifferingWrites ==
    ASSUME NEW o, NEW k, NEW fields, NEW value, NEW w \in Differing(o, k, fields, value)
    PROVE  /\ w.object = o /\ w.row = k /\ w.field \in fields /\ w.value = value[w.field]
           /\ rows[o][k][w.field] # value[w.field]
  BY DEF Differing

LEMMA WritingOfSync ==
    ASSUME IInv, NEW s \in Syncs, WritingOf(s),
           \/ BeginSync(s) \/ Fetch(s) \/ FetchFails(s)
           \/ \E o \in Objects : Look(s, o)
    PROVE  WritingOf(s)'
  <1>0. TypeOK /\ s \in Requests /\ s \notin Updates /\ SyncWrites(s)
    BY Kinds DEF IInv, Requests, WritingOf
  <1>1. CASE BeginSync(s)
    <2>1. stage[s] = "idle" /\ stage'[s] = "fetch" /\ UNCHANGED sessionVars
      BY <1>0, <1>1 DEF BeginSync, Goto, TypeOK
    <2>2. plan[s] = {} /\ wrote[s] = {}
      BY <1>0, <2>1 DEF SyncWrites
    <2> QED BY <1>0, <2>1, <2>2 DEF WritingOf, SyncWrites, sessionVars
  <1>2. CASE Fetch(s)
    <2>1. PICK L \in Listed(s) :
            /\ got' = [got EXCEPT ![s] = [o \in Objects |-> IF o \in L THEN meta[o] ELSE Absent]]
            /\ todo' = [todo EXCEPT ![s] = L]
      BY <1>2 DEF Fetch
    <2>2. stage[s] = "fetch" /\ stage'[s] = "work" /\ UNCHANGED <<plan, wrote, added>>
      BY <1>0, <1>2 DEF Fetch, Goto, TypeOK
    <2>3. plan[s] = {} /\ wrote[s] = {} /\ added[s] = {}
      BY <1>0, <2>2 DEF SyncWrites, IInv, Sessions
    <2>4. L \subseteq Scope[s]
      BY <2>1 DEF Listed
    <2>5. got'[s] = [o \in Objects |-> IF o \in L THEN meta[o] ELSE Absent]
      BY <1>0, <2>1 DEF TypeOK
    <2>6. \A o \in Objects : got'[s][o] # Absent => o \in Scope[s]
      BY <2>4, <2>5
    <2> QED BY <1>0, <2>2, <2>3, <2>6 DEF WritingOf, SyncWrites
  <1>3. CASE FetchFails(s)
    <2>1. stage[s] = "fetch" /\ stage'[s] = "failing" /\ UNCHANGED sessionVars
      BY <1>0, <1>3 DEF FetchFails, Goto, TypeOK
    <2>2. plan[s] = {} /\ wrote[s] = {}
      BY <1>0, <2>1 DEF SyncWrites
    <2> QED BY <1>0, <2>1, <2>2 DEF WritingOf, SyncWrites, sessionVars
  <1>4. ASSUME NEW o \in Objects, Look(s, o) PROVE WritingOf(s)'
    <2>1. stage[s] = "work" /\ o \in todo[s] /\ UNCHANGED <<got, wrote>>
      BY <1>4 DEF Look
    <2>2. todo'[s] = todo[s] \ {o} /\ todo[s] \subseteq Objects
      BY <1>0, <1>4 DEF Look, TypeOK
    <2>3. stage'[s] \in {"work", "failing"}
      <3>1. stage' = stage \/ stage' = [stage EXCEPT ![s] = "failing"]
        BY <1>4 DEF Look, Goto
      <3> QED BY <1>0, <2>1, <3>1 DEF TypeOK
    <2>4. got[s][o] # Absent /\ o \in Touches(s)
      BY <1>0, <2>1 DEF IInv, Sessions
    <2>5. \/ added'[s] = added[s] \cup {o} /\ plan'[s] = plan[s]
          \/ /\ added'[s] = added[s]
             /\ plan'[s] = plan[s] \cup Differing(o, 1, Told(s, o), got[s][o])
          \/ added'[s] = added[s] /\ plan'[s] = plan[s]
      BY <1>0, <1>4 DEF Look, TypeOK
    <2>6. o \notin added[s] /\ todo'[s] \cap added'[s] = {}
      BY <1>0, <2>1, <2>2, <2>5 DEF SyncWrites
    <2>7. \A w \in plan[s] \cup wrote[s] : w.object \notin todo'[s] \cup added'[s]
      BY <1>0, <2>1, <2>2, <2>5 DEF SyncWrites
    <2>8. ASSUME NEW w \in Differing(o, 1, Told(s, o), got[s][o])
          PROVE  /\ w.object = o /\ w.row = 1 /\ w.field \in Told(s, o)
                 /\ w.value = got[s][o][w.field]
      BY DifferingWrites
    <2>9. \A w \in plan'[s] \cup wrote'[s] :
             /\ w.object \in Touches(s)
             /\ w.row = 1 /\ w.field \in Told(s, w.object)'
             /\ got'[s][w.object] # Absent /\ w.value = got'[s][w.object][w.field]
             /\ w.object \notin todo'[s] \cup added'[s]
      <3> SUFFICES ASSUME NEW w \in plan'[s] \cup wrote'[s]
                   PROVE  /\ w.object \in Touches(s)
                          /\ w.row = 1 /\ w.field \in Told(s, w.object)
                          /\ got[s][w.object] # Absent /\ w.value = got[s][w.object][w.field]
                          /\ w.object \notin todo'[s] \cup added'[s]
        BY <2>1 DEF Told
      <3>1. CASE w \in plan[s] \cup wrote[s]
        BY <1>0, <2>7, <3>1 DEF WritingOf, SyncWrites
      <3>2. CASE w \in Differing(o, 1, Told(s, o), got[s][o]) /\ added'[s] = added[s]
        BY <2>2, <2>4, <2>6, <2>8, <3>2
      <3> QED BY <2>1, <2>5, <3>1, <3>2
    <2> QED BY <1>0, <2>1, <2>3, <2>6, <2>9 DEF WritingOf, SyncWrites, Touches, UnderWay
  <1> QED BY <1>1, <1>2, <1>3, <1>4

LEMMA WritingOfUpdate ==
    ASSUME IInv, NEW u \in Updates, WritingOf(u),
           BeginUpdate(u) \/ PostUpdate(u) \/ PostUnanswered(u) \/ PostGarbled(u) \/ PostRefused(u)
    PROVE  WritingOf(u)'
  <1>0. TypeOK /\ u \in Requests /\ u \notin Syncs
    BY Kinds DEF IInv, Requests
  <1>1. CASE BeginUpdate(u)
    <2>1. PICK k \in DOMAIN rows[Target[u]] :
            plan' = [plan EXCEPT ![u] = Differing(Target[u], k, {Change[u][1]},
                                        [f \in {Change[u][1]} |-> Change[u][2]])]
      BY <1>1 DEF BeginUpdate
    <2>2. stage[u] = "idle" /\ stage'[u] = "post" /\ UNCHANGED wrote
      BY <1>0, <1>1 DEF BeginUpdate, Goto, TypeOK
    <2>3. wrote'[u] = {}
      BY <2>2 DEF WritingOf
    <2>4. plan'[u] = Differing(Target[u], k, {Change[u][1]}, [f \in {Change[u][1]} |-> Change[u][2]])
      BY <1>0, <2>1 DEF TypeOK
    <2>5. \A w \in plan'[u] :
            w.object = Target[u] /\ w.field = Change[u][1] /\ w.value = Change[u][2]
      BY <2>4 DEF Differing
    <2>6. Target[u] \in Touches(u)
      BY <1>0 DEF Touches
    <2> QED BY <1>0, <2>2, <2>3, <2>5, <2>6 DEF WritingOf, UnderWay, Touches
  <1>2. CASE PostUpdate(u) \/ PostUnanswered(u) \/ PostGarbled(u) \/ PostRefused(u)
    <2>1. stage[u] = "post" /\ UNCHANGED <<plan, wrote>>
      BY <1>2 DEF PostUpdate, PostUnanswered, PostGarbled, PostRefused, sessionVars
    <2>2. stage'[u] \in {"post", "work", "failing"}
      <3>1. stage' = stage \/ \E s \in {"work", "failing"} : stage' = [stage EXCEPT ![u] = s]
        BY <1>2 DEF PostUpdate, PostUnanswered, PostGarbled, PostRefused, PostRaises, Goto
      <3> QED BY <1>0, <2>1, <3>1 DEF TypeOK
    <2>3. wrote[u] = {}
      BY <2>1 DEF WritingOf
    <2> QED BY <1>0, <2>1, <2>2, <2>3 DEF WritingOf, UnderWay, Touches
  <1> QED BY <1>1, <1>2

LEMMA WritingNext == IInv /\ Posting /\ Writing /\ [Next]_vars => Writing'
  <1> SUFFICES ASSUME IInv, Posting, Writing, [Next]_vars, NEW q \in Requests
               PROVE  WritingOf(q)'
    BY DEF Writing, WritingOf
  <1>0. TypeOK /\ WritingOf(q) /\ Posting'
    BY PostingNext DEF IInv, Writing, WritingOf
  <1>s. ASSUME SameSession(q) PROVE WritingOf(q)'
    BY <1>0, <1>s DEF SameSession, WritingOf, SyncWrites, Told, Touches, UnderWay
  <1>1. ASSUME Begin(q) \/ Proceed(q) \/ Fails(q) PROVE WritingOf(q)'
    <2>1. CASE Forget(q) /\ \E s \in {"failing", "done", "post"} : Goto(q, s)
      BY <1>0, <2>1, ForgetEmpties DEF EmptySession, WritingOf, SyncWrites, Nothing
    <2>2. CASE Flush(q)
      <3>1. stage[q] = "work" /\ UNCHANGED <<stage, got, todo, added>>
        BY <2>2 DEF Flush
      <3>2. plan'[q] \cup wrote'[q] = plan[q] \cup wrote[q]
        BY <1>0, <2>2 DEF Flush, NextWrites, TypeOK
      <3> QED BY <1>0, <3>1, <3>2 DEF WritingOf, SyncWrites, Told, Touches, UnderWay
    <2>3. CASE q \in Creates
      BY <1>0, <2>3, Kinds DEF Posting, WritingOf
    <2>4. CASE q \in Syncs /\ \/ BeginSync(q) \/ Fetch(q) \/ FetchFails(q)
                              \/ \E o \in Objects : Look(q, o)
      BY <1>0, <2>4, WritingOfSync
    <2>5. CASE q \in Updates /\ \/ BeginUpdate(q) \/ PostUpdate(q)
                                \/ PostUnanswered(q) \/ PostGarbled(q) \/ PostRefused(q)
      BY <1>0, <2>5, WritingOfUpdate
    <2> QED BY <1>1, <2>1, <2>2, <2>3, <2>4, <2>5, StepKinds
  <1>2. ASSUME NEW r \in Requests, Begin(r) \/ Proceed(r) \/ Fails(r) PROVE WritingOf(q)'
    <2>1. CASE r = q
      BY <1>1, <1>2, <2>1
    <2>2. CASE r # q
      BY <1>0, <1>2, <1>s, <2>2, SessionsApart
    <2> QED BY <2>1, <2>2
  <1>3. ASSUME NEW o \in Objects, ChangeOutside(o) PROVE WritingOf(q)'
    BY <1>3, <1>s DEF ChangeOutside, sessionVars, SameSession
  <1>4. CASE UNCHANGED vars
    BY <1>4, <1>s DEF vars, sessionVars, SameSession
  <1> QED BY <1>2, <1>3, <1>4 DEF Next, Done

-----------------------------------------------------------------------------
(* What a commit leaves of an object's rows                                *)

LEMMA SavedShape ==
    ASSUME TypeOK, NEW r \in Requests, NEW o \in Objects
    PROVE  /\ o \notin added[r] => Len(Saved(r)[o]) = Len(rows[o])
           /\ rows[o] = <<>> /\ o \in added[r] => Saved(r)[o] = <<got[r][o]>>
           /\ rows[o] = <<>> /\ o \notin added[r] => Saved(r)[o] = <<>>
           /\ rows[o] # <<>> => Saved(r)[o][1] = RowWritten(r, o, 1)
           /\ rows[o] # <<>> => rows[o][1] \in Content
           /\ Len(rows[o]) = 1 /\ o \notin added[r] => Saved(r)[o] = <<RowWritten(r, o, 1)>>
  <1> DEFINE old == [k \in DOMAIN rows[o] |-> RowWritten(r, o, k)]
  <1>1. rows[o] \in Seq(Content) /\ Len(rows[o]) \in Nat /\ DOMAIN rows[o] = 1..Len(rows[o])
    BY DEF TypeOK
  <1>2. \A k \in DOMAIN rows[o] : RowWritten(r, o, k) \in Content
    BY RowWrittenType
  <1>3. old \in Seq(Content) /\ Len(old) = Len(rows[o])
        /\ \A k \in DOMAIN rows[o] : old[k] = RowWritten(r, o, k)
    BY <1>1, <1>2
  <1>4. Saved(r)[o] = IF o \in added[r] THEN Append(old, got[r][o]) ELSE old
    BY DEF Saved
  <1> HIDE DEF old
  <1>5. rows[o] = <<>> => old = <<>>
    BY <1>1, <1>3
  <1>6. rows[o] # <<>> => 1 \in DOMAIN rows[o]
    BY <1>1
  <1>7. rows[o] # <<>> => Append(old, got[r][o])[1] = old[1]
    BY <1>1, <1>3, <1>6
  <1>8. Len(rows[o]) = 1 => old = <<old[1]>>
    BY <1>3
  <1>9. Len(rows[o]) = 1 => rows[o] # <<>>
    BY <1>1
  <1>10. Append(<<>>, got[r][o]) = <<got[r][o]>>
    OBVIOUS
  <1>11. o \notin added[r] => Len(Saved(r)[o]) = Len(rows[o])
    BY <1>3, <1>4
  <1>12. rows[o] = <<>> => Saved(r)[o] = IF o \in added[r] THEN <<got[r][o]>> ELSE <<>>
    BY <1>4, <1>5, <1>10
  <1>13. rows[o] # <<>> => Saved(r)[o][1] = RowWritten(r, o, 1) /\ rows[o][1] \in Content
    BY <1>1, <1>3, <1>4, <1>6, <1>7
  <1>14. Len(rows[o]) = 1 /\ o \notin added[r] => Saved(r)[o] = <<RowWritten(r, o, 1)>>
    BY <1>3, <1>4, <1>6, <1>8, <1>9
  <1> QED BY <1>11, <1>12, <1>13, <1>14

\* A column that the session has set, always to the same value, or not at all.
LEMMA ColumnWritten ==
    ASSUME NEW r \in Requests, NEW o \in Objects, NEW k, NEW f \in Fields, NEW v,
           \A w \in wrote[r] : w.object = o /\ w.row = k /\ w.field = f => w.value = v,
           \/ \E w \in wrote[r] : w.object = o /\ w.row = k /\ w.field = f
           \/ rows[o][k][f] = v
    PROVE  RowWritten(r, o, k)[f] = v
  <1> DEFINE P(w) == w.object = o /\ w.row = k /\ w.field = f
  <1>1. CASE \E w \in wrote[r] : P(w)
    <2>1. PICK w \in wrote[r] : P(w) /\ w = CHOOSE x \in wrote[r] : P(x)
      BY <1>1
    <2> QED BY <1>1, <2>1 DEF RowWritten
  <1>2. CASE ~ \E w \in wrote[r] : P(w)
    BY <1>2 DEF RowWritten
  <1> QED BY <1>1, <1>2

LEMMA ColumnKept ==
    ASSUME NEW r \in Requests, NEW o \in Objects, NEW k, NEW f \in Fields,
           ~ \E w \in wrote[r] : w.object = o /\ w.row = k /\ w.field = f
    PROVE  RowWritten(r, o, k)[f] = rows[o][k][f]
  BY DEF RowWritten

\* Rows for which the session has written and added nothing stay as they are.
LEMMA SavedUnwritten ==
    ASSUME TypeOK, NEW r \in Requests, NEW o \in Objects,
           o \notin added[r], \A w \in wrote[r] : w.object # o
    PROVE  Saved(r)[o] = rows[o]
  <1>1. rows[o] \in Seq(Content) /\ DOMAIN rows[o] = 1..Len(rows[o])
    BY DEF TypeOK
  <1>2. ASSUME NEW k \in DOMAIN rows[o] PROVE RowWritten(r, o, k) = rows[o][k]
    <2>1. rows[o][k] \in Content /\ RowWritten(r, o, k) \in Content
      BY <1>1, RowWrittenType
    <2>2. \A f \in Fields : RowWritten(r, o, k)[f] = rows[o][k][f]
      BY ColumnKept
    <2> QED BY <2>1, <2>2 DEF Content
  <1>3. Saved(r)[o] = [k \in DOMAIN rows[o] |-> RowWritten(r, o, k)]
    BY DEF Saved
  <1>4. Saved(r)[o] = [k \in DOMAIN rows[o] |-> rows[o][k]]
    BY <1>2, <1>3
  <1> QED BY <1>1, <1>4

LEMMA SavedElsewhere ==
    ASSUME IInv, Writing, NEW r \in Requests, NEW o \in Objects, o \notin Touches(r)
    PROVE  Saved(r)[o] = rows[o]
  BY SavedUnwritten DEF IInv, Sessions, Writing

-----------------------------------------------------------------------------
(* A sync that met nobody                                                  *)

LookedOf(s) ==
    \A o \in Objects : got[s][o] # Absent /\ o \notin todo[s] =>
        \/ o \in added[s] /\ rows[o] = <<>>
        \/ /\ o \notin added[s] /\ Len(rows[o]) = 1
           /\ \A f \in Told(s, o) : Covered(s, o, f, got[s][o][f])

\* Requests under way over one object have met.
LEMMA NotApart ==
    ASSUME IInv, NEW q \in Requests, NEW r \in Requests, q # r, UnderWay(q), UnderWay(r),
           NEW o \in Objects, o \in Touches(q), o \in Touches(r)
    PROVE  ~ Alone(q) /\ ~ Apart(o)
  <1>1. {q, r} \in met
    BY DEF IInv, Meeting
  <1> QED BY <1>1 DEF Alone, Apart

\* The rows of what it was told change under its hands only by its own commit.
LEMMA LoneRows ==
    ASSUME IInv, Writing, [Next]_vars, NEW s \in Syncs, stage[s] = "work", Alone(s),
           stage'[s] = "work", NEW o \in Objects, got[s][o] # Absent, got'[s][o] # Absent
    PROVE  rows'[o] = rows[o]
  <1>0. TypeOK /\ s \in Requests
    BY DEF IInv, Requests
  <1>1. o \in Touches(s)
    BY <1>0 DEF Writing, SyncWrites, Touches
  <1>2. ASSUME NEW r \in Requests, Ready(r), rows' = Saved(r), Forget(r)
        PROVE  rows'[o] = rows[o]
    <2>1. r # s
      BY <1>0, <1>2, ForgetEmpties DEF EmptySession, Nothing
    <2>2. UnderWay(r) /\ UnderWay(s)
      BY <1>2 DEF Ready, Flushed, UnderWay
    <2>3. o \notin Touches(r)
      BY <1>0, <1>1, <2>1, <2>2, NotApart
    <2> QED BY <1>2, <2>3, SavedElsewhere
  <1> QED BY <1>2, RowsStep

LEMMA LookedUpNext == IInv /\ Writing /\ LookedUp /\ [Next]_vars => LookedUp'
  <1> SUFFICES ASSUME IInv, Writing, LookedUp, [Next]_vars,
                      NEW s \in Syncs, stage'[s] = "work", Alone(s)',
                      NEW o \in Objects, got'[s][o] # Absent, o \notin todo'[s]
               PROVE  \/ o \in added'[s] /\ rows'[o] = <<>>
                      \/ /\ o \notin added'[s] /\ Len(rows'[o]) = 1
                         /\ \A f \in Told(s, o)' : Covered(s, o, f, got[s][o][f])'
    BY DEF LookedUp
  <1>0. TypeOK /\ s \in Requests /\ s \notin Creates /\ s \notin Updates
        /\ Alone(s) /\ SyncWrites(s)
    BY Kinds, MeetingNext DEF IInv, Requests, Alone, Writing
  <1>1. ASSUME stage[s] = "work", got'[s] = got[s], todo'[s] = todo[s], added'[s] = added[s],
               plan[s] \cup wrote[s] \subseteq plan'[s] \cup wrote'[s]
        PROVE  \/ o \in added'[s] /\ rows'[o] = <<>>
               \/ /\ o \notin added'[s] /\ Len(rows'[o]) = 1
                  /\ \A f \in Told(s, o)' : Covered(s, o, f, got[s][o][f])'
    <2>1. rows'[o] = rows[o]
      BY <1>0, <1>1, LoneRows
    <2> QED BY <1>0, <1>1, <2>1 DEF LookedUp, Covered, Told
  <1>s. ASSUME SameSession(s)
        PROVE  \/ o \in added'[s] /\ rows'[o] = <<>>
               \/ /\ o \notin added'[s] /\ Len(rows'[o]) = 1
                  /\ \A f \in Told(s, o)' : Covered(s, o, f, got[s][o][f])'
    BY <1>1, <1>s DEF SameSession
  <1>2. ASSUME NEW r \in Requests, r # s, Begin(r) \/ Proceed(r) \/ Fails(r)
        PROVE  SameSession(s)
    BY <1>0, <1>2, SessionsApart
  <1>3. CASE Begin(s) \/ Proceed(s) \/ Fails(s)
    <2>1. ~ (Forget(s) /\ \E p \in {"failing", "done", "post"} : Goto(s, p))
      BY <1>0 DEF Goto, TypeOK
    <2>2. ~ BeginSync(s) /\ ~ FetchFails(s)
      BY <1>0 DEF BeginSync, FetchFails, Goto, TypeOK
    <2>3. ~ Fetch(s)
      <3> SUFFICES ASSUME Fetch(s) PROVE FALSE
        OBVIOUS
      <3>1. PICK L \in Listed(s) :
              /\ got' = [got EXCEPT ![s] = [p \in Objects |-> IF p \in L THEN meta[p] ELSE Absent]]
              /\ todo' = [todo EXCEPT ![s] = L]
        BY DEF Fetch
      <3> QED BY <1>0, <3>1 DEF TypeOK
    <2>4. CASE Flush(s)
      <3>1. stage[s] = "work" /\ UNCHANGED <<got, todo, added>>
        BY <2>4 DEF Flush
      <3>2. plan'[s] \cup wrote'[s] = plan[s] \cup wrote[s]
        BY <1>0, <2>4 DEF Flush, NextWrites, TypeOK
      <3> QED BY <1>1, <3>1, <3>2
    <2>5. ASSUME NEW p \in Objects, Look(s, p)
          PROVE  \/ o \in added'[s] /\ rows'[o] = <<>>
                 \/ /\ o \notin added'[s] /\ Len(rows'[o]) = 1
                    /\ \A f \in Told(s, o)' : Covered(s, o, f, got[s][o][f])'
      <3>1. stage[s] = "work" /\ p \in todo[s] /\ UNCHANGED <<rows, got, wrote>>
        BY <2>5 DEF Look
      <3>2. todo'[s] = todo[s] \ {p}
        BY <1>0, <2>5 DEF Look, TypeOK
      <3>3. \/ rows[p] = <<>> /\ added'[s] = added[s] \cup {p} /\ plan'[s] = plan[s]
            \/ /\ Len(rows[p]) = 1
               /\ added'[s] = added[s]
               /\ plan'[s] = plan[s] \cup Differing(p, 1, Told(s, p), got[s][p])
            \/ stage' = [stage EXCEPT ![s] = "failing"]
        BY <1>0, <2>5 DEF Look, Goto, TypeOK
      <3>4. stage' # [stage EXCEPT ![s] = "failing"]
        BY <1>0 DEF TypeOK
      <3>5. CASE o = p
        <4>1. p \notin added[s]
          BY <1>0, <3>1 DEF SyncWrites
        <4>2. CASE rows[p] = <<>> /\ added'[s] = added[s] \cup {p}
          BY <3>1, <3>5, <4>2
        <4>3. CASE /\ Len(rows[p]) = 1
                   /\ added'[s] = added[s]
                   /\ plan'[s] = plan[s] \cup Differing(p, 1, Told(s, p), got[s][p])
          <5>1. ASSUME NEW f \in Told(s, o) PROVE Covered(s, o, f, got[s][o][f])'
            <6>1. rows[o][1][f] # got[s][o][f] =>
                    [object |-> o, row |-> 1, field |-> f, value |-> got[s][o][f]] \in plan'[s]
              BY <3>5, <4>3 DEF Differing
            <6> QED BY <3>1, <6>1 DEF Covered
          <5> QED BY <3>1, <3>5, <4>1, <4>3, <5>1 DEF Told
        <4> QED BY <3>3, <3>4, <4>2, <4>3
      <3>6. CASE o # p
        <4>1. o \notin todo[s] /\ (o \in added'[s] <=> o \in added[s]) /\ plan[s] \subseteq plan'[s]
          BY <3>2, <3>3, <3>4, <3>6
        <4> QED BY <1>0, <3>1, <4>1 DEF LookedUp, Covered, Told
      <3> QED BY <3>5, <3>6
    <2> QED BY <1>0, <1>3, <2>1, <2>2, <2>3, <2>4, <2>5, StepKinds
  <1>4. ASSUME NEW p \in Objects, ChangeOutside(p) PROVE SameSession(s)
    BY <1>4 DEF ChangeOutside, sessionVars, SameSession
  <1>5. CASE UNCHANGED vars
    BY <1>5, <1>s DEF vars, sessionVars, SameSession
  <1> QED BY <1>s, <1>2, <1>3, <1>4, <1>5 DEF Next, Done

LEMMA WritingInit == Init => Writing /\ LookedUp
  <1> SUFFICES ASSUME Init PROVE Writing /\ LookedUp
    OBVIOUS
  <1>1. \A r \in Requests : plan[r] = {} /\ wrote[r] = {} /\ todo[r] = {} /\ stage[r] = "idle"
    BY DEF Init
  <1>2. Syncs \subseteq Requests
    BY DEF Requests
  <1> QED BY <1>1, <1>2 DEF Writing, SyncWrites, LookedUp

\* What the sync that commits found of each object is what the commit leaves.
LEMMA LoneCommit ==
    ASSUME IInv, Writing, LookedUp, NEW s \in Syncs, Commit(s), Alone(s), NEW o \in Objects
    PROVE  IF got[s][o] = Absent THEN rows'[o] = rows[o]
           ELSE rows'[o] =
                  << IF rows[o] = <<>> THEN got[s][o]
                     ELSE [f \in Fields |-> IF f \in Told(s, o) THEN got[s][o][f]
                                            ELSE rows[o][1][f]] >>
  <1>0. TypeOK /\ s \in Requests /\ SyncWrites(s)
    BY DEF IInv, Requests, Writing
  <1>1. stage[s] = "work" /\ todo[s] = {} /\ plan[s] = {} /\ rows' = Saved(s)
    BY DEF Commit, Ready, Flushed
  <1>2. CASE got[s][o] = Absent
    <2>1. o \notin added[s] /\ \A w \in wrote[s] : w.object # o
      BY <1>0, <1>2 DEF IInv, Sessions, SyncWrites
    <2> QED BY <1>0, <1>1, <1>2, <2>1, SavedUnwritten
  <1>3. CASE got[s][o] # Absent /\ o \in added[s] /\ rows[o] = <<>>
    BY <1>0, <1>1, <1>3, SavedShape
  <1>4. CASE /\ got[s][o] # Absent /\ o \notin added[s] /\ Len(rows[o]) = 1
             /\ \A f \in Told(s, o) : Covered(s, o, f, got[s][o][f])
    <2> DEFINE new == [f \in Fields |-> IF f \in Told(s, o) THEN got[s][o][f]
                                        ELSE rows[o][1][f]]
    <2>1. rows[o] # <<>> /\ 1 \in DOMAIN rows[o]
      <3>1. rows[o] \in Seq(Content)
        BY <1>0 DEF TypeOK
      <3> QED BY <1>4, <3>1
    <2>2. rows'[o] = <<RowWritten(s, o, 1)>>
      BY <1>0, <1>1, <1>4, SavedShape
    <2>3. RowWritten(s, o, 1) \in Content
      BY <1>0, <2>1, RowWrittenType
    <2>4. ASSUME NEW f \in Fields PROVE RowWritten(s, o, 1)[f] = new[f]
      <3>1. CASE f \in Told(s, o)
        <4>1. \A w \in wrote[s] : w.object = o /\ w.row = 1 /\ w.field = f => w.value = got[s][o][f]
          BY <1>0 DEF SyncWrites
        <4>2. \/ rows[o][1][f] = got[s][o][f]
              \/ [object |-> o, row |-> 1, field |-> f, value |-> got[s][o][f]] \in wrote[s]
          BY <1>1, <1>4, <3>1 DEF Covered
        <4>3. RowWritten(s, o, 1)[f] = got[s][o][f]
          BY <1>0, <4>1, <4>2, ColumnWritten
        <4> QED BY <3>1, <4>3
      <3>2. CASE f \notin Told(s, o)
        <4>1. ~ \E w \in wrote[s] : w.object = o /\ w.row = 1 /\ w.field = f
          BY <1>0, <3>2 DEF SyncWrites
        <4> QED BY <1>0, <3>2, <4>1, ColumnKept
      <3> QED BY <3>1, <3>2
    <2>5. RowWritten(s, o, 1) = new
      BY <2>3, <2>4 DEF Content
    <2> QED BY <1>4, <2>1, <2>2, <2>5
  <1> QED BY <1>1, <1>2, <1>3, <1>4 DEF LookedUp

\* For any set of requests, failures and page size: the commit of a sync of
\* services/campaign.py, facebook.py or instagram.py that overlapped with no
\* other request leaves exactly one row for each listed object, refreshed as
\* listed, and every other row as it was.
THEOREM LoneSyncsMirror == Spec => LoneSyncMirrors
  <1> DEFINE Inv == IInv /\ Posting /\ Writing /\ LookedUp
             Step == \A s \in Syncs : Answers(s) /\ Alone(s) =>
                \A o \in Objects :
                    IF got[s][o] = Absent THEN rows'[o] = rows[o]
                    ELSE rows'[o] =
                          << IF rows[o] = <<>> THEN got[s][o]
                             ELSE [f \in Fields |-> IF f \in Told(s, o) THEN got[s][o][f]
                                                    ELSE rows[o][1][f]] >>
  <1>1. Init => Posting /\ Writing /\ LookedUp
    BY LostInit, WritingInit
  <1>2. IInv /\ Posting /\ Writing /\ LookedUp /\ [Next]_vars => Posting' /\ Writing' /\ LookedUp'
    BY PostingNext, WritingNext, LookedUpNext
  <1>3. Inv /\ [Next]_vars => Step
    <2> SUFFICES ASSUME Inv, [Next]_vars, NEW s \in Syncs, Answers(s), Alone(s) PROVE Commit(s)
      BY LoneCommit
    <2>0. TypeOK /\ s \in Requests
      BY DEF IInv, Requests
    <2>1. ASSUME NEW r \in Requests, Begin(r) \/ Proceed(r) \/ Fails(r), ~ Commit(s)
          PROVE  answer'[s] # "ok" \/ answer'[s] = answer[s]
      <3>1. CASE Commit(r)
        BY <2>0, <2>1, <3>1 DEF Commit, TypeOK
      <3>2. CASE Rollback(r)
        BY <2>0, <3>2 DEF Rollback, TypeOK
      <3>3. CASE ~ Commit(r) /\ ~ Rollback(r)
        <4>1. answer' = answer
          <5>1. CASE Begin(r)
            BY <5>1 DEF Begin, BeginSync, BeginCreate, BeginUpdate
          <5>2. CASE Proceed(r)
            BY <3>3, <5>2 DEF Proceed, Work, Flush, LockFails, UniqueFails, AnswerFails,
                              Fetch, Look, PostCreate, CommitPhase, PostUpdate
          <5>3. CASE Fails(r)
            BY <5>3 DEF Fails, FetchFails, PostUnanswered, PostGarbled, PostRefused, StoreFails, Crash
          <5> QED BY <2>1, <5>1, <5>2, <5>3
        <4> QED BY <4>1
      <3> QED BY <3>1, <3>2, <3>3
    <2>2. ASSUME NEW o \in Objects, ChangeOutside(o) PROVE answer' = answer
      BY <2>2 DEF ChangeOutside
    <2>3. CASE UNCHANGED vars
      BY <2>3 DEF vars, Answers
    <2> QED BY <2>1, <2>2, <2>3 DEF Next, Done, Answers
  <1> QED BY <1>1, <1>2, <1>3, Inductive, PTL DEF Spec, LoneSyncMirrors

-----------------------------------------------------------------------------
(* Rows in step with Meta                                                  *)

\* The same, of one object and one column.
InStepOf(o, h) ==
    /\ \A u \in Updates : Target[u] = o /\ stage[u] \in {"post", "work"} =>
          rows[o] # <<>> /\ Covered(u, o, Change[u][1], Change[u][2])
    /\ h \in Mirrored(o) =>
          /\ \A r \in Requests \ Updates :
                stage[r] = "work" /\ got[r][o] # Absent => got[r][o][h] = meta[o][h]
          /\ rows[o] # <<>> /\ (\A u \in Updates : ~ Posted(u, o, h)) =>
                rows[o][1][h] = meta[o][h]
          /\ \A u \in Updates : Posted(u, o, h) => meta[o][h] = Change[u][2]

\* An update has a column to change, so the columns cover it.
LEMMA ColumnByColumn ==
    InStep <=> \A o \in Objects : Calm(o) => \A h \in Fields : InStepOf(o, h)
  <1>1. \A u \in Updates : Change[u][1] \in Fields
    BY MirrorConstants
  <1>2. \A o \in Objects : Mirrored(o) \subseteq Fields
    BY MirrorConstants DEF Mirrored
  <1>3. ASSUME InStep, NEW o \in Objects, Calm(o), NEW h \in Fields PROVE InStepOf(o, h)
    BY <1>3 DEF InStep, InStepOf
  <1>4. ASSUME \A o \in Objects : Calm(o) => \A h \in Fields : InStepOf(o, h) PROVE InStep
    BY <1>1, <1>2, <1>4 DEF InStep, InStepOf
  <1> QED BY <1>3, <1>4

\* A request that has begun never goes back, so a column once left behind stays so.
LEMMA MirroredBack ==
    ASSUME IInv, [Next]_vars, NEW o \in Objects
    PROVE  Mirrored(o)' \subseteq Mirrored(o)
  <1>1. \A u \in Requests : stage[u] # "idle" => stage'[u] # "idle"
    BY Shapes DEF Begins, GoesOn, Drops, Kept, Outside
  <1> QED BY <1>1 DEF Mirrored, Requests, LeftBehind, Pooled

\* r alone has to do with o, and no failure is behind its step.
Sole(r, o) == \A q \in Requests \ {r} : UnderWay(q) => o \notin Touches(q)

Failures == {"unanswered", "store", "crash", "outside"}

\* What is calm after a step was calm before it, and no failure happened in it.
LEMMA CalmBack ==
    ASSUME IInv, [Next]_vars, NEW o \in Objects, Calm(o)'
    PROVE  Calm(o) /\ \A k \in Failures : ~ Fault(k)
  <1>1. faults \in [FaultKinds -> Nat]
    BY DEF IInv, TypeOK
  <1>2. Apart(o)
    BY MeetingNext DEF Calm, Apart, Touches
  <1>3. \A k \in Failures : faults'[k] = 0
    BY DEF Calm, Failures
  <1>4. ASSUME NEW k \in Failures PROVE ~ Fault(k)
    <2>1. k \in FaultKinds /\ faults[k] \in Nat /\ faults'[k] = 0
      BY <1>1, <1>3 DEF Failures, FaultKinds
    <2>2. Fault(k) => faults'[k] = faults[k] + 1
      BY <1>1, <2>1 DEF Fault
    <2> QED BY <2>1, <2>2
  <1>5. UNCHANGED faults \/ \E k \in FaultKinds : Fault(k)
    <2>1. ASSUME NEW r \in Requests, Begin(r) \/ Proceed(r) \/ Fails(r)
          PROVE  UNCHANGED faults \/ \E k \in FaultKinds : Fault(k)
      <3>1. CASE Begin(r)
        BY <3>1 DEF Begin, BeginSync, BeginCreate, BeginUpdate
      <3>2. CASE Proceed(r)
        BY <3>2 DEF Proceed, Work, Flush, LockFails, UniqueFails, AnswerFails, Commit, Rollback,
                    Fetch, Look, PostCreate, CommitPhase, PostUpdate
      <3>3. CASE Fails(r)
        BY <3>3 DEF Fails, FetchFails, PostUnanswered, PostGarbled, PostRefused, StoreFails, Crash, FaultKinds
      <3> QED BY <2>1, <3>1, <3>2, <3>3
    <2>2. ASSUME NEW p \in Objects, ChangeOutside(p) PROVE \E k \in FaultKinds : Fault(k)
      BY <2>2 DEF ChangeOutside, FaultKinds
    <2> QED BY <2>1, <2>2 DEF Next, Done, vars
  <1>6. \A k \in Failures : faults[k] = 0
    <2>1. CASE UNCHANGED faults
      BY <1>3, <2>1
    <2>2. ASSUME NEW k \in FaultKinds, Fault(k) PROVE \A j \in Failures : faults[j] = 0
      <3>1. k \notin Failures
        BY <1>4, <2>2
      <3> QED BY <1>1, <1>3, <2>2, <3>1 DEF Fault, Failures, FaultKinds
    <2> QED BY <1>5, <2>1, <2>2
  <1> QED BY <1>2, <1>4, <1>6 DEF Calm, Failures

\* An object nobody's rivals had to do with has one row at most.
LEMMA OneRowApart ==
    ASSUME IInv, NEW o \in Objects, Apart(o)
    PROVE  Len(rows[o]) <= 1 /\ rows[o] \in Seq(Content) /\ (rows[o] # <<>> => DOMAIN rows[o] = {1})
  <1>1. rows[o] \in Seq(Content)
    BY DEF IInv, TypeOK
  <1>2. ~ Len(rows[o]) > 1
    BY DEF IInv, DuplicateNeedsOverlap, Apart
  <1> QED BY <1>1, <1>2

\* A step of a request that has to do with o, while o is apart, is the step of
\* the only one.
LEMMA SoleStep ==
    ASSUME IInv, [Next]_vars, NEW r \in Requests, Begin(r) \/ Proceed(r) \/ Fails(r),
           NEW o \in Objects, o \in Touches(r), Apart(o)'
    PROVE  Sole(r, o)
  <1>0. Apart(o)
    BY MeetingNext DEF Apart, Touches
  <1> SUFFICES ASSUME NEW q \in Requests \ {r}, UnderWay(q), o \in Touches(q) PROVE FALSE
    BY DEF Sole
  <1>1. CASE UnderWay(r)
    BY <1>0, <1>1, NotApart
  <1>2. CASE Begin(r)
    <2>1. Meet(r)
      BY <1>2 DEF Begin, BeginSync, BeginCreate, BeginUpdate
    <2>2. {r, q} \in met'
      BY <2>1 DEF Meet
    <2> QED BY <2>2 DEF Apart, Touches
  <1>3. UnderWay(r) \/ Begin(r)
    BY DEF Proceed, Work, Fails, UnderWay, Flush, LockFails, InDeadlock, WaitsFor, UniqueFails, AnswerFails,
           Commit, Ready, Flushed, Rollback, Fetch, Look, PostCreate, CommitPhase, PostUpdate,
           FetchFails, PostUnanswered, PostGarbled, PostRefused, StoreFails, Crash
  <1> QED BY <1>1, <1>2, <1>3

LEMMA GotTouches ==
    ASSUME IInv, Posting, Writing, NEW q \in Requests \ Updates, stage[q] = "work",
           NEW o \in Objects, got[q][o] # Absent
    PROVE  o \in Touches(q)
  <1>1. CASE q \in Syncs
    BY <1>1 DEF Writing, SyncWrites, Touches
  <1>2. CASE q \in Creates
    BY <1>2 DEF Posting, IInv, Sessions
  <1> QED BY <1>1, <1>2 DEF Requests

LEMMA GotTouchesNext ==
    ASSUME IInv', Posting', Writing', NEW q \in Requests \ Updates, stage'[q] = "work",
           NEW o \in Objects, o \notin Touches(q)
    PROVE  got'[q][o] = Absent
  <1>1. CASE q \in Syncs
    BY <1>1 DEF Writing, SyncWrites, Touches
  <1>2. CASE q \in Creates
    BY <1>2 DEF Posting, IInv, Sessions, Touches
  <1> QED BY <1>1, <1>2 DEF Requests

\* Only what r holds of o and the row need a look, after a step of r alone.
LEMMA SoleSuffices ==
    ASSUME IInv, Posting, Writing, NEW r \in Requests, Begin(r) \/ Proceed(r) \/ Fails(r),
           NEW o \in Objects, o \in Touches(r), Sole(r, o), NEW h \in Fields,
           h \in Mirrored(o)' =>
              /\ r \notin Updates /\ stage'[r] = "work" /\ got'[r][o] # Absent
                    => got'[r][o][h] = meta'[o][h]
              /\ rows'[o] # <<>> /\ ~ (r \in Updates /\ stage'[r] = "work" /\ Change[r][1] = h)
                    => rows'[o][1][h] = meta'[o][h]
              /\ r \in Updates /\ stage'[r] = "work" /\ Change[r][1] = h
                    => meta'[o][h] = Change[r][2],
           r \in Updates /\ stage'[r] \in {"post", "work"}
              => rows'[o] # <<>> /\ Covered(r, o, Change[r][1], Change[r][2])'
    PROVE  InStepOf(o, h)'
  <1>0. TypeOK
    BY DEF IInv
  <1>1. r \in Updates => Target[r] = o
    BY Kinds DEF Touches
  <1>2. \A q \in Requests \ {r} : SameSession(q)
    BY <1>0, SessionsApart
  <1>3. \A u \in Updates \ {r} : Target[u] = o => stage'[u] \notin {"post", "work"}
    <2> SUFFICES ASSUME NEW u \in Updates \ {r}, Target[u] = o, stage'[u] \in {"post", "work"}
                 PROVE  FALSE
      OBVIOUS
    <2>1. u \in Requests \ {r} /\ stage'[u] = stage[u]
      BY <1>2 DEF SameSession, Requests
    <2>2. UnderWay(u) /\ o \in Touches(u)
      BY <2>1, Kinds DEF UnderWay, Touches
    <2> QED BY <2>1, <2>2 DEF Sole
  <1>4. \A q \in Requests \ Updates :
          q # r => ~ (stage'[q] = "work" /\ got'[q][o] # Absent)
    <2> SUFFICES ASSUME NEW q \in Requests \ Updates, q # r,
                        stage'[q] = "work", got'[q][o] # Absent
                 PROVE  FALSE
      OBVIOUS
    <2>1. stage[q] = "work" /\ got[q][o] # Absent
      BY <1>2 DEF SameSession
    <2>2. UnderWay(q) /\ o \in Touches(q)
      BY <2>1, GotTouches DEF UnderWay
    <2> QED BY <2>2 DEF Sole
  <1>5. \A u \in Updates : Posted(u, o, h)' <=> (u = r /\ stage'[r] = "work" /\ Change[r][1] = h)
    BY <1>1, <1>3 DEF Posted
  <1>6. \A u \in Updates : Target[u] = o /\ stage'[u] \in {"post", "work"} =>
          rows'[o] # <<>> /\ Covered(u, o, Change[u][1], Change[u][2])'
    BY <1>3
  <1> QED BY <1>4, <1>5, <1>6 DEF InStepOf

\* A column of a row that is saved by a session that holds of it what Meta has,
\* and sets it to nothing else, is as at Meta.
LEMMA SavedInStep ==
    ASSUME TypeOK, NEW r \in Requests, NEW o \in Objects, NEW h \in Fields, Saved(r)[o] # <<>>,
           o \in added[r] => got[r][o][h] = meta[o][h],
           rows[o] # <<>> => rows[o][1][h] = meta[o][h],
           \A w \in wrote[r] : w.object = o /\ w.field = h => w.value = meta[o][h]
    PROVE  Saved(r)[o][1][h] = meta[o][h]
  <1>1. CASE rows[o] = <<>>
    BY <1>1, SavedShape
  <1>2. CASE rows[o] # <<>>
    <2>1. RowWritten(r, o, 1)[h] = meta[o][h]
      BY <1>2, ColumnWritten
    <2> QED BY <1>2, <2>1, SavedShape
  <1> QED BY <1>1, <1>2

\* A step of a sync.
LEMMA InStepSync ==
    ASSUME IInv, Posting, Writing, [Next]_vars, NEW s \in Syncs,
           Begin(s) \/ Proceed(s) \/ Fails(s),
           NEW o \in Objects, o \in Touches(s), Sole(s, o), NEW h \in Fields, InStepOf(o, h),
           \A k \in Failures : ~ Fault(k)
    PROVE  InStepOf(o, h)'
  <1>0. TypeOK /\ s \in Requests /\ s \notin Updates /\ s \notin Creates /\ SyncWrites(s)
    BY Kinds DEF IInv, Requests, Writing
  <1> SUFFICES ASSUME h \in Mirrored(o)' PROVE InStepOf(o, h)'
    BY <1>0, SoleSuffices
  <1>m. h \in Mirrored(o)
    BY MirroredBack
  <1>1. \A u \in Updates : ~ Posted(u, o, h)
    <2> SUFFICES ASSUME NEW u \in Updates, Posted(u, o, h) PROVE FALSE
      OBVIOUS
    <2>1. u \in Requests \ {s} /\ UnderWay(u) /\ o \in Touches(u)
      BY <1>0, Kinds DEF Posted, UnderWay, Touches, Requests
    <2> QED BY <2>1 DEF Sole
  <1>2. rows[o] # <<>> => rows[o][1][h] = meta[o][h]
    BY <1>1, <1>m DEF InStepOf
  <1>3. stage[s] = "work" /\ got[s][o] # Absent => got[s][o][h] = meta[o][h]
    BY <1>0, <1>m DEF InStepOf
  <1>4. UNCHANGED meta
    <2>1. CASE Begin(s)
      BY <1>0, <2>1 DEF Begin, BeginSync
    <2>2. CASE Proceed(s)
      BY <1>0, <2>2 DEF Proceed, Work, Flush, LockFails, UniqueFails, AnswerFails, Commit, Rollback, Fetch, Look
    <2>3. CASE Fails(s)
      BY <1>0, <2>3 DEF Fails, FetchFails, StoreFails, Crash
    <2> QED BY <2>1, <2>2, <2>3
  <1>5. stage'[s] = "work" /\ got'[s][o] # Absent => got'[s][o][h] = meta'[o][h]
    <2> SUFFICES ASSUME stage'[s] = "work", got'[s][o] # Absent PROVE got'[s][o][h] = meta[o][h]
      BY <1>4
    <2>1. ~ (Forget(s) /\ \E p \in {"failing", "done", "post"} : Goto(s, p))
      BY <1>0 DEF Goto, TypeOK
    <2>2. ~ BeginSync(s) /\ ~ FetchFails(s)
      BY <1>0 DEF BeginSync, FetchFails, Goto, TypeOK
    <2>3. CASE Fetch(s)
      <3>1. PICK L \in Listed(s) :
              got' = [got EXCEPT ![s] = [p \in Objects |-> IF p \in L THEN meta[p] ELSE Absent]]
        BY <2>3 DEF Fetch
      <3> QED BY <1>0, <3>1 DEF TypeOK
    <2>4. CASE Flush(s) \/ \E p \in Objects : Look(s, p)
      BY <1>3, <2>4 DEF Flush, Look
    <2> QED BY <1>0, <2>1, <2>2, <2>3, <2>4, StepKinds
  <1>6. rows'[o] # <<>> => rows'[o][1][h] = meta'[o][h]
    <2>1. CASE rows' = rows
      BY <1>2, <1>4, <2>1
    <2>2. CASE Ready(s) /\ rows' = Saved(s)
      <3>1. stage[s] = "work"
        BY <2>2 DEF Ready, Flushed
      <3>2. o \in added[s] => got[s][o][h] = meta[o][h]
        BY <1>0, <1>3, <3>1 DEF IInv, Sessions
      <3>3. \A w \in wrote[s] : w.object = o /\ w.field = h => w.value = meta[o][h]
        BY <1>0, <1>3, <3>1 DEF SyncWrites
      <3> QED BY <1>0, <1>2, <1>4, <2>2, <3>2, <3>3, SavedInStep
    <2> QED BY <1>0, <2>1, <2>2, RowsOf
  <1> QED BY <1>0, <1>5, <1>6, SoleSuffices

\* A step of a create: what it makes has no row yet and it holds it as made.
LEMMA InStepCreate ==
    ASSUME IInv, Posting, Writing, [Next]_vars, NEW c \in Creates,
           Begin(c) \/ Proceed(c) \/ Fails(c),
           NEW o \in Objects, o \in Touches(c), Sole(c, o), NEW h \in Fields, InStepOf(o, h),
           \A k \in Failures : ~ Fault(k)
    PROVE  InStepOf(o, h)'
  <1>0. TypeOK /\ c \in Requests /\ c \notin Updates /\ c \notin Syncs /\ PostingOf(c)
    BY Kinds DEF IInv, Requests, Posting, PostingOf
  <1> SUFFICES ASSUME h \in Mirrored(o)' PROVE InStepOf(o, h)'
    BY <1>0, SoleSuffices
  <1>m. h \in Mirrored(o)
    BY MirroredBack
  <1>1. \A u \in Updates : ~ Posted(u, o, h)
    <2> SUFFICES ASSUME NEW u \in Updates, Posted(u, o, h) PROVE FALSE
      OBVIOUS
    <2>1. u \in Requests \ {c} /\ UnderWay(u) /\ o \in Touches(u)
      BY <1>0, Kinds DEF Posted, UnderWay, Touches, Requests
    <2> QED BY <2>1 DEF Sole
  <1>2. rows[o] # <<>> => rows[o][1][h] = meta[o][h]
    BY <1>1, <1>m DEF InStepOf
  <1>3. stage[c] = "work" /\ got[c][o] # Absent => got[c][o][h] = meta[o][h]
    BY <1>0, <1>m DEF InStepOf
  <1>4. CASE PostCreate(c)
    <2>1. PICK p \in Objects :
            /\ meta[p] = Absent /\ p \in Pool[c][phase[c]]
            /\ meta' = [meta EXCEPT ![p] = Content0]
            /\ got' = [got EXCEPT ![c][p] = Fresh(p)]
      BY <1>4 DEF PostCreate, CreatesAtMeta
    <2>2. stage[c] = "post" /\ UNCHANGED rows
      BY <1>4 DEF PostCreate
    <2>3. rows[p] = <<>> /\ got[c][o] = Absent
      BY <1>0, <2>1, <2>2 DEF IInv, Known, PostingOf
    <2>4. got[c] \in [Objects -> Content \cup {Absent}] /\ got'[c] = [got[c] EXCEPT ![p] = Fresh(p)]
      BY <1>0, <2>1 DEF TypeOK
    <2>5. meta'[p] = Content0 /\ (o # p => meta'[o] = meta[o])
      BY <1>0, <2>1 DEF TypeOK
    <2>6. got'[c][o] # Absent => got'[c][o][h] = meta'[o][h]
      <3>1. p \in Pooled
        BY <1>0, <2>1 DEF Pooled, TypeOK
      <3>2. o = p => Fresh(p)[h] = Content0[h]
        BY <1>m, <3>1 DEF Mirrored, Fresh
      <3> QED BY <2>3, <2>4, <2>5, <3>2
    <2>7. rows'[o] # <<>> => rows'[o][1][h] = meta'[o][h]
      BY <1>2, <2>2, <2>3, <2>5
    <2> QED BY <1>0, <2>6, <2>7, SoleSuffices
  <1>5. CASE ~ PostCreate(c)
    <2>1. UNCHANGED meta
      <3>1. CASE Begin(c)
        BY <1>0, <3>1 DEF Begin, BeginCreate
      <3>2. CASE Proceed(c)
        BY <1>0, <1>5, <3>2 DEF Proceed, Work, Flush, LockFails, UniqueFails, AnswerFails, Commit, Rollback,
                                CommitPhase
      <3>3. CASE Fails(c)
        BY <1>0, <3>3 DEF Fails, Failures, PostUnanswered, PostGarbled, PostRefused, StoreFails, Crash
      <3> QED BY <3>1, <3>2, <3>3
    <2>2. stage'[c] = "work" /\ got'[c][o] # Absent => got'[c][o][h] = meta'[o][h]
      <3> SUFFICES ASSUME stage'[c] = "work", got'[c][o] # Absent PROVE got'[c][o][h] = meta[o][h]
        BY <2>1
      <3>1. ~ (Forget(c) /\ \E s \in {"failing", "done", "post"} : Goto(c, s))
        BY <1>0 DEF Goto, TypeOK
      <3>2. ~ BeginCreate(c) /\ ~ PostUnanswered(c) /\ ~ PostGarbled(c)
        BY <1>0 DEF BeginCreate, PostUnanswered, PostGarbled, Failures, Goto, TypeOK
      <3>3. ~ PostRefused(c)
        BY <1>0 DEF PostRefused, PostingOf, sessionVars
      <3>4. CASE Flush(c)
        BY <1>3, <3>4 DEF Flush
      <3> QED BY <1>0, <1>5, <3>1, <3>2, <3>3, <3>4, StepKinds
    <2>3. rows'[o] # <<>> => rows'[o][1][h] = meta'[o][h]
      <3>1. CASE rows' = rows
        BY <1>2, <2>1, <3>1
      <3>2. CASE Ready(c) /\ rows' = Saved(c)
        <4>1. stage[c] = "work"
          BY <3>2 DEF Ready, Flushed
        <4>2. o \in added[c] => got[c][o][h] = meta[o][h]
          BY <1>0, <1>3, <4>1 DEF IInv, Sessions
        <4>3. \A w \in wrote[c] : w.object = o /\ w.field = h => w.value = meta[o][h]
          BY <1>0 DEF PostingOf
        <4> QED BY <1>0, <1>2, <2>1, <3>2, <4>2, <4>3, SavedInStep
      <3> QED BY <1>0, <3>1, <3>2, RowsOf
    <2> QED BY <1>0, <2>2, <2>3, SoleSuffices
  <1> QED BY <1>4, <1>5

\* A step of an update: between the post and the commit the row lacks the column.
LEMMA InStepUpdate ==
    ASSUME IInv, Posting, Writing, [Next]_vars, NEW u \in Updates,
           Begin(u) \/ Proceed(u) \/ Fails(u),
           NEW o \in Objects, o = Target[u], Apart(o), Sole(u, o),
           NEW h \in Fields, InStepOf(o, h),
           \A k \in Failures : ~ Fault(k)
    PROVE  InStepOf(o, h)'
  <1> DEFINE f == Change[u][1]
             v == Change[u][2]
  <1>0. TypeOK /\ u \in Requests /\ u \notin Creates /\ u \notin Syncs /\ WritingOf(u)
        /\ Touches(u) = {o}
    BY Kinds DEF IInv, Requests, Writing, WritingOf, Touches
  <1>m. h \in Mirrored(o)' => h \in Mirrored(o)
    BY MirroredBack
  <1>1. \A q \in Updates \ {u} : ~ Posted(q, o, h)
    <2> SUFFICES ASSUME NEW q \in Updates \ {u}, Posted(q, o, h) PROVE FALSE
      OBVIOUS
    <2>1. q \in Requests \ {u} /\ UnderWay(q) /\ o \in Touches(q)
      BY Kinds DEF Posted, UnderWay, Touches, Requests
    <2> QED BY <2>1 DEF Sole
  <1>2. h \in Mirrored(o)' /\ rows[o] # <<>> /\ ~ (stage[u] = "work" /\ f = h) =>
            rows[o][1][h] = meta[o][h]
    BY <1>1, <1>m DEF InStepOf, Posted
  <1>3. stage[u] \in {"post", "work"} => rows[o] # <<>> /\ Covered(u, o, f, v)
    BY DEF InStepOf
  <1>4. h \in Mirrored(o)' /\ stage[u] = "work" /\ f = h => meta[o][h] = v
    BY <1>m DEF InStepOf, Posted
  <1>5. CASE BeginUpdate(u)
    <2>1. PICK k \in DOMAIN rows[o] :
            plan' = [plan EXCEPT ![u] = Differing(o, k, {f}, [g \in {f} |-> v])]
      BY <1>5 DEF BeginUpdate
    <2>2. stage[u] = "idle" /\ stage'[u] = "post" /\ UNCHANGED <<meta, rows>>
      BY <1>0, <1>5 DEF BeginUpdate, Goto, TypeOK
    <2>3. rows[o] # <<>> /\ k = 1
      BY <2>1, OneRowApart
    <2>4. plan'[u] = Differing(o, 1, {f}, [g \in {f} |-> v])
      BY <1>0, <2>1, <2>3 DEF TypeOK
    <2>5. Covered(u, o, f, v)'
      BY <2>2, <2>4 DEF Covered, Differing
    <2> HIDE DEF f, v
    <2> QED BY <1>0, <1>2, <2>2, <2>3, <2>5, SoleSuffices DEF f, v
  <1>6. CASE PostUpdate(u)
    <2>1. stage[u] = "post" /\ stage'[u] = "work" /\ UNCHANGED <<rows, plan, wrote>>
      BY <1>0, <1>6 DEF PostUpdate, Goto, TypeOK, sessionVars
    <2>2. PICK c \in Content :
            /\ \A g \in Fields \ Follows[u] : c[g] = IF g = f THEN v ELSE meta[o][g]
            /\ meta' = [meta EXCEPT ![o] = c]
      BY <1>6 DEF PostUpdate, UpdatesAtMeta
    <2>3. h \in Mirrored(o)' => h \notin Follows[u]
      BY <1>m, <2>1 DEF Mirrored, LeftBehind
    <2>4. h \in Mirrored(o)' => meta'[o][h] = IF h = f THEN v ELSE meta[o][h]
      BY <1>0, <2>2, <2>3 DEF TypeOK
    <2>5. rows[o] # <<>> /\ Covered(u, o, f, v)'
      BY <1>3, <2>1 DEF Covered
    <2> HIDE DEF f, v
    <2> QED BY <1>0, <1>2, <2>1, <2>4, <2>5, SoleSuffices DEF f, v
  <1>7. CASE PostRefused(u)
    <2>1. stage[u] = "post" /\ stage'[u] = "failing" /\ UNCHANGED <<meta, rows>>
      BY <1>0, <1>7 DEF PostRefused, PostRaises, Goto, TypeOK
    <2> QED BY <1>0, <1>2, <2>1, SoleSuffices
  <1>8. CASE Flush(u)
    <2>1. stage[u] = "work" /\ stage'[u] = "work" /\ UNCHANGED <<meta, rows>>
      BY <1>8 DEF Flush
    <2>2. plan'[u] \cup wrote'[u] = plan[u] \cup wrote[u]
      BY <1>0, <1>8 DEF Flush, NextWrites, TypeOK
    <2>3. rows'[o] # <<>> /\ Covered(u, o, f, v)'
      BY <1>3, <2>1, <2>2 DEF Covered
    <2> HIDE DEF f, v
    <2> QED BY <1>0, <1>2, <1>4, <2>1, <2>3, SoleSuffices DEF f, v
  <1>9. CASE Commit(u)
    <2>1. stage[u] = "work" /\ plan[u] = {} /\ rows' = Saved(u) /\ stage'[u] = "done"
          /\ UNCHANGED meta
      BY <1>0, <1>9 DEF Commit, Ready, Flushed, Goto, TypeOK
    <2>2. rows[o] # <<>> /\ Covered(u, o, f, v)
      BY <1>3, <2>1
    <2>3. rows'[o][1] = RowWritten(u, o, 1)
      BY <1>0, <2>1, <2>2, SavedShape
    <2>4. ASSUME h \in Mirrored(o)' PROVE RowWritten(u, o, 1)[h] = meta[o][h]
      <3>1. CASE h = f
        <4>1. \A w \in wrote[u] : w.object = o /\ w.row = 1 /\ w.field = f => w.value = v
          BY <1>0 DEF WritingOf
        <4>2. \/ \E w \in wrote[u] : w.object = o /\ w.row = 1 /\ w.field = f
              \/ rows[o][1][f] = v
          BY <2>1, <2>2 DEF Covered
        <4>3. \A w \in wrote[u] : w.object = o /\ w.row = 1 /\ w.field = h => w.value = v
          BY <3>1, <4>1
        <4>4. \/ \E w \in wrote[u] : w.object = o /\ w.row = 1 /\ w.field = h
              \/ rows[o][1][h] = v
          BY <3>1, <4>2
        <4>5. meta[o][h] = v
          BY <1>4, <2>1, <2>4, <3>1
        <4> HIDE DEF f, v
        <4> QED BY <1>0, <4>3, <4>4, <4>5, ColumnWritten
      <3>2. CASE h # f
        <4>1. ~ \E w \in wrote[u] : w.object = o /\ w.row = 1 /\ w.field = h
          BY <1>0, <3>2 DEF WritingOf
        <4>2. RowWritten(u, o, 1)[h] = rows[o][1][h]
          BY <1>0, <4>1, ColumnKept
        <4> QED BY <1>2, <2>2, <2>4, <3>2, <4>2
      <3> QED BY <3>1, <3>2
    <2> QED BY <1>0, <2>1, <2>3, <2>4, SoleSuffices
  <1>10. CASE Rollback(u)
    <2>1. stage[u] = "failing" /\ stage'[u] = "done" /\ UNCHANGED <<meta, rows>>
      BY <1>0, <1>10 DEF Rollback, Goto, TypeOK
    <2> QED BY <1>0, <1>2, <2>1, SoleSuffices
  <1>14. CASE AnswerFails(u)
    <2>1. stage[u] = "work" /\ stage'[u] = "failing" /\ UNCHANGED <<meta, rows>>
      BY <1>0, <1>14 DEF AnswerFails, Flushed, Goto, TypeOK
    <2>2. h \in Mirrored(o)' => f # h
      BY <1>m, <1>14, <2>1 DEF AnswerFails, Stale, Mirrored, LeftBehind
    <2> QED BY <1>0, <1>2, <2>1, <2>2, SoleSuffices
  <1>11. ~ LockFails(u)
    <2> SUFFICES ASSUME LockFails(u) PROVE FALSE
      OBVIOUS
    <2>1. PICK q \in Requests : WaitsFor(u, q)
      BY DEF LockFails, InDeadlock
    <2>2. q # u /\ \E w \in plan[u], x \in wrote[q] : SameRow(w, x)
      BY <2>1 DEF WaitsFor, NextWrites
    <2>3. o \in Touches(q)
      BY <1>0, <2>2 DEF SameRow, WritingOf, Writing
    <2>4. UnderWay(q)
      BY <2>2 DEF Writing, UnderWay
    <2> QED BY <2>2, <2>3, <2>4 DEF Sole
  <1>12. ~ UniqueFails(u)
    BY <1>0 DEF UniqueFails, Refused, IInv, Sessions
  <1>13. ~ PostUnanswered(u) /\ ~ PostGarbled(u) /\ ~ StoreFails(u) /\ ~ Crash(u)
    BY DEF Failures, PostUnanswered, PostGarbled, StoreFails, Crash
  <1> QED BY <1>0, <1>5, <1>6, <1>7, <1>8, <1>9, <1>10, <1>11, <1>12, <1>13, <1>14
          DEF Begin, Proceed, Work, Fails

\* A step of a request that has nothing to do with o.
LEMMA InStepElsewhere ==
    ASSUME IInv, Posting, Writing, [Next]_vars, Posting', Writing', IInv',
           NEW r \in Requests, Begin(r) \/ Proceed(r) \/ Fails(r),
           NEW o \in Objects, o \notin Touches(r), NEW h \in Fields, InStepOf(o, h)
    PROVE  InStepOf(o, h)'
  <1>0. TypeOK
    BY DEF IInv
  <1>1. \A q \in Requests \ {r} : SameSession(q)
    BY <1>0, SessionsApart
  <1>2. rows'[o] = rows[o]
    BY RowsOf, SavedElsewhere
  <1>3. meta'[o] = meta[o]
    <2>1. CASE UNCHANGED meta
      BY <2>1
    <2>2. CASE r \in Updates /\ UpdatesAtMeta(r)
      <3>1. Target[r] # o
        BY <2>2, Kinds DEF Touches
      <3> QED BY <1>0, <2>2, <3>1 DEF UpdatesAtMeta, TypeOK
    <2>3. ASSUME r \in Creates, NEW p \in Objects, CreatesAtMeta(r, p) PROVE meta'[o] = meta[o]
      <3>1. p \in Touches(r)
        BY <1>0, <2>3, Kinds DEF CreatesAtMeta, Touches, TypeOK
      <3> QED BY <1>0, <2>3, <3>1 DEF CreatesAtMeta, TypeOK
    <2>4. \/ UNCHANGED meta
          \/ r \in Updates /\ UpdatesAtMeta(r)
          \/ r \in Creates /\ \E p \in Objects : CreatesAtMeta(r, p)
      <3>1. CASE Begin(r)
        BY <3>1 DEF Begin, BeginSync, BeginCreate, BeginUpdate
      <3>2. CASE Proceed(r)
        BY <3>2 DEF Proceed, Work, Flush, LockFails, UniqueFails, AnswerFails, Commit, Rollback,
                    Fetch, Look, PostCreate, CommitPhase, PostUpdate
      <3>3. CASE Fails(r)
        BY <3>3 DEF Fails, FetchFails, PostUnanswered, PostGarbled, MayHaveActed, PostRefused,
                    StoreFails, Crash
      <3> QED BY <3>1, <3>2, <3>3
    <2> QED BY <2>1, <2>2, <2>3, <2>4
  <1>4. r \notin Updates /\ stage'[r] = "work" => got'[r][o] = Absent
    BY GotTouchesNext
  <1>5. \A u \in Updates : Target[u] = o => u \in Requests \ {r} /\ SameSession(u)
    BY <1>1, Kinds DEF Requests, Touches
  <1>6. \A u \in Updates : Target[u] = o =>
          /\ stage'[u] = stage[u] /\ (Posted(u, o, h)' <=> Posted(u, o, h))
          /\ Covered(u, o, Change[u][1], Change[u][2])
                => Covered(u, o, Change[u][1], Change[u][2])'
    BY <1>2, <1>5 DEF SameSession, Covered, Posted
  <1>m. h \in Mirrored(o)' => h \in Mirrored(o)
    BY MirroredBack
  <1>p. \A u \in Updates : Posted(u, o, h)' <=> Posted(u, o, h)
    BY <1>6 DEF Posted
  <1>7. h \in Mirrored(o)' => \A q \in Requests \ Updates :
          stage'[q] = "work" /\ got'[q][o] # Absent => got'[q][o][h] = meta'[o][h]
    BY <1>m, <1>1, <1>3, <1>4 DEF SameSession, InStepOf
  <1>8. h \in Mirrored(o)' /\ rows'[o] # <<>> /\ (\A u \in Updates : ~ Posted(u, o, h)')
          => rows'[o][1][h] = meta'[o][h]
    BY <1>m, <1>2, <1>3, <1>p DEF InStepOf
  <1>9. \A u \in Updates : Target[u] = o /\ stage'[u] \in {"post", "work"} =>
          rows'[o] # <<>> /\ Covered(u, o, Change[u][1], Change[u][2])'
    BY <1>2, <1>6 DEF InStepOf
  <1>10. h \in Mirrored(o)' => \A u \in Updates : Posted(u, o, h)' => meta'[o][h] = Change[u][2]
    BY <1>m, <1>3, <1>p DEF InStepOf
  <1> QED BY <1>7, <1>8, <1>9, <1>10 DEF InStepOf

LEMMA InStepNext == SessionInv /\ [Next]_vars => InStep'
  <1> SUFFICES ASSUME SessionInv, [Next]_vars, NEW o \in Objects, Calm(o)', NEW h \in Fields
               PROVE  InStepOf(o, h)'
    <2>1. (\A o \in Objects : Calm(o)' => \A h \in Fields : InStepOf(o, h)') => InStep'
      <3>1. \A u \in Updates : Change[u][1] \in Fields
        BY MirrorConstants
      <3>2. \A o \in Objects : Mirrored(o)' \subseteq Fields
        BY MirrorConstants DEF Mirrored
      <3> QED BY <3>1, <3>2 DEF InStep, InStepOf
    <2> QED BY <2>1
  <1>0. IInv /\ Posting /\ Writing /\ IInv' /\ Posting' /\ Writing'
    BY PostingNext, WritingNext, TypeNext, KnownNext, SessionsNext, MeetingNext, AddingNext,
       DuplicateNext DEF SessionInv, IInv
  <1>1. Calm(o) /\ \A k \in Failures : ~ Fault(k)
    BY <1>0, CalmBack
  <1>2. InStepOf(o, h) /\ Apart(o) /\ Apart(o)'
    BY <1>1, ColumnByColumn DEF SessionInv, Calm
  <1>3. ASSUME NEW r \in Requests, Begin(r) \/ Proceed(r) \/ Fails(r) PROVE InStepOf(o, h)'
    <2>1. CASE o \notin Touches(r)
      BY <1>0, <1>2, <1>3, <2>1, InStepElsewhere
    <2>2. CASE o \in Touches(r)
      <3>1. Sole(r, o)
        BY <1>0, <1>2, <1>3, <2>2, SoleStep
      <3>2. CASE r \in Syncs
        BY <1>0, <1>1, <1>2, <1>3, <2>2, <3>1, <3>2, InStepSync
      <3>3. CASE r \in Creates
        BY <1>0, <1>1, <1>2, <1>3, <2>2, <3>1, <3>3, InStepCreate
      <3>4. CASE r \in Updates
        <4>1. o = Target[r]
          BY <2>2, <3>4, Kinds DEF Touches
        <4> QED BY <1>0, <1>1, <1>2, <1>3, <3>1, <3>4, <4>1, InStepUpdate
      <3> QED BY <3>2, <3>3, <3>4 DEF Requests
    <2> QED BY <2>1, <2>2
  <1>4. ASSUME NEW p \in Objects, ChangeOutside(p) PROVE FALSE
    BY <1>1, <1>4 DEF ChangeOutside, Failures
  <1>5. CASE UNCHANGED vars
    BY <1>2, <1>5 DEF InStepOf, Posted, Covered, Mirrored, vars, sessionVars
  <1> QED BY <1>3, <1>4, <1>5 DEF Next, Done

LEMMA InStepInit == Init => InStep
  <1> SUFFICES ASSUME Init, NEW o \in Objects, NEW h \in Fields PROVE InStepOf(o, h)
    BY ColumnByColumn
  <1>1. \A r \in Requests : stage[r] = "idle"
    BY DEF Init
  <1>2. rows[o] # <<>> => rows[o][1] = meta[o]
    <2>1. rows[o] = <<>> \/ rows[o] = <<Content0>>
      BY DEF Init
    <2>2. rows[o] # <<>> => o \notin Pooled /\ meta[o] = Content0
      BY DEF Init
    <2> QED BY <2>1, <2>2
  <1> QED BY <1>1, <1>2 DEF InStepOf, Posted, Requests

\* The invariant of the sessions, kept by every step of every request.
THEOREM SessionsInductive == Spec => []SessionInv
  <1>1. Init => Posting /\ Writing /\ LookedUp /\ InStep
    BY LostInit, WritingInit, InStepInit
  <1>2. SessionInv /\ [Next]_vars => Posting' /\ Writing' /\ LookedUp' /\ InStep'
    BY PostingNext, WritingNext, LookedUpNext, InStepNext DEF SessionInv
  <1>3. IInv /\ Posting /\ Writing /\ LookedUp /\ InStep <=> SessionInv
    BY DEF SessionInv
  <1> QED BY <1>1, <1>2, <1>3, Inductive, PTL DEF Spec

\* For any requests that have to do with an object one after the other, with no
\* failure between Meta and the row: when they are over, the columns of its row
\* that the requests keep are as at Meta.  The order "Meta first, then the row" of
\* services/campaign.py goes wrong only over a failure in between, an overlap, or
\* the columns that a create does not store and an update leaves behind.
THEOREM RowsKeepStep == Spec => []RowsInStep
  <1>1. ASSUME SessionInv PROVE RowsInStep
    <2> SUFFICES ASSUME NEW o \in Objects, Calm(o),
                        \A r \in Requests : o \in Touches(r) => ~ UnderWay(r),
                        NEW k \in DOMAIN rows[o], NEW h \in Mirrored(o)
                 PROVE  rows[o][k][h] = meta[o][h]
      BY DEF RowsInStep
    <2>1. IInv /\ Apart(o) /\ InStep
      BY <1>1 DEF SessionInv, Calm
    <2>2. rows[o] # <<>> /\ k = 1
      BY <2>1, OneRowApart
    <2>3. \A u \in Updates : ~ Posted(u, o, h)
      <3> SUFFICES ASSUME NEW u \in Updates, Posted(u, o, h) PROVE FALSE
        OBVIOUS
      <3>1. u \in Requests /\ o \in Touches(u) /\ UnderWay(u)
        BY Kinds DEF Requests, Posted, Touches, UnderWay
      <3> QED BY <3>1
    <2> QED BY <2>1, <2>2, <2>3 DEF InStep
  <1> QED BY <1>1, SessionsInductive, PTL

-----------------------------------------------------------------------------
(* Progress: what there is to write                                        *)

LEMMA DifferingFinite ==
    ASSUME NEW o, NEW k, NEW fields, NEW value, IsFiniteSet(fields)
    PROVE  /\ IsFiniteSet(Differing(o, k, fields, value))
           /\ Cardinality(Differing(o, k, fields, value)) <= Cardinality(fields)
  <1> DEFINE S == {f \in fields : rows[o][k][f] # value[f]}
             g == [f \in S |-> [object |-> o, row |-> k, field |-> f, value |-> value[f]]]
  <1>1. IsFiniteSet(S) /\ Cardinality(S) \in Nat /\ Cardinality(fields) \in Nat
        /\ Cardinality(S) <= Cardinality(fields)
    BY FS_Subset, FS_CardinalityType
  <1>2. g \in Surjection(S, Differing(o, k, fields, value))
    BY DEF Surjection, Differing
  <1>3. /\ IsFiniteSet(Differing(o, k, fields, value))
        /\ Cardinality(Differing(o, k, fields, value)) <= Cardinality(S)
    BY <1>1, <1>2, FS_Surjection
  <1>4. Cardinality(Differing(o, k, fields, value)) \in Nat
    BY <1>3, FS_CardinalityType
  <1> QED BY <1>1, <1>3, <1>4

ProgressOf(r) == IsFiniteSet(plan[r]) /\ (stage[r] = "fetch" => r \in Syncs)

LEMMA ProgressNext ==
    ASSUME IsFiniteSet(Fields)
    PROVE  ProgressInv /\ SessionInv' /\ [Next]_vars => ProgressInv'
  <1> SUFFICES ASSUME ProgressInv, SessionInv', [Next]_vars, NEW q \in Requests
               PROVE  ProgressOf(q)'
    BY DEF ProgressInv, ProgressOf
  <1>0. TypeOK /\ ProgressOf(q)
    BY DEF ProgressInv, SessionInv, IInv, ProgressOf
  <1>s. ASSUME plan'[q] = plan[q], stage'[q] = stage[q] PROVE ProgressOf(q)'
    BY <1>0, <1>s DEF ProgressOf
  <1>1. ASSUME NEW r \in Requests, Begin(r) \/ Proceed(r) \/ Fails(r) PROVE ProgressOf(q)'
    <2>1. CASE q # r
      BY <1>0, <1>1, <1>s, <2>1, SessionsApart DEF SameSession
    <2>2. CASE q = r
      <3>1. CASE Forget(r) /\ \E s \in {"failing", "done", "post"} : Goto(r, s)
        <4>1. plan'[r] = {}
          BY <1>0, <3>1, ForgetEmpties DEF EmptySession
        <4>2. stage'[r] # "fetch"
          BY <1>0, <3>1 DEF Goto, TypeOK
        <4> QED BY <2>2, <4>1, <4>2, FS_EmptySet DEF ProgressOf
      <3>2. CASE Flush(r)
        <4>1. plan'[r] \subseteq plan[r] /\ stage'[r] = stage[r]
          BY <1>0, <3>2 DEF Flush, TypeOK
        <4> QED BY <1>0, <2>2, <4>1, FS_Subset DEF ProgressOf
      <3>3. CASE r \in Syncs /\ (BeginSync(r) \/ Fetch(r) \/ FetchFails(r))
        <4>1. plan' = plan
          BY <3>3 DEF BeginSync, Fetch, FetchFails, sessionVars
        <4> QED BY <1>0, <2>2, <3>3, <4>1 DEF ProgressOf
      <3>4. ASSUME NEW o \in Objects, r \in Syncs, Look(r, o) PROVE ProgressOf(q)'
        <4>1. \/ plan' = plan
              \/ plan' = [plan EXCEPT ![r] = @ \cup Differing(o, 1, Told(r, o), got[r][o])]
          BY <3>4 DEF Look
        <4>2. IsFiniteSet(Differing(o, 1, Told(r, o), got[r][o]))
          <5>1. Told(r, o) \subseteq Fields
            BY <3>4, MirrorConstants DEF Told
          <5>2. IsFiniteSet(Told(r, o))
            BY <5>1, FS_Subset
          <5> QED BY <5>2, DifferingFinite
        <4>3. IsFiniteSet(plan[r] \cup Differing(o, 1, Told(r, o), got[r][o]))
          BY <1>0, <2>2, <4>2, FS_Union DEF ProgressOf
        <4>4. IsFiniteSet(plan'[r])
          BY <1>0, <2>2, <4>1, <4>3 DEF ProgressOf, TypeOK
        <4> QED BY <2>2, <3>4, <4>4 DEF ProgressOf
      <3>5. CASE r \in Updates /\ BeginUpdate(r)
        <4>1. PICK k : plan' = [plan EXCEPT ![r] = Differing(Target[r], k, {Change[r][1]},
                                        [f \in {Change[r][1]} |-> Change[r][2]])]
          BY <3>5 DEF BeginUpdate
        <4> DEFINE D == Differing(Target[r], k, {Change[r][1]},
                                        [f \in {Change[r][1]} |-> Change[r][2]])
        <4>2. IsFiniteSet(D)
          BY FS_Singleton, DifferingFinite
        <4>3. plan'[r] = D
          <5> HIDE DEF D
          <5> QED BY <1>0, <4>1 DEF TypeOK, D
        <4>4. stage'[r] = "post"
          BY <1>0, <3>5 DEF BeginUpdate, Goto, TypeOK
        <4> QED BY <2>2, <4>2, <4>3, <4>4 DEF ProgressOf
      <3>6. CASE \/ r \in Creates /\ \/ BeginCreate(r) \/ PostCreate(r)
                                      \/ PostUnanswered(r) \/ PostGarbled(r) \/ PostRefused(r)
                 \/ r \in Updates /\ (PostUpdate(r) \/ PostUnanswered(r) \/ PostGarbled(r) \/ PostRefused(r))
        <4>1. plan' = plan
          BY <3>6 DEF BeginCreate, PostCreate, PostUpdate, PostUnanswered, PostGarbled, PostRefused, sessionVars
        <4>2. stage' = stage \/ \E s \in {"post", "work", "failing"} : Goto(r, s)
          BY <3>6 DEF BeginCreate, PostCreate, PostUpdate, PostUnanswered, PostGarbled, PostRefused, PostRaises
        <4>3. stage'[r] = stage[r] \/ stage'[r] # "fetch"
          BY <1>0, <4>2 DEF Goto, TypeOK
        <4> QED BY <1>0, <2>2, <4>1, <4>3 DEF ProgressOf
      <3> QED BY <1>1, <3>1, <3>2, <3>3, <3>4, <3>5, <3>6, StepKinds
    <2> QED BY <2>1, <2>2
  <1>2. CASE UNCHANGED <<plan, stage>>
    BY <1>2, <1>s
  <1> QED
    BY <1>1, <1>2 DEF Next, Done, ChangeOutside, vars, sessionVars

THEOREM ProgressInductive ==
    ASSUME IsFiniteSet(Fields)
    PROVE  Spec => []ProgressInv
  <1>1. Init /\ SessionInv => ProgressInv
    BY FS_EmptySet DEF Init, ProgressInv
  <1>2. ProgressInv /\ SessionInv' /\ [Next]_vars => ProgressInv'
    BY ProgressNext
  <1> QED BY <1>1, <1>2, SessionsInductive, PTL DEF Spec

-----------------------------------------------------------------------------
(* Progress: one may go on                                                 *)

LEMMA LeastOf ==
    ASSUME NEW S, S \subseteq Nat, S # {}
    PROVE  \E m \in S : \A n \in S : m <= n
  <1> DEFINE R == {ss \in Nat \X Nat : ss[1] < ss[2]}
  <1>1. PICK m \in S : \A n \in S : ~ (<<n, m>> \in R)
    <2>1. IsWellFoundedOn(R, Nat)
      BY NatLessThanWellFounded DEF OpToRel
    <2> HIDE DEF R
    <2> QED BY <2>1, WFMin
  <1>2. \A n \in S : ~ (n < m)
    BY <1>1
  <1> QED BY <1>2

\* A set has a subset of each size up to its own: of its subsets that are at least
\* so large, one with none smaller.
LEMMA SubsetOfSize ==
    ASSUME NEW S, IsFiniteSet(S), NEW n \in Nat, n <= Cardinality(S)
    PROVE  \E L \in SUBSET S : Cardinality(L) = n
  <1> DEFINE Large == {T \in SUBSET S : n <= Cardinality(T)}
             R == StrictSubsetOrdering(S)
  <1>1. IsWellFoundedOn(R, SUBSET S)
    BY FS_StrictSubsetOrderingWellFounded, FS_FiniteSubsetsOfFinite
  <1>2. Large \subseteq SUBSET S /\ S \in Large
    OBVIOUS
  <1>3. PICK L \in Large : \A T \in Large : ~ (<<T, L>> \in R)
    <2> HIDE DEF Large, R
    <2> QED BY <1>1, <1>2, WFMin
  <1>4. IsFiniteSet(L) /\ Cardinality(L) \in Nat /\ L \in SUBSET S /\ n <= Cardinality(L)
    BY FS_Subset, FS_CardinalityType
  <1>5. ASSUME NEW x \in L PROVE ~ (n < Cardinality(L))
    <2>1. Cardinality(L \ {x}) = Cardinality(L) - 1
      BY <1>4, FS_RemoveElement
    <2>2. L \ {x} \in SUBSET S /\ <<L \ {x}, L>> \in R
      BY <1>4 DEF StrictSubsetOrdering
    <2>3. L \ {x} \notin Large
      BY <1>3, <2>2
    <2> QED BY <1>4, <2>1, <2>2, <2>3
  <1>6. L = {} => Cardinality(L) = 0
    BY FS_EmptySet
  <1>7. Cardinality(L) = n
    BY <1>4, <1>5, <1>6
  <1> QED BY <1>4, <1>7

\* Meta has a page to answer with.
LEMMA SomeListing ==
    ASSUME IsFiniteSet(Objects), NEW s \in Syncs
    PROVE  Listed(s) # {}
  <1> DEFINE there == {o \in Scope[s] : meta[o] # Absent}
  <1>1. IsFiniteSet(there) /\ Cardinality(there) \in Nat /\ PageSize \in Nat
    BY MirrorConstants, FS_Subset, FS_CardinalityType
  <1>2. CASE Cardinality(there) < PageSize
    BY <1>2 DEF Listed
  <1>3. CASE PageSize <= Cardinality(there)
    <2>1. PICK L \in SUBSET there : Cardinality(L) = PageSize
      BY <1>1, <1>3, SubsetOfSize
    <2> QED BY <2>1 DEF Listed
  <1> QED BY <1>1, <1>2, <1>3

\* Of the changes to be flushed, those of the row with the least key come first.
LEMMA SomeNextWrites ==
    ASSUME TypeOK, NEW r \in Requests, plan[r] # {}, r \in Eager \/ todo[r] = {}
    PROVE  NextWrites(r) # {}
  <1> DEFINE keys == {Key[w.object] : w \in plan[r]}
  <1>1. plan[r] \subseteq Write
    BY DEF TypeOK
  <1>2. keys \subseteq Nat /\ keys # {}
    BY <1>1, MirrorConstants DEF Write
  <1>3. PICK m \in keys : \A n \in keys : m <= n
    <2> HIDE DEF keys
    <2> QED BY <1>2, LeastOf
  <1>4. PICK w \in plan[r] : m = Key[w.object]
    BY <1>3
  <1> QED BY <1>3, <1>4 DEF NextWrites

\* Among finitely many requests that each wait for one of them, some form a cycle.
LEMMA CycleOfWaits ==
    ASSUME NEW B \in SUBSET Requests, IsFiniteSet(B), B # {},
           \A r \in B : \E k \in B : WaitsFor(r, k)
    PROVE  \E r \in B : InDeadlock(r)
  <1> DEFINE Within == {T \in SUBSET B : T # {} /\ \A r \in T : \E k \in T : WaitsFor(r, k)}
             R == StrictSubsetOrdering(B)
  <1>1. IsWellFoundedOn(R, SUBSET B)
    BY FS_StrictSubsetOrderingWellFounded, FS_FiniteSubsetsOfFinite
  <1>2. Within \subseteq SUBSET B /\ B \in Within
    OBVIOUS
  <1>3. PICK T \in Within : \A U \in Within : ~ (<<U, T>> \in R)
    <2> HIDE DEF Within, R
    <2> QED BY <1>1, <1>2, WFMin
  <1> DEFINE U == {k \in T : \E r \in T : WaitsFor(r, k)}
  <1>4. U \in Within
    OBVIOUS
  <1>5. U = T
    <2>1. U \in SUBSET B /\ T \in SUBSET B /\ U \subseteq T /\ ~ (<<U, T>> \in R)
      BY <1>3, <1>4
    <2> HIDE DEF U
    <2> QED BY <2>1 DEF StrictSubsetOrdering
  <1>6. T \in SUBSET Requests /\ T # {}
    OBVIOUS
  <1>7. \A k \in T : (\E m \in T : WaitsFor(k, m)) /\ (\E m \in T : WaitsFor(m, k))
    BY <1>5
  <1>8. \A r \in T : InDeadlock(r)
    BY <1>6, <1>7 DEF InDeadlock
  <1> QED BY <1>6, <1>8

\* A request at work that may not go on waits for the row of another at work or
\* about to roll back: a session writes nothing before its posts.
LEMMA BlockedWaits ==
    ASSUME IInv, Writing, NEW r \in Requests, stage[r] = "work", ~ MayGoOn(r)
    PROVE  \E k \in Requests : WaitsFor(r, k) /\ stage[k] \in {"work", "failing"}
  <1>1. TypeOK
    BY DEF IInv
  <1>2. todo[r] = {} \/ (r \in Eager /\ plan[r] # {})
    BY <1>1 DEF MayGoOn, TypeOK
  <1>3. plan[r] # {}
    BY <1>2 DEF MayGoOn, Flushed
  <1>4. NextWrites(r) # {}
    BY <1>1, <1>2, <1>3, SomeNextWrites
  <1>5. PICK k \in Requests : WaitsFor(r, k)
    BY <1>4 DEF MayGoOn
  <1>6. stage[k] \in {"work", "failing"}
    BY <1>5 DEF WaitsFor, Writing
  <1> QED BY <1>5, <1>6

\* Of finitely many syncs, creates and updates, whatever rows their sessions have
\* written, those under way never wait all: the safety half of RequestsEnd.
THEOREM OneMayGoOn ==
    ASSUME IsFiniteSet(Requests), IsFiniteSet(Objects), IsFiniteSet(Fields)
    PROVE  Spec => []NoStandstill
  <1>1. ProgressInv => NoStandstill
    <2> SUFFICES ASSUME ProgressInv, NEW r \in Requests, UnderWay(r),
                        \A c \in Creates : stage[c] = "post" => HasLeft(c),
                        \A k \in Requests : ~ MayGoOn(k)
                 PROVE  FALSE
      BY DEF NoStandstill
    <2>0. IInv /\ Writing /\ TypeOK
      BY DEF ProgressInv, SessionInv, IInv
    <2>1. \A k \in Requests : stage[k] \notin {"failing", "post"}
      BY DEF MayGoOn
    <2>2. \A k \in Requests : stage[k] = "fetch" => k \in Syncs
      BY DEF ProgressInv
    <2>3. \A k \in Requests : stage[k] # "fetch"
      BY <2>2, SomeListing DEF MayGoOn
    <2> DEFINE B == {k \in Requests : stage[k] = "work"}
    <2>4. r \in B
      BY <2>0, <2>1, <2>3 DEF UnderWay, TypeOK
    <2>5. B \in SUBSET Requests /\ B # {} /\ IsFiniteSet(B)
      BY <2>4, FS_Subset
    <2>6. \A k \in B : \E m \in B : WaitsFor(k, m)
      BY <2>0, <2>1, BlockedWaits
    <2>7. PICK k \in B : InDeadlock(k)
      BY <2>5, <2>6, CycleOfWaits
    <2> QED BY <2>7 DEF MayGoOn
  <1> QED BY <1>1, ProgressInductive, PTL

-----------------------------------------------------------------------------
(* Progress: the steps run out                                             *)

Finite == IsFiniteSet(Objects) /\ IsFiniteSet(Fields)

\* The steps for phases of create c after phase p, and for what a session holds.
Phases(c, p) == IF c \in Creates THEN (Len(Pool[c]) - p) * PerPhase ELSE 0
Held(r, T, P, p) == Cardinality(T) * PerObject + Cardinality(P) + Phases(r, p)

LEMMA Times ==
    /\ \A m, n \in Nat : m * n \in Nat /\ (m + 1) * n = m * n + n
    /\ \A m, n, k \in Nat : m <= n => m * k <= n * k
  OBVIOUS

LEMMA UnitsType ==
    ASSUME Finite
    PROVE  /\ Cardinality(Objects) \in Nat /\ Cardinality(Fields) \in Nat
           /\ PerObject \in Nat /\ PerObject = Cardinality(Fields) + 1
           /\ MaxAttempts \in Nat /\ PerPhase \in Nat /\ PerPhase = MaxAttempts + 4
           /\ Cardinality(Objects) * PerObject \in Nat
  <1>1. /\ Cardinality(Objects) \in Nat /\ Cardinality(Fields) \in Nat /\ MaxAttempts \in Nat
    BY FS_CardinalityType, MirrorConstants DEF Finite
  <1>2. PerObject \in Nat /\ PerPhase \in Nat
    BY <1>1 DEF PerObject, PerPhase
  <1> QED BY <1>1, <1>2, Times DEF PerObject, PerPhase

LEMMA PhasesType ==
    ASSUME Finite, NEW c \in Creates, NEW p \in DOMAIN Pool[c]
    PROVE  /\ Phases(c, p) \in Nat
           /\ Phases(c, p) + PerPhase <= Len(Pool[c]) * PerPhase
           /\ Len(Pool[c]) * PerPhase \in Nat
           /\ p < Len(Pool[c]) => Phases(c, p) = Phases(c, p + 1) + PerPhase
  <1>1. Len(Pool[c]) \in Nat /\ p \in 1 .. Len(Pool[c]) /\ PerPhase \in Nat
    BY UnitsType, MirrorConstants
  <1> DEFINE n == Len(Pool[c]) - p
  <1>2. n \in Nat /\ n + 1 \in Nat /\ n + 1 <= Len(Pool[c])
    <2>1. \A L \in Nat : \A i \in 1 .. L : L - i \in Nat /\ L - i + 1 \in Nat /\ L - i + 1 <= L
      OBVIOUS
    <2> QED BY <1>1, <2>1
  <1>3. /\ n * PerPhase \in Nat /\ (n + 1) * PerPhase = n * PerPhase + PerPhase
        /\ (n + 1) * PerPhase <= Len(Pool[c]) * PerPhase /\ Len(Pool[c]) * PerPhase \in Nat
    <2> HIDE DEF n
    <2> QED BY <1>1, <1>2, Times
  <1>4. ASSUME p < Len(Pool[c]) PROVE n * PerPhase = (Len(Pool[c]) - (p + 1)) * PerPhase + PerPhase
    <2>1. Len(Pool[c]) - (p + 1) \in Nat /\ n = Len(Pool[c]) - (p + 1) + 1
      BY <1>1, <1>4
    <2> HIDE DEF n
    <2> QED BY <1>1, <2>1, Times
  <1>5. Phases(c, p) = n * PerPhase /\ Phases(c, p + 1) = (Len(Pool[c]) - (p + 1)) * PerPhase
    BY DEF Phases
  <1> HIDE DEF n
  <1> QED BY <1>3, <1>4, <1>5

LEMMA HeldType ==
    ASSUME Finite, NEW r \in Requests, NEW T \in SUBSET Objects, NEW P, IsFiniteSet(P),
           NEW p, r \in Creates => p \in DOMAIN Pool[r]
    PROVE  /\ IsFiniteSet(T) /\ Cardinality(T) \in Nat /\ Cardinality(P) \in Nat
           /\ Cardinality(T) * PerObject \in Nat
           /\ Cardinality(T) * PerObject <= Cardinality(Objects) * PerObject
           /\ Phases(r, p) \in Nat
           /\ Held(r, T, P, p) = Cardinality(T) * PerObject + Cardinality(P) + Phases(r, p)
           /\ Held(r, T, P, p) \in Nat
  <1>1. /\ IsFiniteSet(T) /\ Cardinality(T) \in Nat /\ Cardinality(P) \in Nat
        /\ Cardinality(T) <= Cardinality(Objects)
    BY FS_Subset, FS_CardinalityType DEF Finite
  <1>2. Cardinality(T) * PerObject \in Nat
        /\ Cardinality(T) * PerObject <= Cardinality(Objects) * PerObject
    BY <1>1, UnitsType, Times
  <1>3. Phases(r, p) \in Nat
    BY PhasesType DEF Phases
  <1> QED BY <1>1, <1>2, <1>3 DEF Held

\* The bound on the steps, with what it depends on as parameters.
Bound(r, s, T, P, p, k) ==
    CASE s = "idle" -> Cardinality(Objects) * PerObject + PerPhase + 1 +
                       IF r \in Creates THEN Len(Pool[r]) * PerPhase ELSE 0
      [] s = "fetch" -> Cardinality(Objects) * PerObject + 3
      [] s = "post" -> Held(r, T, P, p) + 3 + (MaxAttempts - k)
      [] s = "work" -> Held(r, T, P, p) + 2
      [] s = "failing" -> 1
      [] s = "done" -> 0

LEMMA BoundIs ==
    ASSUME NEW r \in Requests
    PROVE  /\ StepsLeft(r) = Bound(r, stage[r], todo[r], plan[r], phase[r], tries[r])
           /\ StepsLeft(r)' = Bound(r, stage'[r], todo'[r], plan'[r], phase'[r], tries'[r])
  BY DEF StepsLeft, Ahead, Bound, Held, Phases

LEMMA BoundType ==
    ASSUME Finite, NEW r \in Requests, NEW T \in SUBSET Objects, NEW P, IsFiniteSet(P),
           NEW p, r \in Creates => p \in DOMAIN Pool[r], NEW k \in 0 .. MaxAttempts
    PROVE  /\ \A s \in {"idle", "fetch", "post", "work", "failing", "done"} :
                    Bound(r, s, T, P, p, k) \in Nat
           /\ \A s \in {"idle", "fetch", "post", "work"} : Bound(r, s, T, P, p, k) >= 2
           /\ Bound(r, "post", T, P, p, k) = Held(r, T, P, p) + 3 + (MaxAttempts - k)
           /\ Bound(r, "work", T, P, p, k) = Held(r, T, P, p) + 2
           /\ Bound(r, "failing", T, P, p, k) = 1
           /\ Bound(r, "done", T, P, p, k) = 0
           /\ Bound(r, "fetch", T, P, p, k) = Cardinality(Objects) * PerObject + 3
           /\ Bound(r, "idle", T, P, p, k)
                >= Cardinality(Objects) * PerObject + PerPhase + 1 + Phases(r, p)
  <1> DEFINE I == IF r \in Creates THEN Len(Pool[r]) * PerPhase ELSE 0
  <1>1. /\ Bound(r, "post", T, P, p, k) = Held(r, T, P, p) + 3 + (MaxAttempts - k)
        /\ Bound(r, "work", T, P, p, k) = Held(r, T, P, p) + 2
        /\ Bound(r, "failing", T, P, p, k) = 1
        /\ Bound(r, "done", T, P, p, k) = 0
        /\ Bound(r, "fetch", T, P, p, k) = Cardinality(Objects) * PerObject + 3
        /\ Bound(r, "idle", T, P, p, k) = Cardinality(Objects) * PerObject + PerPhase + 1 + I
    BY DEF Bound
  <1>2. I \in Nat /\ Phases(r, p) \in Nat /\ Phases(r, p) <= I
    <2>1. CASE r \in Creates
      <3>1. Phases(r, p) \in Nat /\ I \in Nat /\ Phases(r, p) + PerPhase <= I /\ PerPhase \in Nat
        BY <2>1, PhasesType, UnitsType
      <3> HIDE DEF I
      <3> QED BY <3>1
    <2>2. CASE r \notin Creates
      BY <2>2 DEF Phases
    <2> QED BY <2>1, <2>2
  <1>3. Held(r, T, P, p) \in Nat
    BY HeldType
  <1> HIDE DEF I, Bound
  <1>4. /\ Held(r, T, P, p) + 3 + (MaxAttempts - k) \in Nat
        /\ Held(r, T, P, p) + 3 + (MaxAttempts - k) >= 2
    BY <1>3, UnitsType
  <1>5. /\ Cardinality(Objects) * PerObject + PerPhase + 1 + I \in Nat
        /\ Cardinality(Objects) * PerObject + PerPhase + 1 + I >= 2
        /\ Cardinality(Objects) * PerObject + PerPhase + 1 + I
             >= Cardinality(Objects) * PerObject + PerPhase + 1 + Phases(r, p)
    BY <1>2, UnitsType
  <1>6. Bound(r, "idle", T, P, p, k) \in Nat /\ Bound(r, "idle", T, P, p, k) >= 2
    BY <1>1, <1>5
  <1>7. Bound(r, "post", T, P, p, k) \in Nat /\ Bound(r, "post", T, P, p, k) >= 2
    BY <1>1, <1>4
  <1>8. /\ Bound(r, "work", T, P, p, k) \in Nat /\ Bound(r, "work", T, P, p, k) >= 2
        /\ Bound(r, "fetch", T, P, p, k) \in Nat /\ Bound(r, "fetch", T, P, p, k) >= 2
    BY <1>1, <1>3, UnitsType
  <1> QED BY <1>1, <1>5, <1>6, <1>7, <1>8

\* A step that leads to the end of a request, through its rollback or at once.
LEMMA EndLowers ==
    ASSUME Finite, ProgressInv, ProgressInv', NEW r \in Requests,
           \/ stage[r] \in {"idle", "fetch", "post", "work"} /\ stage'[r] = "failing"
           \/ stage[r] \in {"idle", "fetch", "post", "work", "failing"} /\ stage'[r] = "done"
    PROVE  StepsLeft(r)' < StepsLeft(r)
  <1> DEFINE b == Bound(r, stage[r], todo[r], plan[r], phase[r], tries[r])
             c == Bound(r, stage'[r], todo'[r], plan'[r], phase'[r], tries'[r])
  <1>1. /\ todo[r] \in SUBSET Objects /\ IsFiniteSet(plan[r]) /\ tries[r] \in 0 .. MaxAttempts
        /\ r \in Creates => phase[r] \in DOMAIN Pool[r]
    BY DEF ProgressInv, SessionInv, IInv, TypeOK
  <1>2. /\ stage[r] \in {"idle", "fetch", "post", "work"} => b >= 2
        /\ stage[r] = "failing" => b = 1
        /\ b \in Nat
    BY <1>1, BoundType
  <1>3. (stage'[r] = "failing" => c = 1) /\ (stage'[r] = "done" => c = 0)
    BY DEF Bound
  <1>4. StepsLeft(r) = b /\ StepsLeft(r)' = c
    BY BoundIs
  <1> HIDE DEF b, c
  <1> QED BY <1>2, <1>3, <1>4

LEMMA SyncLowers ==
    ASSUME Finite, ProgressInv, ProgressInv', NEW r \in Syncs,
           \/ BeginSync(r) \/ Fetch(r) \/ FetchFails(r)
           \/ \E o \in Objects : Look(r, o)
    PROVE  StepsLeft(r)' < StepsLeft(r)
  <1>0. /\ TypeOK /\ r \in Requests /\ r \notin Creates
        /\ IsFiniteSet(plan[r]) /\ IsFiniteSet(plan'[r])
        /\ todo[r] \in SUBSET Objects /\ todo'[r] \in SUBSET Objects
        /\ tries[r] \in 0 .. MaxAttempts /\ tries'[r] \in 0 .. MaxAttempts
    BY Kinds DEF ProgressInv, SessionInv, IInv, TypeOK, Requests
  <1> DEFINE b == Bound(r, stage[r], todo[r], plan[r], phase[r], tries[r])
             c == Bound(r, stage'[r], todo'[r], plan'[r], phase'[r], tries'[r])
             OP == Cardinality(Objects) * PerObject
             t == Cardinality(todo[r]) * PerObject
             u == Cardinality(todo'[r]) * PerObject
             x == Cardinality(plan[r])
             y == Cardinality(plan'[r])
  <1>1. StepsLeft(r) = b /\ StepsLeft(r)' = c
    BY <1>0, BoundIs
  <1>2. Phases(r, phase[r]) = 0 /\ Phases(r, phase'[r]) = 0
    BY <1>0 DEF Phases
  <1>3. /\ stage[r] = "idle" => b >= OP + PerPhase + 1
        /\ stage[r] = "fetch" => b = OP + 3
        /\ stage[r] = "work" => b = t + x + 2
        /\ b \in Nat /\ t \in Nat /\ x \in Nat
    <2>1. b \in Nat
      BY <1>0, BoundType DEF TypeOK
    <2>2. Held(r, todo[r], plan[r], phase[r]) = t + x /\ t \in Nat /\ x \in Nat
      BY <1>0, <1>2, HeldType
    <2>3. stage[r] = "idle" => b >= OP + PerPhase + 1
      <3>1. OP + PerPhase + 1 + 0 = OP + PerPhase + 1
        BY UnitsType
      <3> QED BY <1>0, <1>2, <3>1, BoundType
    <2> HIDE DEF b, t, x
    <2> QED BY <1>0, <2>1, <2>2, <2>3, BoundType DEF b
  <1>4. /\ stage'[r] = "fetch" => c = OP + 3
        /\ stage'[r] = "work" => c = u + y + 2
        /\ u \in Nat /\ u <= OP /\ y \in Nat
    <2>2. Held(r, todo'[r], plan'[r], phase'[r]) = u + y /\ u \in Nat /\ y \in Nat /\ u <= OP
      BY <1>0, <1>2, HeldType
    <2> HIDE DEF c, u, y
    <2> QED BY <1>0, <2>2, BoundType DEF c
  <1>5. OP \in Nat /\ PerPhase \in Nat /\ PerPhase >= 4
    BY UnitsType
  <1>6. CASE BeginSync(r)
    <2>1. stage[r] = "idle" /\ stage'[r] = "fetch"
      BY <1>0, <1>6 DEF BeginSync, Goto, TypeOK
    <2> HIDE DEF b, c, OP, t, u, x, y
    <2> QED BY <1>1, <1>3, <1>4, <1>5, <2>1
  <1>7. CASE Fetch(r)
    <2>1. stage[r] = "fetch" /\ stage'[r] = "work" /\ plan' = plan
      BY <1>0, <1>7 DEF Fetch, Goto, TypeOK
    <2>2. plan[r] = {}
      BY <1>0, <2>1 DEF ProgressInv, SessionInv, Writing, SyncWrites
    <2>3. y = 0
      BY <2>1, <2>2, FS_EmptySet
    <2> HIDE DEF b, c, OP, t, u, x, y
    <2> QED BY <1>1, <1>3, <1>4, <1>5, <2>1, <2>3
  <1>8. CASE FetchFails(r)
    <2>1. stage[r] = "fetch" /\ stage'[r] = "failing"
      BY <1>0, <1>8 DEF FetchFails, Goto, TypeOK
    <2> QED BY <1>0, <2>1, EndLowers
  <1>9. ASSUME NEW o \in Objects, Look(r, o) PROVE StepsLeft(r)' < StepsLeft(r)
    <2>1. stage[r] = "work" /\ o \in todo[r] /\ todo'[r] = todo[r] \ {o}
      BY <1>0, <1>9 DEF Look, TypeOK
    <2>2. t = u + PerObject
      <3>1. /\ Cardinality(todo'[r]) = Cardinality(todo[r]) - 1 /\ Cardinality(todo[r]) \in Nat
            /\ Cardinality(todo'[r]) \in Nat
        <4>1. IsFiniteSet(todo[r]) /\ IsFiniteSet(todo[r] \ {o})
          BY <1>0, FS_Subset DEF Finite
        <4>2. Cardinality(todo[r] \ {o}) = Cardinality(todo[r]) - 1
          BY <2>1, <4>1, FS_RemoveElement
        <4> QED BY <2>1, <4>1, <4>2, FS_CardinalityType
      <3>2. Cardinality(todo[r]) = Cardinality(todo'[r]) + 1
        BY <3>1
      <3> QED BY <3>1, <3>2, Times, UnitsType
    <2>3. CASE stage' = stage /\ plan' = plan
      <3>1. y = x /\ stage'[r] = "work"
        BY <2>1, <2>3
      <3> HIDE DEF b, c, OP, t, u, x, y
      <3> QED BY <1>1, <1>3, <1>4, <2>1, <2>2, <3>1, UnitsType
    <2>4. CASE stage' = stage /\
               plan' = [plan EXCEPT ![r] = @ \cup Differing(o, 1, Told(r, o), got[r][o])]
      <3> DEFINE D == Differing(o, 1, Told(r, o), got[r][o])
      <3>1. IsFiniteSet(Told(r, o)) /\ Cardinality(Told(r, o)) <= Cardinality(Fields)
            /\ Cardinality(Told(r, o)) \in Nat
        <4>1. Told(r, o) \subseteq Fields
          BY MirrorConstants DEF Told
        <4> QED BY <4>1, FS_Subset, FS_CardinalityType DEF Finite
      <3>2. IsFiniteSet(D) /\ Cardinality(D) <= Cardinality(Told(r, o)) /\ Cardinality(D) \in Nat
        BY <3>1, DifferingFinite, FS_CardinalityType
      <3>3. plan'[r] = plan[r] \cup D
        <4> HIDE DEF D
        <4> QED BY <1>0, <2>4 DEF TypeOK, D
      <3>4. y <= x + Cardinality(D)
        <4>1. IsFiniteSet(plan[r] \cap D) /\ Cardinality(plan[r] \cap D) \in Nat
          BY <1>0, FS_Intersection, FS_CardinalityType
        <4>2. Cardinality(plan[r] \cup D) = x + Cardinality(D) - Cardinality(plan[r] \cap D)
          <5> HIDE DEF D
          <5> QED BY <1>0, <3>2, FS_Union
        <4> HIDE DEF D
        <4> QED BY <1>3, <3>2, <3>3, <4>1, <4>2
      <3>5. y <= x + Cardinality(Fields)
        <4> HIDE DEF D, x, y
        <4> QED BY <1>3, <1>4, <3>1, <3>2, <3>4, UnitsType
      <3>6. stage'[r] = "work"
        BY <2>1, <2>4
      <3> HIDE DEF b, c, OP, t, u, x, y
      <3> QED BY <1>1, <1>3, <1>4, <2>1, <2>2, <3>5, <3>6, UnitsType
    <2>5. CASE Goto(r, "failing")
      <3>1. stage'[r] = "failing"
        BY <1>0, <2>5 DEF Goto, TypeOK
      <3> QED BY <1>0, <2>1, <3>1, EndLowers
    <2> QED BY <1>9, <2>3, <2>4, <2>5 DEF Look
  <1> QED BY <1>6, <1>7, <1>8, <1>9

\* Posts and phases, of a create or an update.
LEMMA PostLowers ==
    ASSUME Finite, ProgressInv, ProgressInv', NEW r \in Requests, r \notin Syncs,
           \/ r \in Creates /\ (BeginCreate(r) \/ PostCreate(r) \/ CommitPhase(r))
           \/ r \in Updates /\ (BeginUpdate(r) \/ PostUpdate(r))
           \/ PostUnanswered(r) \/ PostGarbled(r) \/ PostRefused(r)
    PROVE  StepsLeft(r)' < StepsLeft(r)
  <1>0. /\ TypeOK /\ TypeOK'
        /\ IsFiniteSet(plan[r]) /\ IsFiniteSet(plan'[r])
        /\ todo[r] \in SUBSET Objects /\ todo'[r] \in SUBSET Objects
        /\ tries[r] \in 0 .. MaxAttempts /\ tries'[r] \in 0 .. MaxAttempts
        /\ r \in Creates => phase[r] \in DOMAIN Pool[r] /\ phase'[r] \in DOMAIN Pool[r]
    BY DEF ProgressInv, SessionInv, IInv, TypeOK
  <1> DEFINE b == Bound(r, stage[r], todo[r], plan[r], phase[r], tries[r])
             c == Bound(r, stage'[r], todo'[r], plan'[r], phase'[r], tries'[r])
             OP == Cardinality(Objects) * PerObject
             h == Held(r, todo[r], plan[r], phase[r])
             i == Held(r, todo'[r], plan'[r], phase'[r])
             k == tries[r]
             l == tries'[r]
  <1>1. StepsLeft(r) = b /\ StepsLeft(r)' = c
    BY BoundIs
  <1>2. /\ stage[r] = "idle" => b >= OP + PerPhase + 1 + Phases(r, phase[r])
        /\ stage[r] = "post" => b = h + 3 + (MaxAttempts - k)
        /\ stage[r] = "work" => b = h + 2
        /\ h \in Nat /\ k \in 0 .. MaxAttempts /\ b \in Nat
    <2>1. h \in Nat
      BY <1>0, HeldType
    <2>2. stage[r] \in {"idle", "fetch", "post", "work", "failing", "done"}
      BY <1>0 DEF TypeOK
    <2>3. b \in Nat
      BY <1>0, <2>2, BoundType
    <2> HIDE DEF h
    <2> QED BY <1>0, <2>1, <2>3, BoundType DEF h
  <1>3. /\ stage'[r] = "post" => c = i + 3 + (MaxAttempts - l)
        /\ stage'[r] = "work" => c = i + 2
        /\ i \in Nat /\ l \in 0 .. MaxAttempts
    <2>1. i \in Nat
      BY <1>0, HeldType
    <2> HIDE DEF i
    <2> QED BY <1>0, <2>1, BoundType DEF i
  <1>4. OP \in Nat /\ PerPhase = MaxAttempts + 4 /\ MaxAttempts \in Nat
    BY UnitsType
  <1>5. ASSUME stage[r] = "idle", stage'[r] = "post", Cardinality(plan'[r]) <= 1,
               r \in Creates => phase'[r] = phase[r]
        PROVE  StepsLeft(r)' < StepsLeft(r)
    <2>1. Phases(r, phase'[r]) = Phases(r, phase[r]) /\ Phases(r, phase[r]) \in Nat
      BY <1>0, <1>5, HeldType DEF Phases
    <2>2. i <= OP + 1 + Phases(r, phase[r])
      <3>1. /\ Cardinality(todo'[r]) * PerObject \in Nat /\ Cardinality(todo'[r]) * PerObject <= OP
            /\ Cardinality(plan'[r]) \in Nat
            /\ i = Cardinality(todo'[r]) * PerObject + Cardinality(plan'[r]) + Phases(r, phase'[r])
        <4> DEFINE p == phase'[r]
        <4>1. r \in Creates => p \in DOMAIN Pool[r]
          BY <1>0
        <4> HIDE DEF p
        <4> QED BY <1>0, <4>1, HeldType DEF p
      <3> HIDE DEF i, OP
      <3> QED BY <1>4, <1>5, <2>1, <3>1
    <2> DEFINE x == Phases(r, phase[r])
    <2> HIDE DEF b, c, OP, h, i, k, l, x
    <2>3. b >= OP + (MaxAttempts + 4) + 1 + x /\ b \in Nat /\ x \in Nat /\ i <= OP + 1 + x
      BY <1>2, <1>4, <1>5, <2>1, <2>2 DEF x
    <2>4. c = i + 3 + (MaxAttempts - l) /\ i \in Nat /\ l \in 0 .. MaxAttempts
      BY <1>3, <1>5
    <2>5. c < b
      BY <1>4, <2>3, <2>4
    <2> QED BY <1>1, <2>5
  <1>6. CASE r \in Creates /\ BeginCreate(r)
    <2>1. stage[r] = "idle" /\ stage'[r] = "post" /\ plan' = plan /\ phase' = phase
      BY <1>0, <1>6 DEF BeginCreate, Goto, TypeOK, sessionVars
    <2>2. plan[r] = {}
      BY <1>6 DEF ProgressInv, SessionInv, Posting
    <2>3. Cardinality(plan'[r]) <= 1
      BY <2>1, <2>2, FS_EmptySet
    <2> QED BY <1>5, <2>1, <2>3
  <1>7. CASE r \in Updates /\ BeginUpdate(r)
    <2>1. stage[r] = "idle" /\ stage'[r] = "post" /\ r \notin Creates
      BY <1>0, <1>7, Kinds DEF BeginUpdate, Goto, TypeOK
    <2>2. PICK n : plan' = [plan EXCEPT ![r] = Differing(Target[r], n, {Change[r][1]},
                                        [f \in {Change[r][1]} |-> Change[r][2]])]
      BY <1>7 DEF BeginUpdate
    <2> DEFINE D == Differing(Target[r], n, {Change[r][1]}, [f \in {Change[r][1]} |-> Change[r][2]])
    <2>3. plan'[r] = D
      <3> HIDE DEF D
      <3> QED BY <1>0, <2>2 DEF TypeOK, D
    <2>4. Cardinality(D) <= 1
      <3>1. IsFiniteSet({Change[r][1]}) /\ Cardinality({Change[r][1]}) = 1
        BY FS_Singleton
      <3> QED BY <3>1, DifferingFinite
    <2> HIDE DEF D
    <2> QED BY <1>5, <2>1, <2>3, <2>4
  <1>8. ASSUME stage[r] = "post", i = h, k = l, stage'[r] = "work"
        PROVE  StepsLeft(r)' < StepsLeft(r)
    <2> HIDE DEF b, c, OP, h, i, k, l
    <2> QED BY <1>1, <1>2, <1>3, <1>4, <1>8
  <1>9. CASE PostCreate(r) \/ PostUpdate(r)
    <2>1. /\ stage[r] = "post" /\ stage'[r] = "work"
          /\ UNCHANGED <<todo, plan, phase, tries>>
      BY <1>0, <1>9 DEF PostCreate, PostUpdate, Goto, TypeOK, sessionVars
    <2> QED BY <1>8, <2>1
  <1>10. CASE r \in Creates /\ CommitPhase(r)
    <2>1. /\ stage[r] = "work" /\ stage'[r] = "post" /\ todo[r] = {} /\ plan[r] = {}
          /\ todo'[r] = {} /\ plan'[r] = {} /\ phase'[r] = phase[r] + 1 /\ tries'[r] = 0
          /\ phase[r] < Len(Pool[r])
      BY <1>0, <1>10 DEF CommitPhase, HasNextPhase, Ready, Flushed, Forget, Goto, TypeOK
    <2>2. h = Phases(r, phase[r]) /\ i = Phases(r, phase[r] + 1)
      <3>1. Cardinality({}) = 0 /\ 0 * PerObject = 0 /\ PerObject \in Nat
        BY FS_EmptySet, UnitsType
      <3>2. Phases(r, phase[r]) \in Nat /\ Phases(r, phase[r] + 1) \in Nat
        BY <1>0, <1>10, <2>1, PhasesType
      <3> QED BY <2>1, <3>1, <3>2 DEF Held
    <2>3. Phases(r, phase[r]) = Phases(r, phase[r] + 1) + PerPhase
      BY <1>0, <1>10, <2>1, PhasesType
    <2>4. l = 0
      BY <2>1
    <2>5. b = h + 2 /\ c = i + 3 + MaxAttempts /\ h = i + PerPhase
      <3> HIDE DEF b, c, OP, h, i, k, l
      <3> QED BY <1>2, <1>3, <1>4, <2>1, <2>2, <2>3, <2>4
    <2> HIDE DEF b, c, OP, h, i, k, l
    <2> QED BY <1>1, <1>3, <1>4, <2>5
  <1>11. CASE PostUnanswered(r)
    <2>1. stage[r] = "post" /\ UNCHANGED <<todo, plan, phase>> /\ tries'[r] = tries[r] + 1
      BY <1>0, <1>11 DEF PostUnanswered, TypeOK, sessionVars
    <2>2. \/ stage'[r] = "post"
          \/ stage'[r] = "work"
          \/ stage'[r] = "failing"
      BY <1>0, <1>11, <2>1 DEF PostUnanswered, PostRaises, Goto, TypeOK
    <2>3. i = h /\ l = k + 1
      BY <2>1
    <2>4. CASE stage'[r] \in {"post", "work"}
      <3> HIDE DEF b, c, OP, h, i, k, l
      <3> QED BY <1>1, <1>2, <1>3, <1>4, <2>1, <2>3, <2>4
    <2>5. CASE stage'[r] = "failing"
      BY <2>1, <2>5, EndLowers
    <2> QED BY <2>2, <2>4, <2>5
  <1>12. CASE PostRefused(r) \/ PostGarbled(r)
    <2>1. stage[r] = "post" /\ UNCHANGED <<todo, plan, phase, tries>>
          /\ stage'[r] \in {"work", "failing"}
      BY <1>0, <1>12 DEF PostRefused, PostGarbled, PostRaises, Goto, TypeOK, sessionVars
    <2> QED BY <1>8, <2>1, EndLowers
  <1> QED BY <1>6, <1>7, <1>9, <1>10, <1>11, <1>12

\* Work in the database: each flush writes a row, and what drops a session ends it.
LEMMA WorkLowers ==
    ASSUME Finite, ProgressInv, ProgressInv', NEW r \in Requests,
           \/ Flush(r)
           \/ LockFails(r) \/ UniqueFails(r) \/ AnswerFails(r) \/ Commit(r) \/ Rollback(r) \/ StoreFails(r) \/ Crash(r)
    PROVE  StepsLeft(r)' < StepsLeft(r)
  <1>0. /\ TypeOK /\ IsFiniteSet(plan[r])
        /\ todo[r] \in SUBSET Objects /\ tries[r] \in 0 .. MaxAttempts
        /\ r \in Creates => phase[r] \in DOMAIN Pool[r]
    BY DEF ProgressInv, SessionInv, IInv, TypeOK
  <1>1. CASE Flush(r)
    <2> DEFINE P == plan[r] \ NextWrites(r)
    <2>1. /\ stage[r] = "work" /\ stage' = stage /\ todo' = todo /\ phase' = phase /\ tries' = tries
          /\ plan'[r] = P /\ NextWrites(r) # {}
      BY <1>0, <1>1 DEF Flush, TypeOK
    <2>2. P \in SUBSET plan[r] /\ P # plan[r]
      BY <2>1 DEF NextWrites
    <2> HIDE DEF P
    <2>3. /\ IsFiniteSet(P) /\ Cardinality(P) \in Nat /\ Cardinality(plan[r]) \in Nat
          /\ Cardinality(P) < Cardinality(plan[r])
      BY <1>0, <2>2, FS_Subset, FS_CardinalityType
    <2> DEFINE t == Cardinality(todo[r]) * PerObject
               x == Phases(r, phase[r])
    <2>4. /\ StepsLeft(r) = t + Cardinality(plan[r]) + x + 2
          /\ StepsLeft(r)' = t + Cardinality(P) + x + 2
      BY <2>1, BoundIs DEF Bound, Held
    <2>5. t \in Nat /\ x \in Nat
      BY <1>0, HeldType
    <2> HIDE DEF t, x
    <2> QED BY <2>3, <2>4, <2>5
  <1>2. CASE LockFails(r)
    <2>1. stage[r] = "work" /\ stage'[r] = "failing"
      BY <1>0, <1>2 DEF LockFails, InDeadlock, WaitsFor, Goto, TypeOK
    <2> QED BY <2>1, EndLowers
  <1>3. CASE UniqueFails(r) \/ AnswerFails(r) \/ StoreFails(r)
    <2>1. stage[r] = "work" /\ stage'[r] = "failing"
      BY <1>0, <1>3 DEF UniqueFails, AnswerFails, StoreFails, Flushed, Goto, TypeOK
    <2> QED BY <2>1, EndLowers
  <1>4. CASE Commit(r) \/ Rollback(r) \/ Crash(r)
    <2>1. stage[r] \in {"fetch", "post", "work", "failing"} /\ stage'[r] = "done"
      BY <1>0, <1>4 DEF Commit, Rollback, Crash, Ready, Flushed, UnderWay, Goto, TypeOK
    <2> QED BY <2>1, EndLowers
  <1> QED BY <1>1, <1>2, <1>3, <1>4

LEMMA StepLowers ==
    ASSUME Finite, ProgressInv, ProgressInv', NEW r \in Requests,
           Begin(r) \/ Proceed(r) \/ Fails(r)
    PROVE  /\ StepsLeft(r) \in Nat /\ StepsLeft(r)' \in Nat /\ StepsLeft(r)' < StepsLeft(r)
           /\ \A q \in Requests \ {r} : StepsLeft(q)' = StepsLeft(q)
  <1>0. TypeOK
    BY DEF ProgressInv, SessionInv, IInv
  <1>1. StepsLeft(r)' < StepsLeft(r)
    <2>1. CASE r \in Syncs /\ (\/ BeginSync(r) \/ Fetch(r) \/ FetchFails(r)
                               \/ \E o \in Objects : Look(r, o))
      BY <2>1, SyncLowers
    <2>2. CASE r \notin Syncs /\
               \/ r \in Creates /\ (BeginCreate(r) \/ PostCreate(r) \/ CommitPhase(r))
               \/ r \in Updates /\ (BeginUpdate(r) \/ PostUpdate(r))
               \/ PostUnanswered(r) \/ PostGarbled(r) \/ PostRefused(r)
      BY <2>2, PostLowers
    <2>3. CASE \/ Flush(r)
               \/ LockFails(r) \/ UniqueFails(r) \/ AnswerFails(r) \/ Commit(r) \/ Rollback(r)
               \/ StoreFails(r) \/ Crash(r)
      BY <2>3, WorkLowers
    <2> QED BY <2>1, <2>2, <2>3, Kinds DEF Begin, Proceed, Work, Fails
  <1>2. StepsLeft(r) \in Nat
    <2>1. /\ todo[r] \in SUBSET Objects /\ IsFiniteSet(plan[r]) /\ tries[r] \in 0 .. MaxAttempts
          /\ r \in Creates => phase[r] \in DOMAIN Pool[r]
          /\ stage[r] \in {"idle", "fetch", "post", "work", "failing", "done"}
      BY <1>0 DEF ProgressInv, TypeOK
    <2> QED BY <2>1, BoundIs, BoundType
  <1>3. StepsLeft(r)' \in Nat
    <2>1. /\ todo'[r] \in SUBSET Objects /\ IsFiniteSet(plan'[r]) /\ tries'[r] \in 0 .. MaxAttempts
          /\ r \in Creates => phase'[r] \in DOMAIN Pool[r]
          /\ stage'[r] \in {"idle", "fetch", "post", "work", "failing", "done"}
      BY DEF ProgressInv, SessionInv, IInv, TypeOK
    <2>2. Bound(r, stage'[r], todo'[r], plan'[r], phase'[r], tries'[r]) \in Nat
      <3> DEFINE p == phase'[r]
      <3>1. r \in Creates => p \in DOMAIN Pool[r]
        BY <2>1
      <3> HIDE DEF p
      <3> QED BY <2>1, <3>1, BoundType DEF p
    <2> QED BY <2>2, BoundIs
  <1>4. ASSUME NEW q \in Requests \ {r} PROVE StepsLeft(q)' = StepsLeft(q)
    <2>1. SameSession(q)
      BY <1>0, SessionsApart
    <2>2. tries'[q] = tries[q]
      <3>1. tries' = tries \/ \E k : tries' = [tries EXCEPT ![r] = k]
        BY DEF Begin, BeginSync, BeginCreate, BeginUpdate, Proceed, Work, Flush, LockFails,
               UniqueFails, AnswerFails, Commit, Rollback, Fetch, Look, PostCreate, CommitPhase, PostUpdate,
               Fails, FetchFails, PostUnanswered, PostGarbled, PostRefused, StoreFails, Crash
      <3> QED BY <1>0, <3>1 DEF TypeOK
    <2>3. q \in Creates => phase'[q] = phase[q]
      <3>1. phase' = phase \/ \E k : phase' = [phase EXCEPT ![r] = k]
        BY DEF Begin, BeginSync, BeginCreate, BeginUpdate, Proceed, Work, Flush, LockFails,
               UniqueFails, AnswerFails, Commit, Rollback, Fetch, Look, PostCreate, CommitPhase, PostUpdate,
               Fails, FetchFails, PostUnanswered, PostGarbled, PostRefused, StoreFails, Crash
      <3> QED BY <1>0, <3>1 DEF TypeOK
    <2> QED BY <2>1, <2>2, <2>3 DEF SameSession, StepsLeft, Ahead
  <1> QED BY <1>1, <1>2, <1>3, <1>4

\* However its session meets others, a request has finitely many steps: fewer after
\* each of them, and as many after each step of another.  With OneMayGoOn, all that
\* have begun end.
THEOREM StepsAreBounded ==
    ASSUME IsFiniteSet(Objects), IsFiniteSet(Fields)
    PROVE  Spec => StepsRunOut
  <1>1. ProgressInv /\ ProgressInv' /\ [Next]_vars =>
          [\/ /\ \E o \in Objects : ChangeOutside(o)
              /\ \A q \in Requests : StepsLeft(q)' = StepsLeft(q)
           \/ \E r \in Requests :
                /\ StepsLeft(r) \in Nat /\ StepsLeft(r)' \in Nat /\ StepsLeft(r)' < StepsLeft(r)
                /\ \A q \in Requests \ {r} : StepsLeft(q)' = StepsLeft(q)]_vars
    <2> SUFFICES ASSUME ProgressInv, ProgressInv', NEW r \in Requests,
                        Begin(r) \/ Proceed(r) \/ Fails(r)
                 PROVE  /\ StepsLeft(r) \in Nat /\ StepsLeft(r)' \in Nat
                        /\ StepsLeft(r)' < StepsLeft(r)
                        /\ \A q \in Requests \ {r} : StepsLeft(q)' = StepsLeft(q)
      <3>1. ASSUME NEW o \in Objects, ChangeOutside(o), NEW q \in Requests
            PROVE  StepsLeft(q)' = StepsLeft(q)
        BY <3>1 DEF ChangeOutside, StepsLeft, Ahead, sessionVars
      <3> QED BY <3>1 DEF Next, Done
    <2> QED BY StepLowers DEF Finite
  <1> QED BY <1>1, ProgressInductive, PTL DEF Spec, StepsRunOut
=============================================================================
