-------------------------- MODULE MetaMirrorProofs --------------------------
(***************************************************************************)
(* Theorems about MetaMirror for every set of objects and requests, every  *)
(* page size, number of attempts and fault budget.                         *)
(***************************************************************************)
EXTENDS MetaMirror, TLAPS

-----------------------------------------------------------------------------
(* Operators                                                               *)

LEMMA TouchesType ==
    ASSUME NEW r \in Requests
    PROVE  Touches(r) \subseteq Objects
  <1>1. CASE r \in Syncs
    BY <1>1, MirrorConstants DEF Touches
  <1>2. CASE r \in Updates
    BY <1>2, MirrorConstants DEF Touches
  <1>3. CASE r \notin Syncs /\ r \notin Updates
    <2>1. r \in Creates
      BY <1>3 DEF Requests
    <2>2. Pool[r] \in Seq(SUBSET Objects)
      BY <2>1, MirrorConstants
    <2>3. \A p \in DOMAIN Pool[r] : Pool[r][p] \subseteq Objects
      BY <2>2
    <2> QED BY <1>3, <2>3 DEF Touches
  <1> QED BY <1>1, <1>2, <1>3

\* Requests are of one kind.
LEMMA Kinds ==
    ASSUME NEW r \in Requests
    PROVE  /\ r \in Syncs => r \notin Creates /\ r \notin Updates
           /\ r \in Creates => r \notin Syncs /\ r \notin Updates
           /\ r \in Updates => r \notin Syncs /\ r \notin Creates
  BY MirrorConstants

LEMMA FaultType ==
    ASSUME faults \in [FaultKinds -> Nat], NEW k, Fault(k)
    PROVE  faults' \in [FaultKinds -> Nat]
  <1>1. ASSUME NEW y \in FaultKinds PROVE faults'[y] \in Nat
    <2>1. CASE y = k
      <3>1. faults[y] + 1 \in Nat
        BY <2>1
      <3> QED BY <2>1, <3>1 DEF Fault
    <2>2. CASE y # k
      BY <2>2 DEF Fault
    <2> QED BY <2>1, <2>2
  <1> QED BY <1>1 DEF Fault

LEMMA ForgetType ==
    ASSUME TypeOK, NEW r \in Requests, Forget(r)
    PROVE  /\ got' \in [Requests -> [Objects -> Content \cup {Absent}]]
           /\ todo' \in [Requests -> SUBSET Objects]
           /\ plan' \in [Requests -> SUBSET Write] /\ wrote' \in [Requests -> SUBSET Write]
           /\ added' \in [Requests -> SUBSET Objects]
  <1>1. Nothing \in [Objects -> Content \cup {Absent}]
    BY DEF Nothing
  <1>2. got' \in [Requests -> [Objects -> Content \cup {Absent}]]
    BY <1>1 DEF TypeOK, Forget
  <1>3. plan' = [plan EXCEPT ![r] = {}] /\ wrote' = [wrote EXCEPT ![r] = {}]
    BY DEF Forget
  <1> QED BY <1>2, <1>3 DEF TypeOK, Forget

\* What a commit leaves of a row, and of the rows of an object.
LEMMA RowWrittenType ==
    ASSUME TypeOK, NEW r \in Requests, NEW o \in Objects, NEW k \in DOMAIN rows[o]
    PROVE  RowWritten(r, o, k) \in Content
  <1>1. rows[o] \in Seq(Content)
    BY DEF TypeOK
  <1>2. rows[o][k] \in Content
    BY <1>1
  <1>3. wrote[r] \subseteq Write
    BY DEF TypeOK
  <1>4. ASSUME NEW f \in Fields PROVE RowWritten(r, o, k)[f] \in Values
    <2> DEFINE P(w) == w.object = o /\ w.row = k /\ w.field = f
    <2>1. CASE \E w \in wrote[r] : P(w)
      <3>1. PICK w \in wrote[r] : w = CHOOSE v \in wrote[r] : P(v)
        BY <2>1
      <3>2. w.value \in Values
        BY <1>3 DEF Write
      <3> QED BY <2>1, <3>1, <3>2 DEF RowWritten
    <2>2. CASE ~ \E w \in wrote[r] : P(w)
      BY <1>2, <2>2 DEF RowWritten, Content
    <2> QED BY <2>1, <2>2
  <1> QED BY <1>4 DEF RowWritten, Content

\* A commit adds one row for each object that was to be added, and none else.
LEMMA SavedRows ==
    ASSUME TypeOK, NEW r \in Requests,
           \A o \in added[r] : got[r][o] # Absent
    PROVE  /\ Saved(r) \in [Objects -> Seq(Content)]
           /\ \A o \in Objects :
                Len(Saved(r)[o]) = IF o \in added[r] THEN Len(rows[o]) + 1 ELSE Len(rows[o])
  <1> SUFFICES ASSUME NEW o \in Objects
               PROVE /\ Saved(r)[o] \in Seq(Content)
                     /\ Len(Saved(r)[o]) = IF o \in added[r] THEN Len(rows[o]) + 1
                                                             ELSE Len(rows[o])
    BY DEF Saved
  <1> DEFINE old == [k \in DOMAIN rows[o] |-> RowWritten(r, o, k)]
  <1>1. rows[o] \in Seq(Content)
    BY DEF TypeOK
  <1>2. Len(rows[o]) \in Nat /\ DOMAIN rows[o] = 1..Len(rows[o])
    BY <1>1
  <1>3. \A k \in DOMAIN rows[o] : RowWritten(r, o, k) \in Content
    BY RowWrittenType
  <1>4. old \in [1..Len(rows[o]) -> Content]
    BY <1>2, <1>3
  <1> HIDE DEF old
  <1>5. old \in Seq(Content) /\ Len(old) = Len(rows[o])
    BY <1>2, <1>4
  <1>6. CASE o \in added[r]
    <2>1. got[r][o] \in Content
      BY <1>6 DEF TypeOK
    <2>2. Saved(r)[o] = Append(old, got[r][o])
      BY <1>6 DEF Saved, old
    <2>3. Append(old, got[r][o]) \in Seq(Content)
          /\ Len(Append(old, got[r][o])) = Len(old) + 1
      BY <1>5, <2>1
    <2> QED BY <1>5, <1>6, <2>2, <2>3
  <1>7. CASE o \notin added[r]
    <2>1. Saved(r)[o] = old
      BY <1>7 DEF Saved, old
    <2> QED BY <1>5, <1>7, <2>1
  <1> QED BY <1>6, <1>7

-----------------------------------------------------------------------------
(* Types                                                                   *)

LEMMA TypeInit == Init => TypeOK
  <1> SUFFICES ASSUME Init PROVE TypeOK
    OBVIOUS
  <1>1. Nothing \in [Objects -> Content \cup {Absent}]
    BY DEF Nothing
  <1>2. rows \in [Objects -> Seq(Content)]
    <2>1. <<>> \in Seq(Content) /\ <<Content0>> \in Seq(Content)
      BY MirrorConstants
    <2> QED BY <2>1 DEF Init
  <1>3. \A c \in Creates : 1 \in DOMAIN Pool[c]
    <2>1. \A c \in Creates : Pool[c] \in Seq(SUBSET Objects) /\ Pool[c] # <<>>
      BY MirrorConstants
    <2> QED BY <2>1
  <1>4. meta \in [Objects -> Content \cup {Absent}]
    BY MirrorConstants DEF Init
  <1> QED BY <1>1, <1>2, <1>3, <1>4, MirrorConstants DEF Init, TypeOK

\* A step of a session that drops it: rows, meta and the history stay typed.
LEMMA DroppedType ==
    ASSUME TypeOK, NEW r \in Requests, Forget(r),
           NEW s \in {"failing", "done"}, Goto(r, s),
           UNCHANGED <<meta, phase, tries, made, met>>,
           rows' \in [Objects -> Seq(Content)],
           answer' \in [Requests -> {"none", "ok", "error"}],
           faults' \in [FaultKinds -> Nat]
    PROVE  TypeOK'
  BY ForgetType DEF TypeOK, Goto

LEMMA MeetType ==
    ASSUME NEW r \in Requests, Meet(r), met \subseteq SUBSET Requests
    PROVE  met' \subseteq SUBSET Requests
  <1>1. {{r, q} : q \in {q \in Requests : q # r /\ UnderWay(q) /\ Touches(q) \cap Touches(r) # {}}}
            \subseteq SUBSET Requests
    OBVIOUS
  <1> QED BY <1>1 DEF Meet

LEMMA TypeOfSyncs ==
    ASSUME IInv, NEW s \in Syncs,
           \/ BeginSync(s) \/ Fetch(s) \/ FetchFails(s)
           \/ \E o \in Objects : Look(s, o)
    PROVE  TypeOK'
  <1> USE DEF IInv
  <1>0. s \in Requests
    BY DEF Requests
  <1>1. CASE BeginSync(s)
    <2>1. met' \subseteq SUBSET Requests
      BY <1>0, <1>1, MeetType DEF BeginSync, TypeOK
    <2> QED BY <1>0, <1>1, <2>1 DEF BeginSync, TypeOK, Goto, sessionVars
  <1>2. CASE Fetch(s)
    <2>1. PICK L \in Listed(s) :
            /\ got' = [got EXCEPT ![s] = [o \in Objects |-> IF o \in L THEN meta[o] ELSE Absent]]
            /\ todo' = [todo EXCEPT ![s] = L]
      BY <1>2 DEF Fetch
    <2>2. L \subseteq Objects
      BY <2>1, MirrorConstants DEF Listed
    <2>3. [o \in Objects |-> IF o \in L THEN meta[o] ELSE Absent]
              \in [Objects -> Content \cup {Absent}]
      BY DEF TypeOK
    <2> QED BY <1>0, <1>2, <2>1, <2>2, <2>3 DEF Fetch, TypeOK, Goto
  <1>3. CASE FetchFails(s)
    <2>1. faults' \in [FaultKinds -> Nat]
      BY <1>3, FaultType DEF FetchFails, TypeOK
    <2> QED BY <1>0, <1>3, <2>1 DEF FetchFails, TypeOK, Goto, sessionVars
  <1>4. CASE \E o \in Objects : Look(s, o)
    <2>1. PICK o \in Objects : Look(s, o)
      BY <1>4
    <2>2. got[s][o] \in Content
      BY <1>0, <2>1 DEF Look, Sessions, TypeOK
    <2>3. Differing(o, 1, Told(s, o), got[s][o]) \subseteq Write
      BY <2>2, MirrorConstants DEF Differing, Told, Write, Content
    <2>4. plan' = plan \/ plan' = [plan EXCEPT ![s] = @ \cup Differing(o, 1, Told(s, o), got[s][o])]
      BY <2>1 DEF Look
    <2>5. added' = added \/ added' = [added EXCEPT ![s] = @ \cup {o}]
      BY <2>1 DEF Look
    <2>6. stage' = stage \/ stage' = [stage EXCEPT ![s] = "failing"]
      BY <2>1 DEF Look, Goto
    <2>7. plan' \in [Requests -> SUBSET Write]
      <3>1. plan \in [Requests -> SUBSET Write]
        BY DEF TypeOK
      <3>2. plan[s] \cup Differing(o, 1, Told(s, o), got[s][o]) \in SUBSET Write
        BY <1>0, <2>3, <3>1
      <3> QED BY <1>0, <2>4, <3>1, <3>2
    <2>8. todo' \in [Requests -> SUBSET Objects] /\ added' \in [Requests -> SUBSET Objects]
      <3>1. todo' = [todo EXCEPT ![s] = @ \ {o}]
        BY <2>1 DEF Look
      <3>2. todo \in [Requests -> SUBSET Objects] /\ added \in [Requests -> SUBSET Objects]
        BY DEF TypeOK
      <3> QED BY <1>0, <2>5, <3>1, <3>2
    <2> QED BY <1>0, <2>1, <2>6, <2>7, <2>8 DEF Look, TypeOK
  <1> QED BY <1>1, <1>2, <1>3, <1>4

\* What an update means to change in the row it has loaded.
LEMMA ChangeType ==
    ASSUME NEW u \in Updates, NEW k \in DOMAIN rows[Target[u]], TypeOK
    PROVE  Differing(Target[u], k, {Change[u][1]},
                     [f \in {Change[u][1]} |-> Change[u][2]]) \subseteq Write
  <1>1. Target[u] \in Objects /\ Change[u] \in Fields \X Values
    BY MirrorConstants
  <1>2. rows[Target[u]] \in Seq(Content)
    BY <1>1 DEF TypeOK
  <1>3. k \in Nat \ {0}
    BY <1>2
  <1> QED BY <1>1, <1>3 DEF Differing, Write

LEMMA FreshType == \A o \in Objects : Fresh(o) \in Content
  BY MirrorConstants DEF Fresh, Content

\* What a post may do at Meta keeps its objects and the history typed.
LEMMA MetaType ==
    ASSUME IInv, NEW r \in Requests, stage[r] = "post",
           \/ UNCHANGED <<meta, made>>
           \/ r \in Updates /\ UpdatesAtMeta(r)
           \/ r \in Creates /\ \E o \in Objects : CreatesAtMeta(r, o)
    PROVE  /\ meta' \in [Objects -> Content \cup {Absent}]
           /\ made' \in [Creates -> SUBSET Objects]
           /\ \A o \in Objects : meta[o] # Absent => meta'[o] # Absent
           /\ \A o \in Objects : meta[o] = Absent /\ meta'[o] # Absent =>
                 \/ r \in Creates /\ meta'[o] = Content0
  <1>0. TypeOK /\ Known
    BY DEF IInv
  <1>1. CASE UNCHANGED <<meta, made>>
    BY <1>0, <1>1 DEF TypeOK
  <1>2. CASE r \in Updates /\ UpdatesAtMeta(r)
    <2>1. Target[r] \in Objects /\ Change[r][1] \in Fields /\ Change[r][2] \in Values
      BY <1>2, MirrorConstants
    <2>2. meta[Target[r]] # Absent
      BY <1>0, <1>2 DEF Known, UnderWay
    <2>3. meta[Target[r]] \in Content
      BY <1>0, <2>1, <2>2 DEF TypeOK
    <2>4. PICK c \in Content : meta' = [meta EXCEPT ![Target[r]] = c]
      BY <1>2 DEF UpdatesAtMeta
    <2>5. UNCHANGED made
      BY <1>2 DEF UpdatesAtMeta
    <2> QED BY <1>0, <2>1, <2>2, <2>4, <2>5, MirrorConstants DEF TypeOK
  <1>3. CASE r \in Creates /\ \E o \in Objects : CreatesAtMeta(r, o)
    <2>1. PICK o \in Objects : CreatesAtMeta(r, o)
      BY <1>3
    <2>2. made' = [made EXCEPT ![r] = @ \cup {o}] /\ meta' = [meta EXCEPT ![o] = Content0]
      BY <2>1 DEF CreatesAtMeta
    <2> QED BY <1>0, <1>3, <2>2, MirrorConstants DEF TypeOK
  <1> QED BY <1>1, <1>2, <1>3

LEMMA TypeOfPosts ==
    ASSUME IInv, NEW r \in Requests,
           \/ r \in Creates /\ (BeginCreate(r) \/ PostCreate(r))
           \/ r \in Updates /\ (BeginUpdate(r) \/ PostUpdate(r))
           \/ PostUnanswered(r) \/ PostGarbled(r) \/ PostRefused(r)
    PROVE  TypeOK'
  <1>0. TypeOK /\ Sessions
    BY DEF IInv
  <1>m. ASSUME Meet(r) PROVE met' \subseteq SUBSET Requests
    BY <1>0, <1>m, MeetType DEF TypeOK
  <1>g. ASSUME NEW s \in {"idle", "fetch", "post", "work", "failing", "done"}, Goto(r, s)
        PROVE  stage' \in [Requests -> {"idle", "fetch", "post", "work", "failing", "done"}]
    BY <1>0, <1>g DEF Goto, TypeOK
  <1>1. CASE r \in Creates /\ BeginCreate(r)
    <2>1. Meet(r) /\ Goto(r, "post")
      BY <1>1 DEF BeginCreate
    <2> QED BY <1>0, <1>1, <1>m, <1>g, <2>1 DEF BeginCreate, TypeOK, sessionVars
  <1>2. CASE r \in Updates /\ BeginUpdate(r)
    <2>1. Meet(r) /\ Goto(r, "post")
      BY <1>2 DEF BeginUpdate
    <2>2. PICK k \in DOMAIN rows[Target[r]] :
            plan' = [plan EXCEPT ![r] = Differing(Target[r], k, {Change[r][1]},
                                        [f \in {Change[r][1]} |-> Change[r][2]])]
      BY <1>2 DEF BeginUpdate
    <2>3. plan' \in [Requests -> SUBSET Write]
      BY <1>0, <1>2, <2>2, ChangeType DEF TypeOK
    <2> QED BY <1>0, <1>2, <1>m, <1>g, <2>1, <2>3 DEF BeginUpdate, TypeOK
  <1>3. CASE r \in Creates /\ PostCreate(r)
    <2>1. stage[r] = "post" /\ Goto(r, "work")
      BY <1>3 DEF PostCreate
    <2>2. PICK o \in Objects :
            /\ CreatesAtMeta(r, o)
            /\ got' = [got EXCEPT ![r][o] = Fresh(o)]
            /\ added' = [added EXCEPT ![r] = @ \cup {o}]
      BY <1>3 DEF PostCreate
    <2>3. meta' \in [Objects -> Content \cup {Absent}] /\ made' \in [Creates -> SUBSET Objects]
      BY <1>3, <2>1, <2>2, MetaType
    <2>4. got[r] \in [Objects -> Content \cup {Absent}]
      BY <1>0 DEF TypeOK
    <2>5. [got[r] EXCEPT ![o] = Fresh(o)] \in [Objects -> Content \cup {Absent}]
      BY <2>4, FreshType
    <2>6. got' = [got EXCEPT ![r] = [got[r] EXCEPT ![o] = Fresh(o)]]
      BY <2>2
    <2>7. got' \in [Requests -> [Objects -> Content \cup {Absent}]]
      BY <1>0, <2>5, <2>6 DEF TypeOK
    <2>8. added' \in [Requests -> SUBSET Objects]
      BY <1>0, <2>2 DEF TypeOK
    <2> QED BY <1>0, <1>3, <1>g, <2>1, <2>3, <2>7, <2>8 DEF PostCreate, TypeOK
  <1>4. CASE r \in Updates /\ PostUpdate(r)
    <2>1. stage[r] = "post" /\ Goto(r, "work")
      BY <1>4 DEF PostUpdate
    <2>2. meta' \in [Objects -> Content \cup {Absent}] /\ made' \in [Creates -> SUBSET Objects]
      BY <1>4, <2>1, MetaType DEF PostUpdate
    <2> QED BY <1>0, <1>4, <1>g, <2>1, <2>2 DEF PostUpdate, TypeOK, sessionVars
  <1>5. CASE PostUnanswered(r)
    <2>1. meta' \in [Objects -> Content \cup {Absent}] /\ made' \in [Creates -> SUBSET Objects]
      BY <1>5, MetaType DEF PostUnanswered, MayHaveActed
    <2>2. tries' \in [Requests -> 0..MaxAttempts]
      <3>1. tries[r] \in 0..MaxAttempts /\ tries[r] < MaxAttempts
        BY <1>0, <1>5 DEF PostUnanswered, Sessions, TypeOK
      <3>2. tries[r] + 1 \in 0..MaxAttempts
        BY <3>1, MirrorConstants
      <3> QED BY <1>0, <1>5, <3>2 DEF PostUnanswered, TypeOK
    <2>3. stage' \in [Requests -> {"idle", "fetch", "post", "work", "failing", "done"}]
      <3>1. Goto(r, "work") \/ Goto(r, "failing") \/ UNCHANGED stage
        BY <1>5 DEF PostUnanswered, PostRaises
      <3> QED BY <1>0, <1>g, <3>1 DEF TypeOK
    <2>4. faults' \in [FaultKinds -> Nat]
      BY <1>0, <1>5, FaultType DEF PostUnanswered, TypeOK
    <2> QED BY <1>0, <1>5, <2>1, <2>2, <2>3, <2>4 DEF PostUnanswered, TypeOK, sessionVars
  <1>6. CASE PostRefused(r)
    <2>1. stage' \in [Requests -> {"idle", "fetch", "post", "work", "failing", "done"}]
      <3>1. Goto(r, "work") \/ Goto(r, "failing")
        BY <1>6 DEF PostRefused, PostRaises
      <3> QED BY <1>g, <3>1
    <2>2. faults' \in [FaultKinds -> Nat]
      BY <1>0, <1>6, FaultType DEF PostRefused, TypeOK
    <2> QED BY <1>0, <1>6, <2>1, <2>2 DEF PostRefused, TypeOK, sessionVars
  <1>7. CASE PostGarbled(r)
    <2>1. meta' \in [Objects -> Content \cup {Absent}] /\ made' \in [Creates -> SUBSET Objects]
      BY <1>7, MetaType DEF PostGarbled, MayHaveActed
    <2>2. stage' \in [Requests -> {"idle", "fetch", "post", "work", "failing", "done"}]
      <3>1. Goto(r, "work") \/ Goto(r, "failing")
        BY <1>7 DEF PostGarbled, PostRaises
      <3> QED BY <1>g, <3>1
    <2>3. faults' \in [FaultKinds -> Nat]
      BY <1>0, <1>7, FaultType DEF PostGarbled, TypeOK
    <2> QED BY <1>0, <1>7, <2>1, <2>2, <2>3 DEF PostGarbled, TypeOK, sessionVars
  <1> QED BY <1>1, <1>2, <1>3, <1>4, <1>5, <1>6, <1>7

LEMMA TypeOfEnds ==
    ASSUME IInv, NEW r \in Requests,
           \/ Work(r) \/ StoreFails(r) \/ Crash(r)
           \/ r \in Creates /\ CommitPhase(r)
    PROVE  TypeOK'
  <1>0. TypeOK /\ Sessions
    BY DEF IInv
  <1>1. Saved(r) \in [Objects -> Seq(Content)]
    BY <1>0, SavedRows DEF Sessions
  <1>2. CASE Flush(r)
    <2>1. wrote' = [wrote EXCEPT ![r] = @ \cup NextWrites(r)]
          /\ plan' = [plan EXCEPT ![r] = @ \ NextWrites(r)]
      BY <1>2 DEF Flush
    <2>2. NextWrites(r) \subseteq plan[r]
      BY DEF NextWrites
    <2>3. plan[r] \in SUBSET Write /\ wrote[r] \in SUBSET Write
      BY <1>0 DEF TypeOK
    <2>4. wrote[r] \cup NextWrites(r) \in SUBSET Write /\ plan[r] \ NextWrites(r) \in SUBSET Write
      BY <2>2, <2>3
    <2>5. wrote' \in [Requests -> SUBSET Write] /\ plan' \in [Requests -> SUBSET Write]
      BY <1>0, <2>1, <2>4 DEF TypeOK
    <2> QED BY <1>0, <1>2, <2>5 DEF Flush, TypeOK
  <1>3. CASE LockFails(r)
    BY <1>0, <1>3, DroppedType DEF LockFails, TypeOK
  <1>4. CASE UniqueFails(r) \/ AnswerFails(r)
    BY <1>0, <1>4, DroppedType DEF UniqueFails, AnswerFails, TypeOK
  <1>5. CASE Commit(r)
    <2>1. rows' \in [Objects -> Seq(Content)]
      BY <1>1, <1>5 DEF Commit
    <2>2. answer' \in [Requests -> {"none", "ok", "error"}]
      BY <1>0, <1>5 DEF Commit, TypeOK
    <2> QED BY <1>0, <1>5, <2>1, <2>2, DroppedType DEF Commit, TypeOK
  <1>6. CASE Rollback(r)
    <2>1. answer' \in [Requests -> {"none", "ok", "error"}]
      BY <1>0, <1>6 DEF Rollback, TypeOK
    <2> QED BY <1>0, <1>6, <2>1, DroppedType DEF Rollback, TypeOK
  <1>7. CASE StoreFails(r)
    <2>1. rows' \in [Objects -> Seq(Content)]
      BY <1>0, <1>1, <1>7 DEF StoreFails, TypeOK
    <2>2. faults' \in [FaultKinds -> Nat]
      BY <1>0, <1>7, FaultType DEF StoreFails, TypeOK
    <2> QED BY <1>0, <1>7, <2>1, <2>2, DroppedType DEF StoreFails, TypeOK
  <1>8. CASE Crash(r)
    <2>1. faults' \in [FaultKinds -> Nat]
      BY <1>0, <1>8, FaultType DEF Crash, TypeOK
    <2> QED BY <1>0, <1>8, <2>1, DroppedType DEF Crash, TypeOK
  <1>9. CASE r \in Creates /\ CommitPhase(r)
    <2>1. rows' \in [Objects -> Seq(Content)] /\ Forget(r)
      BY <1>1, <1>9 DEF CommitPhase
    <2>2. Pool[r] \in Seq(SUBSET Objects) /\ phase[r] \in DOMAIN Pool[r] /\ phase[r] < Len(Pool[r])
      BY <1>0, <1>9, MirrorConstants DEF CommitPhase, HasNextPhase, TypeOK
    <2>3. phase[r] + 1 \in DOMAIN Pool[r] /\ phase[r] + 1 \in Nat \ {0}
      BY <2>2
    <2>4. /\ phase' \in [Creates -> Nat \ {0}]
          /\ \A c \in Creates : phase'[c] \in DOMAIN Pool[c]
      BY <1>0, <1>9, <2>3 DEF CommitPhase, TypeOK
    <2>5. tries' \in [Requests -> 0..MaxAttempts]
      BY <1>0, <1>9, MirrorConstants DEF CommitPhase, TypeOK
    <2> QED BY <1>0, <1>9, <2>1, <2>4, <2>5, ForgetType DEF CommitPhase, TypeOK, Goto
  <1> QED BY <1>2, <1>3, <1>4, <1>5, <1>6, <1>7, <1>8, <1>9 DEF Work

\* Every step keeps the types.
LEMMA TypeNext == IInv /\ [Next]_vars => TypeOK'
  <1> SUFFICES ASSUME IInv, [Next]_vars PROVE TypeOK'
    OBVIOUS
  <1>0. TypeOK
    BY DEF IInv
  <1>1. ASSUME NEW r \in Requests, Begin(r) \/ Proceed(r) \/ Fails(r) PROVE TypeOK'
    <2>1. CASE r \in Syncs /\ (BeginSync(r) \/ Fetch(r) \/ FetchFails(r)
                                   \/ \E o \in Objects : Look(r, o))
      BY <2>1, TypeOfSyncs
    <2>2. CASE \/ r \in Creates /\ (BeginCreate(r) \/ PostCreate(r))
               \/ r \in Updates /\ (BeginUpdate(r) \/ PostUpdate(r))
               \/ PostUnanswered(r) \/ PostGarbled(r) \/ PostRefused(r)
      BY <2>2, TypeOfPosts
    <2>3. CASE \/ Work(r) \/ StoreFails(r) \/ Crash(r)
               \/ r \in Creates /\ CommitPhase(r)
      BY <2>3, TypeOfEnds
    <2> QED BY <1>1, <2>1, <2>2, <2>3 DEF Begin, Proceed, Fails
  <1>2. ASSUME NEW o \in Objects, ChangeOutside(o) PROVE TypeOK'
    <2>1. PICK f \in Fields, v \in Values : meta' = [meta EXCEPT ![o][f] = v]
      BY <1>2 DEF ChangeOutside
    <2>2. meta[o] \in Content
      BY <1>0, <1>2 DEF ChangeOutside, TypeOK
    <2>3. [meta[o] EXCEPT ![f] = v] \in Content
      BY <2>2 DEF Content
    <2>4. meta' = [meta EXCEPT ![o] = [meta[o] EXCEPT ![f] = v]]
      BY <2>1
    <2>5. meta' \in [Objects -> Content \cup {Absent}]
      BY <1>0, <2>3, <2>4 DEF TypeOK
    <2>6. faults' \in [FaultKinds -> Nat]
      BY <1>0, <1>2, FaultType DEF ChangeOutside, TypeOK
    <2> QED BY <1>0, <1>2, <2>5, <2>6 DEF ChangeOutside, TypeOK, sessionVars
  <1>3. CASE UNCHANGED vars
    BY <1>0, <1>3 DEF TypeOK, vars, sessionVars
  <1> QED BY <1>1, <1>2, <1>3 DEF Next, Done

-----------------------------------------------------------------------------
(* The shapes of a step.  Every step of Next begins a request, lets one go *)
(* on, drops its session, or changes nothing but Meta.                     *)

Kept(r) ==
    \A q \in Requests \ {r} :
        /\ stage'[q] = stage[q] /\ got'[q] = got[q] /\ todo'[q] = todo[q]
        /\ added'[q] = added[q] /\ tries'[q] = tries[q]

MetaGrows == \A o \in Objects : meta[o] # Absent => meta'[o] # Absent

Begins(r) ==
    /\ stage[r] = "idle"
    /\ stage'[r] \in {"fetch", "post"}
    /\ r \in Updates => rows[Target[r]] # <<>>
    /\ Meet(r)
    /\ Kept(r)
    /\ UNCHANGED <<meta, rows, got, todo, added, tries>>

GoesOn(r) ==
    /\ UnderWay(r) /\ stage'[r] \notin {"idle", "done"}
    /\ Kept(r)
    /\ \A o \in todo'[r] \cup added'[r] : o \in Touches(r) /\ got'[r][o] # Absent
    /\ \A o \in Objects : got'[r][o] # Absent => got[r][o] # Absent \/ meta'[o] # Absent
    /\ \A o \in added'[r] : o \in added[r] \/ rows[o] = <<>>
    /\ added'[r] # {} => stage'[r] \in {"work", "failing"} /\ r \notin Updates
    /\ stage'[r] = "post" => tries'[r] < MaxAttempts
    /\ MetaGrows
    /\ UNCHANGED <<rows, met>>

Drops(r) ==
    /\ UnderWay(r) /\ stage'[r] # "idle"
    /\ Kept(r)
    /\ got'[r] = Nothing /\ todo'[r] = {} /\ added'[r] = {}
    /\ stage'[r] = "post" => tries'[r] = 0
    /\ rows' = rows \/ rows' = Saved(r)
    /\ UNCHANGED <<meta, met>>

Outside == MetaGrows /\ UNCHANGED <<rows, stage, got, todo, added, tries, met>>

LEMMA BeginsShape ==
    ASSUME IInv, NEW r \in Requests, Begin(r)
    PROVE  Begins(r)
  <1>0. TypeOK
    BY DEF IInv
  <1>1. CASE r \in Syncs /\ BeginSync(r)
    BY <1>0, <1>1, Kinds DEF BeginSync, Begins, Kept, Goto, TypeOK, sessionVars
  <1>2. CASE r \in Creates /\ BeginCreate(r)
    BY <1>0, <1>2, Kinds DEF BeginCreate, Begins, Kept, Goto, TypeOK, sessionVars
  <1>3. CASE r \in Updates /\ BeginUpdate(r)
    <2>1. rows[Target[r]] # <<>>
      BY <1>3 DEF BeginUpdate
    <2> QED BY <1>0, <1>3, <2>1 DEF BeginUpdate, Begins, Kept, Goto, TypeOK
  <1> QED BY <1>1, <1>2, <1>3 DEF Begin

LEMMA DropsShape ==
    ASSUME IInv, NEW r \in Requests,
           \/ LockFails(r) \/ UniqueFails(r) \/ AnswerFails(r) \/ Commit(r) \/ Rollback(r)
           \/ StoreFails(r) \/ Crash(r) \/ CommitPhase(r)
    PROVE  Drops(r)
  <1>0. TypeOK
    BY DEF IInv
  <1>1. /\ Forget(r)
        /\ UnderWay(r)
        /\ UNCHANGED <<meta, met>>
        /\ rows' = rows \/ rows' = Saved(r)
        /\ \/ Goto(r, "failing") /\ UNCHANGED tries
           \/ Goto(r, "done") /\ UNCHANGED tries
           \/ Goto(r, "post") /\ tries' = [tries EXCEPT ![r] = 0]
    BY DEF LockFails, InDeadlock, UniqueFails, AnswerFails, Commit, Rollback, StoreFails, Crash, CommitPhase,
           UnderWay, WaitsFor, Ready, Flushed
  <1>2. /\ got' = [got EXCEPT ![r] = Nothing]
        /\ todo' = [todo EXCEPT ![r] = {}]
        /\ added' = [added EXCEPT ![r] = {}]
    BY <1>1 DEF Forget
  <1>3. stage'[r] # "idle" /\ (stage'[r] = "post" => tries'[r] = 0)
        /\ \A q \in Requests \ {r} : stage'[q] = stage[q] /\ tries'[q] = tries[q]
    BY <1>0, <1>1 DEF Goto, TypeOK
  <1> QED BY <1>0, <1>1, <1>2, <1>3 DEF Drops, Kept, TypeOK

LEMMA GoesOnShape ==
    ASSUME IInv, NEW r \in Requests,
           \/ r \in Syncs /\ (Fetch(r) \/ FetchFails(r) \/ \E o \in Objects : Look(r, o))
           \/ r \in Creates /\ PostCreate(r)
           \/ r \in Updates /\ PostUpdate(r)
           \/ PostUnanswered(r) \/ PostGarbled(r) \/ PostRefused(r) \/ Flush(r)
    PROVE  GoesOn(r)
  <1>0. TypeOK /\ Known /\ Sessions
    BY DEF IInv
  <1>t. \A o \in todo[r] \cup added[r] : o \in Touches(r) /\ got[r][o] # Absent
    BY <1>0 DEF Sessions
  <1>a. added[r] # {} => stage[r] \in {"work", "failing"} /\ r \notin Updates
    BY <1>0 DEF Sessions
  <1>1. CASE r \in Syncs /\ Fetch(r)
    <2>1. PICK L \in Listed(r) :
            /\ got' = [got EXCEPT ![r] = [o \in Objects |-> IF o \in L THEN meta[o] ELSE Absent]]
            /\ todo' = [todo EXCEPT ![r] = L]
      BY <1>1 DEF Fetch
    <2>2. L \subseteq Objects /\ L \subseteq Touches(r) /\ \A o \in L : meta[o] # Absent
      BY <1>1, <2>1, MirrorConstants DEF Listed, Touches
    <2>3. stage[r] = "fetch" /\ stage' = [stage EXCEPT ![r] = "work"]
          /\ UNCHANGED <<meta, rows, added, tries, met>>
      BY <1>1 DEF Fetch, Goto
    <2>4. got'[r] = [o \in Objects |-> IF o \in L THEN meta[o] ELSE Absent] /\ todo'[r] = L
      BY <1>0, <2>1 DEF TypeOK
    <2>5. Kept(r)
      BY <1>0, <2>1, <2>3 DEF Kept, TypeOK
    <2>6. stage'[r] = "work" /\ UnderWay(r)
      BY <1>0, <2>3 DEF UnderWay, TypeOK
    <2>7. added[r] = {}
      BY <1>0, <1>1, <2>3 DEF Sessions
    <2> QED BY <1>0, <1>1, <2>2, <2>3, <2>4, <2>5, <2>6, <2>7 DEF GoesOn, MetaGrows
  <1>2. CASE r \in Syncs /\ FetchFails(r)
    <2>1. stage[r] = "fetch" /\ stage' = [stage EXCEPT ![r] = "failing"]
          /\ UNCHANGED <<meta, rows, got, todo, added, tries, met>>
      BY <1>2 DEF FetchFails, Goto, sessionVars
    <2> QED BY <1>0, <1>t, <1>a, <2>1 DEF GoesOn, MetaGrows, Kept, UnderWay, TypeOK
  <1>3. CASE r \in Syncs /\ \E o \in Objects : Look(r, o)
    <2>1. PICK o \in Objects : Look(r, o)
      BY <1>3
    <2>2. stage[r] = "work" /\ o \in todo[r] /\ todo' = [todo EXCEPT ![r] = @ \ {o}]
          /\ UNCHANGED <<meta, rows, got, tries, met>>
      BY <2>1 DEF Look
    <2>3. \/ rows[o] = <<>> /\ added' = [added EXCEPT ![r] = @ \cup {o}]
          \/ added' = added
      BY <2>1 DEF Look
    <2>4. stage' = stage \/ stage' = [stage EXCEPT ![r] = "failing"]
      BY <2>1 DEF Look, Goto
    <2>5. Kept(r)
      BY <1>0, <2>2, <2>3, <2>4 DEF Kept, TypeOK
    <2>6. stage'[r] \in {"work", "failing"} /\ UnderWay(r)
      BY <1>0, <2>2, <2>4 DEF UnderWay, TypeOK
    <2>7. todo'[r] \subseteq todo[r]
      BY <1>0, <2>2 DEF TypeOK
    <2>8. added'[r] \subseteq added[r] \cup {o} /\ (o \in added'[r] => o \in added[r] \/ rows[o] = <<>>)
      BY <1>0, <2>3 DEF TypeOK
    <2>9. r \notin Updates
      BY <1>3, Kinds
    <2> QED BY <1>t, <2>2, <2>5, <2>6, <2>7, <2>8, <2>9 DEF GoesOn, MetaGrows
  <1>4. CASE r \in Creates /\ PostCreate(r)
    <2>1. stage[r] = "post" /\ stage' = [stage EXCEPT ![r] = "work"]
          /\ UNCHANGED <<rows, todo, tries, met>>
      BY <1>4 DEF PostCreate, Goto
    <2>2. PICK o \in Objects :
            /\ CreatesAtMeta(r, o)
            /\ got' = [got EXCEPT ![r][o] = Fresh(o)]
            /\ added' = [added EXCEPT ![r] = @ \cup {o}]
      BY <1>4 DEF PostCreate
    <2>3. MetaGrows
      BY <1>4, <2>1, <2>2, MetaType DEF MetaGrows
    <2>4. meta[o] = Absent /\ meta' = [meta EXCEPT ![o] = Content0] /\ o \in Pool[r][phase[r]]
      BY <2>2 DEF CreatesAtMeta
    <2>5. Content0 # Absent
      BY MirrorConstants
    <2>6. meta'[o] # Absent
      BY <1>0, <2>4, <2>5 DEF TypeOK
    <2>7. rows[o] = <<>>
      BY <1>0, <2>4 DEF Known
    <2>8. phase[r] \in DOMAIN Pool[r] /\ r \notin Syncs /\ r \notin Updates
      BY <1>0, <1>4, Kinds DEF TypeOK
    <2>9. o \in Touches(r)
      BY <2>4, <2>8 DEF Touches
    <2>10. got[r] \in [Objects -> Content \cup {Absent}]
      BY <1>0 DEF TypeOK
    <2>11. got'[r] = [got[r] EXCEPT ![o] = Fresh(o)]
      BY <1>0, <2>2 DEF TypeOK
    <2>12. got'[r][o] # Absent /\ \A p \in Objects \ {o} : got'[r][p] = got[r][p]
      BY <2>10, <2>11, FreshType, MirrorConstants
    <2>13. todo'[r] = todo[r] /\ added'[r] = added[r] \cup {o}
      BY <1>0, <2>1, <2>2 DEF TypeOK
    <2>14. Kept(r)
      BY <1>0, <2>1, <2>2 DEF Kept, TypeOK
    <2>15. stage'[r] = "work" /\ UnderWay(r)
      BY <1>0, <2>1 DEF UnderWay, TypeOK
    <2>16. todo[r] \cup added[r] \subseteq Objects
      BY <1>0 DEF TypeOK
    <2>17. \A p \in todo'[r] \cup added'[r] : p \in Touches(r) /\ got'[r][p] # Absent
      BY <1>t, <2>9, <2>12, <2>13, <2>16
    <2>18. \A p \in Objects : got'[r][p] # Absent => got[r][p] # Absent \/ meta'[p] # Absent
      BY <2>6, <2>12
    <2> QED BY <2>1, <2>3, <2>7, <2>8, <2>13, <2>14, <2>15, <2>17, <2>18 DEF GoesOn
  <1>5. CASE r \in Updates /\ PostUpdate(r)
    <2>1. stage[r] = "post" /\ stage' = [stage EXCEPT ![r] = "work"]
          /\ UNCHANGED <<rows, got, todo, added, tries, met>>
      BY <1>5 DEF PostUpdate, Goto, sessionVars
    <2>2. MetaGrows
      BY <1>5, <2>1, MetaType DEF MetaGrows, PostUpdate
    <2> QED BY <1>0, <1>t, <1>a, <2>1, <2>2 DEF GoesOn, Kept, UnderWay, TypeOK
  <1>6. CASE PostUnanswered(r)
    <2>1. stage[r] = "post" /\ tries' = [tries EXCEPT ![r] = @ + 1]
          /\ UNCHANGED <<rows, got, todo, added, met>>
      BY <1>6 DEF PostUnanswered, sessionVars
    <2>2. MetaGrows
      BY <1>6, <2>1, MetaType DEF MetaGrows, PostUnanswered, MayHaveActed
    <2>3. \/ stage' = [stage EXCEPT ![r] = "work"]
          \/ stage' = [stage EXCEPT ![r] = "failing"]
          \/ UNCHANGED stage /\ tries'[r] # MaxAttempts
      BY <1>6 DEF PostUnanswered, PostRaises, Goto
    <2>4. tries[r] \in Nat /\ tries[r] < MaxAttempts /\ MaxAttempts \in Nat
      BY <1>0, <2>1, MirrorConstants DEF Sessions, TypeOK
    <2>5. tries'[r] = tries[r] + 1
      BY <1>0, <2>1 DEF TypeOK
    <2>6. stage'[r] \in {"work", "failing", "post"}
      BY <1>0, <2>1, <2>3 DEF TypeOK
    <2>7. stage'[r] = "post" => tries'[r] < MaxAttempts
      <3>1. stage'[r] = "post" => tries'[r] # MaxAttempts
        BY <1>0, <2>3 DEF TypeOK
      <3> QED BY <2>4, <2>5, <3>1
    <2>8. Kept(r)
      BY <1>0, <2>1, <2>3 DEF Kept, TypeOK
    <2> QED BY <1>t, <1>a, <2>1, <2>2, <2>6, <2>7, <2>8 DEF GoesOn, UnderWay
  <1>7. CASE PostRefused(r)
    <2>1. stage[r] = "post" /\ UNCHANGED <<meta, rows, got, todo, added, tries, met>>
      BY <1>7 DEF PostRefused, sessionVars
    <2>2. stage' = [stage EXCEPT ![r] = "work"] \/ stage' = [stage EXCEPT ![r] = "failing"]
      BY <1>7 DEF PostRefused, PostRaises, Goto
    <2> QED BY <1>0, <1>t, <1>a, <2>1, <2>2 DEF GoesOn, MetaGrows, Kept, UnderWay, TypeOK
  <1>9. CASE PostGarbled(r)
    <2>1. stage[r] = "post" /\ UNCHANGED <<rows, got, todo, added, tries, met>>
      BY <1>9 DEF PostGarbled, sessionVars
    <2>2. MetaGrows
      BY <1>9, <2>1, MetaType DEF MetaGrows, PostGarbled, MayHaveActed
    <2>3. stage' = [stage EXCEPT ![r] = "work"] \/ stage' = [stage EXCEPT ![r] = "failing"]
      BY <1>9 DEF PostGarbled, PostRaises, Goto
    <2> QED BY <1>0, <1>t, <1>a, <2>1, <2>2, <2>3 DEF GoesOn, Kept, UnderWay, TypeOK
  <1>8. CASE Flush(r)
    <2>1. stage[r] = "work" /\ UNCHANGED <<meta, rows, stage, got, todo, added, tries, met>>
      BY <1>8 DEF Flush
    <2> QED BY <1>0, <1>t, <1>a, <2>1 DEF GoesOn, MetaGrows, Kept, UnderWay, TypeOK
  <1> QED BY <1>1, <1>2, <1>3, <1>4, <1>5, <1>6, <1>7, <1>8, <1>9

LEMMA Shapes ==
    ASSUME IInv, [Next]_vars
    PROVE  (\E r \in Requests : Begins(r) \/ GoesOn(r) \/ Drops(r)) \/ Outside
  <1>1. ASSUME NEW r \in Requests, Begin(r) \/ Proceed(r) \/ Fails(r)
        PROVE  Begins(r) \/ GoesOn(r) \/ Drops(r)
    <2>1. CASE Begin(r)
      BY <2>1, BeginsShape
    <2>2. CASE \/ LockFails(r) \/ UniqueFails(r) \/ AnswerFails(r) \/ Commit(r) \/ Rollback(r)
               \/ StoreFails(r) \/ Crash(r) \/ CommitPhase(r)
      BY <2>2, DropsShape
    <2>3. CASE \/ r \in Syncs /\ (Fetch(r) \/ FetchFails(r) \/ \E o \in Objects : Look(r, o))
               \/ r \in Creates /\ PostCreate(r)
               \/ r \in Updates /\ PostUpdate(r)
               \/ PostUnanswered(r) \/ PostGarbled(r) \/ PostRefused(r) \/ Flush(r)
      BY <2>3, GoesOnShape
    <2> QED BY <1>1, <2>1, <2>2, <2>3 DEF Proceed, Work, Fails
  <1>2. ASSUME NEW o \in Objects, ChangeOutside(o) PROVE Outside
    <2>1. PICK f \in Fields, v \in Values : meta' = [meta EXCEPT ![o][f] = v]
      BY <1>2 DEF ChangeOutside
    <2>2. meta[o] \in Content /\ meta \in [Objects -> Content \cup {Absent}]
      BY <1>2 DEF ChangeOutside, IInv, TypeOK
    <2>3. [meta[o] EXCEPT ![f] = v] # Absent
      <3>1. [meta[o] EXCEPT ![f] = v] \in Content
        BY <2>2 DEF Content
      <3>2. Absent \notin Content
        BY MirrorConstants
      <3> QED BY <3>1, <3>2
    <2>4. meta' = [meta EXCEPT ![o] = [meta[o] EXCEPT ![f] = v]]
      BY <2>1
    <2> QED BY <1>2, <2>2, <2>3, <2>4 DEF ChangeOutside, Outside, MetaGrows, sessionVars
  <1>3. CASE UNCHANGED vars
    BY <1>3 DEF Outside, MetaGrows, vars, sessionVars
  <1> QED BY <1>1, <1>2, <1>3 DEF Next, Done

-----------------------------------------------------------------------------
(* The invariant, part by part                                             *)

\* A commit gives a row only to an object that exists at Meta.
LEMMA KnownNext == IInv /\ [Next]_vars => Known'
  <1> SUFFICES ASSUME IInv, [Next]_vars PROVE Known'
    OBVIOUS
  <1>0. TypeOK /\ Known /\ Sessions /\ TypeOK'
    BY TypeNext DEF IInv
  <1>1. ASSUME NEW r \in Requests, Begins(r) PROVE Known'
    <2>1. \A u \in Updates : UnderWay(u)' => meta'[Target[u]] # Absent
      <3> SUFFICES ASSUME NEW u \in Updates, UnderWay(u)' PROVE meta'[Target[u]] # Absent
        OBVIOUS
      <3>1. u \in Requests /\ Target[u] \in Objects
        BY MirrorConstants DEF Requests
      <3>2. CASE u = r
        BY <1>0, <1>1, <3>1, <3>2 DEF Begins, Known
      <3>3. CASE u # r
        BY <1>0, <1>1, <3>1, <3>3 DEF Begins, Kept, Known, UnderWay
      <3> QED BY <3>2, <3>3
    <2> QED BY <1>0, <1>1, <2>1 DEF Begins, Known
  <1>2. ASSUME NEW r \in Requests, GoesOn(r) PROVE Known'
    <2>1. \A o \in Objects : rows'[o] # <<>> => meta'[o] # Absent
      BY <1>0, <1>2 DEF GoesOn, MetaGrows, Known
    <2>2. \A q \in Requests : \A o \in Objects : got'[q][o] # Absent => meta'[o] # Absent
      BY <1>0, <1>2 DEF GoesOn, Kept, MetaGrows, Known
    <2>3. \A u \in Updates : UnderWay(u)' => meta'[Target[u]] # Absent
      <3> SUFFICES ASSUME NEW u \in Updates, UnderWay(u)' PROVE meta'[Target[u]] # Absent
        OBVIOUS
      <3>1. u \in Requests /\ Target[u] \in Objects
        BY MirrorConstants DEF Requests
      <3>2. UnderWay(u)
        BY <1>2, <3>1 DEF GoesOn, Kept, UnderWay
      <3> QED BY <1>0, <1>2, <3>1, <3>2 DEF GoesOn, MetaGrows, Known
    <2> QED BY <2>1, <2>2, <2>3 DEF Known
  <1>3. ASSUME NEW r \in Requests, Drops(r) PROVE Known'
    <2>1. \A o \in Objects : rows'[o] # <<>> => meta'[o] # Absent
      <3> SUFFICES ASSUME NEW o \in Objects, rows'[o] # <<>> PROVE meta[o] # Absent
        BY <1>3 DEF Drops
      <3>1. CASE o \in added[r]
        BY <1>0, <3>1 DEF Sessions, Known
      <3>2. CASE o \notin added[r] /\ rows' = Saved(r)
        <4>1. Len(rows'[o]) = Len(rows[o])
          BY <1>0, <3>2, SavedRows DEF Sessions
        <4>2. rows[o] \in Seq(Content) /\ rows'[o] \in Seq(Content)
          BY <1>0 DEF TypeOK
        <4> QED BY <1>0, <4>1, <4>2 DEF Known
      <3>3. CASE rows' = rows
        BY <1>0, <3>3 DEF Known
      <3> QED BY <1>3, <3>1, <3>2, <3>3 DEF Drops
    <2>2. \A q \in Requests : \A o \in Objects : got'[q][o] # Absent => meta'[o] # Absent
      BY <1>0, <1>3 DEF Drops, Kept, Known, Nothing
    <2>3. \A u \in Updates : UnderWay(u)' => meta'[Target[u]] # Absent
      <3> SUFFICES ASSUME NEW u \in Updates, UnderWay(u)' PROVE meta'[Target[u]] # Absent
        OBVIOUS
      <3>1. u \in Requests
        BY DEF Requests
      <3>2. UnderWay(u)
        BY <1>3, <3>1 DEF Drops, Kept, UnderWay
      <3> QED BY <1>0, <1>3, <3>2 DEF Drops, Known
    <2> QED BY <2>1, <2>2, <2>3 DEF Known
  <1>4. CASE Outside
    <2>1. \A u \in Updates : Target[u] \in Objects
      BY MirrorConstants
    <2> QED BY <1>0, <1>4, <2>1 DEF Outside, MetaGrows, Known, UnderWay
  <1> QED BY <1>1, <1>2, <1>3, <1>4, Shapes

LEMMA SessionsNext == IInv /\ [Next]_vars => Sessions'
  <1> SUFFICES ASSUME IInv, [Next]_vars, NEW q \in Requests
               PROVE  /\ added'[q] # {} => stage'[q] \in {"work", "failing"} /\ q \notin Updates
                      /\ \A o \in todo'[q] \cup added'[q] : o \in Touches(q) /\ got'[q][o] # Absent
                      /\ stage'[q] = "post" => tries'[q] < MaxAttempts
                      /\ stage'[q] = "idle" => tries'[q] = 0
    BY DEF Sessions, Touches
  <1>0. Sessions /\ MaxAttempts \in Nat \ {0}
    BY MirrorConstants DEF IInv
  <1>1. ASSUME NEW r \in Requests, Begins(r) \/ GoesOn(r) \/ Drops(r), q # r
        PROVE  /\ stage'[q] = stage[q] /\ got'[q] = got[q] /\ todo'[q] = todo[q]
               /\ added'[q] = added[q] /\ tries'[q] = tries[q]
    <2>1. Kept(r)
      BY <1>1 DEF Begins, GoesOn, Drops
    <2> QED BY <1>1, <2>1 DEF Kept
  <1>2. CASE Begins(q)
    BY <1>0, <1>2 DEF Begins, Sessions
  <1>3. CASE GoesOn(q)
    BY <1>0, <1>3 DEF GoesOn
  <1>4. CASE Drops(q)
    BY <1>0, <1>4 DEF Drops
  <1>5. CASE Outside
    BY <1>0, <1>5 DEF Outside, Sessions
  <1>6. CASE \E r \in Requests : q # r /\ (Begins(r) \/ GoesOn(r) \/ Drops(r))
    BY <1>0, <1>1, <1>6 DEF Sessions
  <1> QED BY <1>2, <1>3, <1>4, <1>5, <1>6, Shapes

LEMMA MeetingNext == IInv /\ [Next]_vars => Meeting' /\ met \subseteq met'
  <1> SUFFICES ASSUME IInv, [Next]_vars PROVE Meeting' /\ met \subseteq met'
    OBVIOUS
  <1>0. Meeting
    BY DEF IInv
  <1>1. ASSUME NEW r \in Requests, Begins(r) PROVE Meeting' /\ met \subseteq met'
    <2>1. met \subseteq met'
      BY <1>1 DEF Begins, Meet
    <2>2. \A q \in Requests \ {r} : UnderWay(q)' = UnderWay(q)
      BY <1>1 DEF Begins, Kept, UnderWay
    <2>3. \A q \in Requests \ {r} :
            UnderWay(q) /\ Touches(q) \cap Touches(r) # {} => {r, q} \in met'
      BY <1>1 DEF Begins, Meet
    <2>4. ASSUME NEW a \in Requests, NEW b \in Requests,
                 a # b, UnderWay(a)', UnderWay(b)', Touches(a) \cap Touches(b) # {}
          PROVE  {a, b} \in met'
      <3>1. CASE a = r
        BY <2>2, <2>3, <2>4, <3>1
      <3>2. CASE b = r
        <4>1. {b, a} \in met'
          BY <2>2, <2>3, <2>4, <3>2
        <4>2. {b, a} = {a, b}
          OBVIOUS
        <4> QED BY <4>1, <4>2
      <3>3. CASE a # r /\ b # r
        BY <1>0, <2>1, <2>2, <2>4, <3>3 DEF Meeting
      <3> QED BY <3>1, <3>2, <3>3
    <2> QED BY <2>1, <2>4 DEF Meeting, Touches
  <1>2. ASSUME met' = met, \A q \in Requests : UnderWay(q)' => UnderWay(q)
        PROVE  Meeting' /\ met \subseteq met'
    BY <1>0, <1>2 DEF Meeting, Touches
  <1>3. ASSUME NEW r \in Requests, GoesOn(r) \/ Drops(r) PROVE Meeting' /\ met \subseteq met'
    <2>1. met' = met /\ \A q \in Requests : UnderWay(q)' => UnderWay(q)
      BY <1>3 DEF GoesOn, Drops, Kept, UnderWay
    <2> QED BY <1>2, <2>1
  <1>4. CASE Outside
    BY <1>2, <1>4 DEF Outside, UnderWay
  <1> QED BY <1>1, <1>3, <1>4, Shapes

\* While r is about to add a row for o only a rival's commit can give o one.
LEMMA AddingNext == IInv /\ [Next]_vars => Adding'
  <1> SUFFICES ASSUME IInv, [Next]_vars,
                      NEW q \in Requests, NEW o \in added'[q], rows'[o] # <<>>
               PROVE  Rivalled(q, o)'
    BY DEF Adding
  <1>0. TypeOK /\ Sessions /\ Meeting /\ Adding /\ TypeOK' /\ met \subseteq met'
    BY TypeNext, MeetingNext DEF IInv
  <1>1. o \in Objects
    BY <1>0 DEF TypeOK
  <1>2. ASSUME Rivalled(q, o) PROVE Rivalled(q, o)'
    BY <1>0, <1>2 DEF Rivalled, Touches
  <1>3. ASSUME rows' = rows, o \in added[q] \/ rows[o] = <<>> PROVE Rivalled(q, o)'
    BY <1>0, <1>2, <1>3 DEF Adding
  <1>4. ASSUME NEW r \in Requests, Begins(r) PROVE Rivalled(q, o)'
    BY <1>3, <1>4 DEF Begins
  <1>5. ASSUME NEW r \in Requests, GoesOn(r) PROVE Rivalled(q, o)'
    <2>1. rows' = rows /\ (o \in added[q] \/ rows[o] = <<>>)
      BY <1>5 DEF GoesOn, Kept
    <2> QED BY <1>3, <2>1
  <1>6. ASSUME NEW r \in Requests, Drops(r) PROVE Rivalled(q, o)'
    <2>1. q # r /\ o \in added[q]
      BY <1>6 DEF Drops, Kept
    <2>2. CASE rows[o] # <<>>
      BY <1>0, <1>2, <2>1, <2>2 DEF Adding
    <2>3. CASE rows' = rows
      BY <1>3, <2>1, <2>3
    <2>4. CASE rows[o] = <<>> /\ rows' = Saved(r)
      <3>1. o \in added[r]
        <4>1. o \notin added[r] => Len(rows'[o]) = Len(rows[o])
          BY <1>0, <1>1, <2>4, SavedRows DEF Sessions
        <4>2. rows'[o] \in Seq(Content)
          BY <1>0, <1>1 DEF TypeOK
        <4> QED BY <2>4, <4>1, <4>2
      <3>2. r \notin Updates /\ o \in Touches(r) /\ o \in Touches(q)
        BY <1>0, <2>1, <3>1 DEF Sessions
      <3>3. UnderWay(q) /\ UnderWay(r)
        BY <1>0, <2>1, <3>1 DEF Sessions, UnderWay
      <3>4. Touches(q) \cap Touches(r) # {}
        BY <3>2
      <3>5. {q, r} \in met'
        <4>1. {q, r} \in met
          BY <1>0, <2>1, <3>3, <3>4 DEF Meeting
        <4> QED BY <1>0, <4>1
      <3> QED BY <2>1, <3>2, <3>5 DEF Rivalled, Touches
    <2> QED BY <1>6, <2>2, <2>3, <2>4 DEF Drops
  <1>7. CASE Outside
    BY <1>3, <1>7 DEF Outside
  <1> QED BY <1>4, <1>5, <1>6, <1>7, Shapes

\* A second row is added by one who has met another who may have added the first.
LEMMA DuplicateNext == IInv /\ [Next]_vars => DuplicateNeedsOverlap'
  <1> SUFFICES ASSUME IInv, [Next]_vars, NEW o \in Objects, Len(rows'[o]) > 1
               PROVE  \E p \in met' : \A r \in p : o \in Touches(r) /\ r \notin Updates
    BY DEF DuplicateNeedsOverlap, Touches
  <1>0. TypeOK /\ Sessions /\ Adding /\ DuplicateNeedsOverlap /\ met \subseteq met'
    BY MeetingNext DEF IInv
  <1>1. CASE Len(rows[o]) > 1
    BY <1>0, <1>1 DEF DuplicateNeedsOverlap
  <1>2. CASE \E r \in Requests : Drops(r) /\ rows' = Saved(r) /\ ~ Len(rows[o]) > 1
    <2>1. PICK r \in Requests : Drops(r) /\ rows' = Saved(r) /\ ~ Len(rows[o]) > 1
      BY <1>2
    <2>2. Len(rows'[o]) = IF o \in added[r] THEN Len(rows[o]) + 1 ELSE Len(rows[o])
      BY <1>0, <2>1, SavedRows DEF Sessions
    <2>3. rows[o] \in Seq(Content)
      BY <1>0 DEF TypeOK
    <2>4. o \in added[r] /\ rows[o] # <<>>
      BY <2>1, <2>2, <2>3
    <2>5. Rivalled(r, o) /\ o \in Touches(r) /\ r \notin Updates
      BY <1>0, <2>4 DEF Adding, Sessions
    <2>6. PICK q \in Requests \ Updates : o \in Touches(q) /\ {r, q} \in met
      BY <2>5 DEF Rivalled
    <2>7. {r, q} \in met'
      BY <1>0, <2>6
    <2> QED BY <2>5, <2>6, <2>7
  <1>3. CASE rows' = rows
    BY <1>1, <1>3
  <1>4. rows' = rows \/ \E r \in Requests : Drops(r) /\ rows' = Saved(r)
    BY Shapes DEF Begins, GoesOn, Drops, Outside
  <1> QED BY <1>1, <1>2, <1>3, <1>4

-----------------------------------------------------------------------------
(* Theorems                                                                *)

\* The invariant holds initially: nothing is under way, nothing duplicated.
LEMMA IInvInit == Init => IInv
  <1> SUFFICES ASSUME Init PROVE IInv
    OBVIOUS
  <1>1. \A o \in Objects : rows[o] # <<>> => meta[o] # Absent
    BY MirrorConstants DEF Init
  <1>2. \A r \in Requests : ~ UnderWay(r) /\ added[r] = {} /\ todo[r] = {}
    BY DEF Init, UnderWay
  <1>3. \A r \in Requests : \A o \in Objects : got[r][o] = Absent
    BY DEF Init, Nothing
  <1>4. Known
    BY <1>1, <1>2, <1>3 DEF Known, Requests
  <1>5. Sessions
    BY <1>2 DEF Init, Sessions
  <1>6. Meeting /\ Adding
    BY <1>2 DEF Meeting, Adding
  <1>7. DuplicateNeedsOverlap
    <2>1. \A o \in Objects : rows[o] = <<>> \/ rows[o] = <<Content0>>
      BY DEF Init
    <2>2. ASSUME NEW o \in Objects PROVE ~ Len(rows[o]) > 1
      <3>1. CASE rows[o] = <<>>
        BY <3>1
      <3>2. CASE rows[o] = <<Content0>>
        BY <3>2
      <3> QED BY <2>1, <3>1, <3>2
    <2> QED BY <2>2 DEF DuplicateNeedsOverlap
  <1> QED BY <1>4, <1>5, <1>6, <1>7, TypeInit DEF IInv

\* Every step of every request, failure and change at Meta keeps the invariant.
THEOREM Inductive == Spec => []IInv
  <1>1. IInv /\ [Next]_vars => IInv'
    BY TypeNext, KnownNext, SessionsNext, MeetingNext, AddingNext, DuplicateNext DEF IInv
  <1> QED BY <1>1, IInvInit, PTL DEF Spec

\* The variables keep their types; a post is never repeated beyond the bound of
\* FacebookGraphClient._request, whatever fails.
THEOREM TypeCorrect == Spec => []TypeOK
  <1>1. IInv => TypeOK
    BY DEF IInv
  <1> QED BY <1>1, Inductive, PTL

\* For any requests and failures: an object gets a second row only if two
\* requests that add rows for it were under way at once, so the syncs and creates
\* of services/campaign.py and services/facebook.py, one after the other, never
\* duplicate a row, whatever was cut off or repeated before.
THEOREM OnlyOverlapDuplicates == Spec => []DuplicateNeedsOverlap
  <1>1. IInv => DuplicateNeedsOverlap
    BY DEF IInv
  <1> QED BY <1>1, Inductive, PTL
=============================================================================
