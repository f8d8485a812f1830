--------------------------- MODULE LeadBoardProofs ---------------------------
(***************************************************************************)
(* Theorems about LeadBoard for every set of leads, transactions, clients, *)
(* walks, updates and dashboards, every page size and every fault budget.  *)
(***************************************************************************)
EXTENDS LeadBoard, FiniteSetTheorems, TLAPS

-----------------------------------------------------------------------------
(* Types                                                                   *)

LEMMA CountType ==
    ASSUME NEW S \in SUBSET Leads
    PROVE  Cardinality(S) \in 0 .. Cardinality(Leads)
  <1>1. IsFiniteSet(Leads)
    BY BoardConstants
  <1>2. IsFiniteSet(S) /\ Cardinality(S) <= Cardinality(Leads)
    BY <1>1, FS_Subset
  <1>3. Cardinality(S) \in Nat /\ Cardinality(Leads) \in Nat
    BY <1>1, <1>2, FS_CardinalityType
  <1> QED BY <1>2, <1>3

LEMMA FaultType ==
    ASSUME faults \in [FaultKinds -> Nat], NEW k, Fault(k)
    PROVE  faults' \in [FaultKinds -> Nat]
  <1>1. ASSUME NEW y \in FaultKinds PROVE faults'[y] \in Nat
    BY <1>1 DEF Fault
  <1> QED BY <1>1 DEF Fault

LEMMA GotoType ==
    ASSUME TypeOK, NEW a, NEW s, Goto(a, s),
           s \in {"connecting", "open", "closed", "counting", "reading", "ended",
                  "loaded", "saved", "kept", "committed", "ok", "rejected", "lost"}
    PROVE  stage' \in [Actors -> {"idle", "connecting", "open", "closed", "counting", "reading",
                                  "ended", "loaded", "saved", "kept", "committed", "ok",
                                  "rejected", "lost"}]
  BY DEF TypeOK, Goto

LEMMA TypeInit == Init => TypeOK
  <1> SUFFICES ASSUME Init PROVE TypeOK
    OBVIOUS
  <1> USE BoardConstants
  <1>1. tx \in [Batches -> {"idle", "open", "there", "gone"}]
    BY DEF Init
  <1>2. stage \in [Actors -> {"idle", "ended"}]
    BY DEF Init
  <1>3. saved \subseteq Leads /\ status \in [Leads -> Statuses]
    BY DEF Init, Visible
  <1>4. Cardinality(Leads) \in Nat
    BY FS_CardinalityType
  <1>5. total \in [Walks -> 0 .. Cardinality(Leads)]
    BY <1>4 DEF Init
  <1>6. lead \in [Updates -> Leads]
    BY DEF Init
  <1>7. figures \in [Dashboards -> [Figures -> -1 .. Cardinality(Leads)]]
    BY <1>4 DEF Init
  <1>8. queue \in [Clients -> Seq(Leads)]
    BY DEF Init
  <1>9. faults \in [FaultKinds -> Nat]
    BY DEF Init
  <1> QED BY <1>1, <1>2, <1>3, <1>5, <1>6, <1>7, <1>8, <1>9 DEF Init, TypeOK

\* What storing, streaming and listing leads leave of the types.
LEMMA TypeStore ==
    ASSUME TypeOK,
           \/ \E b \in Batches : BeginBatch(b) \/ EndBatch(b)
           \/ \E l \in Leads : Announce(l)
    PROVE  TypeOK'
  <1> USE DEF leadVars, streamVars, walkVars, updateVars, boardVars
  <1>1. ASSUME NEW b \in Batches, BeginBatch(b) PROVE TypeOK'
    BY <1>1 DEF TypeOK, BeginBatch
  <1>2. ASSUME NEW b \in Batches, EndBatch(b) PROVE TypeOK'
    <2>1. faults' \in [FaultKinds -> Nat]
      BY <1>2, FaultType DEF TypeOK, EndBatch
    <2>2. tx' \in [Batches -> {"idle", "open", "there", "gone"}] /\ saved' \subseteq Leads
      BY <1>2 DEF TypeOK, EndBatch
    <2> QED BY <1>2, <2>1, <2>2 DEF TypeOK, EndBatch
  <1>3. ASSUME NEW l \in Leads, Announce(l) PROVE TypeOK'
    <2>1. faults' \in [FaultKinds -> Nat]
      BY <1>3, FaultType DEF TypeOK, Announce
    <2>2. queue' \in [Clients -> Seq(Leads)]
      <3>1. \A k \in Clients : queue[k] \in Seq(Leads) /\ Append(queue[k], l) \in Seq(Leads)
        BY DEF TypeOK
      <3> QED BY <1>3, <3>1 DEF TypeOK, Announce
    <2>3. deaf' \in [Clients -> SUBSET Leads] /\ silent' \subseteq Leads /\ saved' \subseteq Leads
      BY <1>3 DEF TypeOK, Announce
    <2> QED BY <1>3, <2>1, <2>2, <2>3 DEF TypeOK, Announce
  <1> QED BY <1>1, <1>2, <1>3

LEMMA TypeStream ==
    ASSUME TypeOK, NEW k \in Clients,
           Connect(k) \/ Subscribed(k) \/ ListLeads(k) \/ Forward(k) \/ EndStream(k)
    PROVE  TypeOK'
  <1> USE DEF leadVars, streamVars, walkVars, updateVars, boardVars
  <1>1. CASE Connect(k)
    BY <1>1, GotoType DEF TypeOK, Connect
  <1>2. CASE Subscribed(k)
    BY <1>2 DEF TypeOK, Subscribed
  <1>3. CASE ListLeads(k)
    <2>1. shown' \in [Clients \cup Walks -> SUBSET Leads]
      BY <1>3 DEF TypeOK, ListLeads, Visible
    <2> QED BY <1>3, <2>1, GotoType DEF TypeOK, ListLeads
  <1>4. CASE Forward(k)
    <2>1. queue[k] \in Seq(Leads) /\ queue[k] # <<>>
      BY <1>4 DEF TypeOK, Forward
    <2>2. Head(queue[k]) \in Leads /\ Tail(queue[k]) \in Seq(Leads)
      BY <2>1
    <2>3. shown' \in [Clients \cup Walks -> SUBSET Leads] /\ queue' \in [Clients -> Seq(Leads)]
      BY <1>4, <2>2 DEF TypeOK, Forward
    <2> QED BY <1>4, <2>3 DEF TypeOK, Forward
  <1>5. CASE EndStream(k)
    <2>1. {queue[k][i] : i \in DOMAIN queue[k]} \subseteq Leads
      BY DEF TypeOK
    <2>2. deaf' \in [Clients -> SUBSET Leads] /\ queue' \in [Clients -> Seq(Leads)]
      BY <1>5, <2>1 DEF TypeOK, EndStream
    <2> QED BY <1>5, <2>2, GotoType DEF TypeOK, EndStream
  <1> QED BY <1>1, <1>2, <1>3, <1>4, <1>5

LEMMA TypeWalk ==
    ASSUME TypeOK, NEW w \in Walks, StartWalk(w) \/ CountLeads(w) \/ ReadPage(w)
    PROVE  TypeOK'
  <1> USE DEF leadVars, streamVars, walkVars, updateVars, boardVars
  <1>1. Visible \subseteq Leads /\ Cardinality(Visible) \in 0 .. Cardinality(Leads)
    BY CountType DEF Visible
  <1>2. Cardinality(Leads) \in Nat
    BY BoardConstants, FS_CardinalityType
  <1>3. CASE StartWalk(w)
    BY <1>1, <1>3, GotoType DEF TypeOK, StartWalk
  <1>4. CASE CountLeads(w)
    BY <1>1, <1>4, GotoType DEF TypeOK, CountLeads
  <1>5. CASE ReadPage(w)
    <2>1. shown' \in [Clients \cup Walks -> SUBSET Leads]
      <3>1. PICK f \in Orders(Visible) :
              shown' = [shown EXCEPT ![w] = @ \cup
                          {f[i] : i \in {i \in DOMAIN f : OffsetPage(i) = page[w]}}]
        BY <1>5 DEF ReadPage
      <3>2. {f[i] : i \in {i \in DOMAIN f : OffsetPage(i) = page[w]}} \subseteq Leads
        BY <1>1, <3>1 DEF Orders
      <3> QED BY <3>1, <3>2 DEF TypeOK
    <2>2. seen' \in [Walks -> Nat]
      BY <1>1, <1>2, <1>5 DEF TypeOK, ReadPage
    <2>3. page' \in [Walks -> Nat \ {0}]
      <3>1. page[w] \in Nat \ {0}
        BY DEF TypeOK
      <3>2. page[w] + 1 \in Nat \ {0}
        BY <3>1
      <3>3. page' = [page EXCEPT ![w] = @ + 1] \/ page' = page
        BY <1>5 DEF ReadPage
      <3> QED BY <3>2, <3>3 DEF TypeOK
    <2> QED BY <1>5, <2>1, <2>2, <2>3, GotoType DEF TypeOK, ReadPage
  <1> QED BY <1>3, <1>4, <1>5

LEMMA TypeUpdate ==
    ASSUME TypeOK, NEW u \in Updates,
           BeginUpdate(u) \/ Save(u) \/ CommitUpdate(u) \/ Reply(u) \/ CutOff(u)
    PROVE  TypeOK'
  <1> USE DEF leadVars, streamVars, walkVars, updateVars, boardVars
  <1>1. Lands(u) => status' \in [Leads -> Statuses] /\ odd' \subseteq Leads
    BY DEF TypeOK, Lands
  <1>2. CASE BeginUpdate(u)
    <2>1. lead' \in [Updates -> Leads] /\ wanted' \in [Updates -> Statuses]
      BY <1>2, BoardConstants DEF TypeOK, BeginUpdate
    <2>2. loaded' \in [Updates -> Statuses]
      <3>1. PICK l \in Leads :
              loaded' = loaded \/ loaded' = [loaded EXCEPT ![u] = status[l]]
        BY <1>2, BoardConstants DEF BeginUpdate
      <3> QED BY <3>1 DEF TypeOK
    <2>3. prior' \in [Updates -> SUBSET Updates]
      BY <1>2 DEF TypeOK, BeginUpdate
    <2> QED BY <1>2, <2>1, <2>2, <2>3, GotoType DEF TypeOK, BeginUpdate
  <1>3. CASE Save(u)
    BY <1>3, GotoType DEF TypeOK, Save
  <1>4. CASE CommitUpdate(u)
    BY <1>1, <1>4, GotoType DEF TypeOK, CommitUpdate
  <1>5. CASE Reply(u)
    BY <1>5, GotoType DEF TypeOK, Reply
  <1>6. CASE CutOff(u)
    <2>1. faults' \in [FaultKinds -> Nat]
      BY <1>6, FaultType DEF TypeOK, CutOff
    <2> QED BY <1>1, <1>6, <2>1, GotoType DEF TypeOK, CutOff
  <1> QED BY <1>2, <1>3, <1>4, <1>5, <1>6

LEMMA FigureType ==
    ASSUME NEW f, NEW time
    PROVE  Count(f, time) \in 0 .. Cardinality(Leads)
  <1>1. Cardinality(Visible) \in 0 .. Cardinality(Leads)
    BY CountType DEF Visible
  <1>2. CountByStatus \in 0 .. Cardinality(Leads)
    BY CountType DEF CountByStatus, Visible
  <1>3. \A p : CountSince(p, time) \in 0 .. Cardinality(Leads)
    BY CountType DEF CountSince, Visible
  <1> QED BY <1>1, <1>2, <1>3 DEF Count, CountDaily

LEMMA TypeDashboard ==
    ASSUME TypeOK, NEW d \in Dashboards, BeginDashboard(d) \/ CountNext(d)
    PROVE  TypeOK'
  <1> USE DEF leadVars, streamVars, walkVars, updateVars, boardVars
  <1>1. CASE BeginDashboard(d)
    BY <1>1, GotoType DEF TypeOK, BeginDashboard
  <1>2. CASE CountNext(d)
    <2>1. PICK i \in DOMAIN Order :
            /\ figures' = [figures EXCEPT ![d][Order[i]] = Count(Order[i], now[d])]
            /\ Goto(d, IF i = Len(Order) THEN "ended" ELSE "counting")
      BY <1>2 DEF CountNext
    <2>2. Count(Order[i], now[d]) \in -1 .. Cardinality(Leads)
      BY FigureType
    <2>3. figures' \in [Dashboards -> [Figures -> -1 .. Cardinality(Leads)]]
      BY <2>1, <2>2 DEF TypeOK
    <2> QED BY <1>2, <2>1, <2>3, GotoType DEF TypeOK, CountNext
  <1> QED BY <1>1, <1>2

LEMMA TypeNext == TypeOK /\ [Next]_vars => TypeOK'
  <1> SUFFICES ASSUME TypeOK, [Next]_vars PROVE TypeOK'
    OBVIOUS
  <1>1. CASE UNCHANGED vars
    BY <1>1 DEF TypeOK, vars, leadVars, streamVars, walkVars, updateVars, boardVars
  <1>2. CASE Next /\ ~ Done
    BY <1>2, TypeStore, TypeStream, TypeWalk, TypeUpdate, TypeDashboard DEF Next
  <1> QED BY <1>1, <1>2 DEF Done

-----------------------------------------------------------------------------
(* Transactions and streams                                                *)

\* Walks, updates and dashboards leave streams and transactions alone.
LEMMA Apart ==
    ASSUME TypeOK,
           \/ \E w \in Walks : StartWalk(w) \/ CountLeads(w) \/ ReadPage(w)
           \/ \E u \in Updates : BeginUpdate(u) \/ Save(u) \/ CommitUpdate(u) \/ Reply(u) \/ CutOff(u)
           \/ \E d \in Dashboards : BeginDashboard(d) \/ CountNext(d)
    PROVE  /\ UNCHANGED <<leadVars, streamVars>>
           /\ \A k \in Clients : stage'[k] = stage[k] /\ shown'[k] = shown[k]
  <1> DEFINE Still == /\ UNCHANGED <<leadVars, streamVars>>
                      /\ \A k \in Clients : stage'[k] = stage[k] /\ shown'[k] = shown[k]
  <1>1. ASSUME NEW a \in Actors \ Clients, NEW s, Goto(a, s), NEW k \in Clients
        PROVE  stage'[k] = stage[k]
    BY <1>1 DEF TypeOK, Goto, Actors
  <1>2. ASSUME NEW w \in Walks, StartWalk(w) \/ CountLeads(w) \/ ReadPage(w)
        PROVE  Still
    <2>1. w \in Actors \ Clients
      BY BoardConstants DEF Actors
    <2>2. UNCHANGED <<leadVars, streamVars>>
      BY <1>2 DEF StartWalk, CountLeads, ReadPage
    <2>3. \E s : Goto(w, s)
      BY <1>2 DEF StartWalk, CountLeads, ReadPage
    <2>4. shown' = shown \/ \E S : shown' = [shown EXCEPT ![w] = S]
      BY <1>2 DEF StartWalk, CountLeads, ReadPage
    <2>5. \A k \in Clients : shown'[k] = shown[k]
      BY <2>1, <2>4 DEF TypeOK
    <2> QED BY <1>1, <2>1, <2>2, <2>3, <2>5
  <1>3. ASSUME NEW u \in Updates,
               BeginUpdate(u) \/ Save(u) \/ CommitUpdate(u) \/ Reply(u) \/ CutOff(u)
        PROVE  Still
    <2>1. u \in Actors \ Clients
      BY BoardConstants DEF Actors
    <2>2. UNCHANGED <<leadVars, streamVars, shown>>
      BY <1>3 DEF BeginUpdate, Save, CommitUpdate, Reply, CutOff
    <2>3. \E s : Goto(u, s)
      BY <1>3 DEF BeginUpdate, Save, CommitUpdate, Reply, CutOff
    <2> QED BY <1>1, <2>1, <2>2, <2>3
  <1>4. ASSUME NEW d \in Dashboards, BeginDashboard(d) \/ CountNext(d)
        PROVE  Still
    <2>1. d \in Actors \ Clients
      BY BoardConstants DEF Actors
    <2>2. UNCHANGED <<leadVars, streamVars, shown>>
      BY <1>4 DEF BeginDashboard, CountNext
    <2>3. \E s : Goto(d, s)
      BY <1>4 DEF BeginDashboard, CountNext
    <2> QED BY <1>1, <2>1, <2>2, <2>3
  <1> QED BY <1>2, <1>3, <1>4

LEMMA TablesNext ==
    ASSUME TypeOK, Tables, [Next]_vars
    PROVE  Tables'
  <1> USE DEF Tables, Visible, Stored
  <1>1. ASSUME UNCHANGED leadVars PROVE Tables'
    BY <1>1 DEF leadVars
  <1>2. ASSUME NEW b \in Batches, BeginBatch(b) PROVE Tables'
    BY <1>2, BoardConstants DEF TypeOK, BeginBatch
  <1>3. ASSUME NEW b \in Batches, EndBatch(b) PROVE Tables'
    <2>1. \/ tx' = [tx EXCEPT ![b] = "there"] /\ saved' = saved
             /\ \A l \in Leads : BatchOf[l] = b => l \in saved
          \/ tx' = [tx EXCEPT ![b] = "gone"] /\ saved' = {l \in saved : BatchOf[l] # b}
      BY <1>3 DEF EndBatch
    <2>2. b \notin Past
      BY <1>3 DEF EndBatch
    <2>3. \A l \in Leads : BatchOf[l] \in Batches
      BY BoardConstants
    <2>4. \A c \in Batches \ {b} : tx'[c] = tx[c]
      BY <2>1 DEF TypeOK
    <2>5. \/ tx'[b] = "there" /\ saved' = saved /\ \A l \in Leads : BatchOf[l] = b => l \in saved
          \/ tx'[b] = "gone" /\ saved' = {l \in saved : BatchOf[l] # b}
      BY <2>1 DEF TypeOK
    <2>6. \A c \in Past : tx'[c] = "there"
      BY <2>2, <2>4, BoardConstants
    <2>7. ASSUME NEW l \in Leads, tx'[BatchOf[l]] = "there" PROVE l \in saved'
      <3>1. CASE BatchOf[l] = b
        BY <2>5, <2>7, <3>1
      <3>2. CASE BatchOf[l] # b
        BY <2>3, <2>4, <2>5, <2>7, <3>2
      <3> QED BY <3>1, <3>2
    <2> QED BY <2>6, <2>7
  <1>4. ASSUME NEW l \in Leads, Announce(l) PROVE Tables'
    BY <1>4 DEF Announce
  <1>5. ASSUME NEW k \in Clients,
               Connect(k) \/ Subscribed(k) \/ ListLeads(k) \/ Forward(k) \/ EndStream(k)
        PROVE  Tables'
    BY <1>1, <1>5 DEF Connect, Subscribed, ListLeads, Forward, EndStream
  <1>6. CASE UNCHANGED vars
    BY <1>1, <1>6 DEF vars
  <1> QED BY <1>1, <1>2, <1>3, <1>4, <1>5, <1>6, Apart DEF Next, Done

\* No step of a stream forgets what a client has heard.
LEMMA HeardStays ==
    ASSUME TypeOK, NEW k \in Clients, NEW l \in Leads, Heard(k, l), [Next]_vars
    PROVE  Heard(k, l)'
  <1> USE DEF Heard
  <1>1. queue[k] \in Seq(Leads) /\ k \in Clients \cup Walks
    BY DEF TypeOK
  <1>2. ASSUME NEW m \in Leads, Announce(m) PROVE Heard(k, l)'
    <2>1. shown' = shown /\ silent \subseteq silent' /\ deaf[k] \subseteq deaf'[k]
      <3>1. deaf' = deaf \/ deaf' = [j \in Clients |->
                IF j \in subscribed THEN deaf[j] ELSE deaf[j] \cup {m}]
        BY <1>2 DEF Announce
      <3>2. deaf[k] \subseteq deaf'[k]
        BY <3>1
      <3>3. shown' = shown /\ silent \subseteq silent'
        BY <1>2 DEF Announce
      <3> QED BY <3>2, <3>3
    <2>2. queue'[k] = queue[k] \/ queue'[k] = Append(queue[k], m)
      <3>1. queue' = queue \/ queue' = [j \in Clients |->
                IF j \in subscribed THEN Append(queue[j], m) ELSE queue[j]]
        BY <1>2 DEF Announce
      <3> QED BY <3>1
    <2>3. ASSUME NEW i \in DOMAIN queue[k]
          PROVE  i \in DOMAIN queue'[k] /\ queue'[k][i] = queue[k][i]
      BY <1>1, <2>2
    <2> QED BY <2>1, <2>3
  <1>3. ASSUME NEW j \in Clients, Forward(j) PROVE Heard(k, l)'
    <2>1. CASE j # k
      BY <1>1, <1>3, <2>1 DEF TypeOK, Forward, leadVars
    <2>2. CASE j = k
      <3>1. /\ queue[k] # <<>> /\ queue'[k] = Tail(queue[k])
            /\ shown'[k] = shown[k] \cup {Head(queue[k])}
            /\ silent' = silent /\ deaf' = deaf
        BY <1>1, <1>3, <2>2 DEF TypeOK, Forward, leadVars
      <3>2. ASSUME NEW i \in DOMAIN queue[k], i # 1
            PROVE  i - 1 \in DOMAIN queue'[k] /\ queue'[k][i - 1] = queue[k][i]
        BY <1>1, <3>1, <3>2
      <3>3. Head(queue[k]) = queue[k][1]
        BY <1>1, <3>1
      <3> QED BY <3>1, <3>2, <3>3
    <2> QED BY <2>1, <2>2
  <1>4. ASSUME NEW j \in Clients, EndStream(j) PROVE Heard(k, l)'
    <2>1. CASE j # k
      BY <1>4, <2>1 DEF TypeOK, EndStream, leadVars
    <2>2. CASE j = k
      <3>1. shown' = shown /\ silent' = silent
            /\ deaf'[k] = deaf[k] \cup {queue[k][i] : i \in DOMAIN queue[k]}
        BY <1>4, <2>2 DEF TypeOK, EndStream, leadVars
      <3> QED BY <3>1
    <2> QED BY <2>1, <2>2
  <1>6. ASSUME NEW j \in Clients, Connect(j) \/ Subscribed(j) \/ ListLeads(j)
        PROVE  Heard(k, l)'
    BY <1>1, <1>6 DEF TypeOK, Connect, Subscribed, ListLeads, leadVars, streamVars
  <1>7. ASSUME NEW b \in Batches, BeginBatch(b) \/ EndBatch(b) PROVE Heard(k, l)'
    BY <1>7 DEF BeginBatch, EndBatch, streamVars
  <1>8. CASE UNCHANGED vars
    BY <1>8 DEF vars, streamVars, leadVars
  <1>9. ASSUME UNCHANGED <<leadVars, streamVars>>, shown'[k] = shown[k] PROVE Heard(k, l)'
    BY <1>9 DEF streamVars, leadVars
  <1> QED BY <1>2, <1>3, <1>4, <1>6, <1>7, <1>8, <1>9, Apart DEF Next, Done

LEMMA StreamsNext ==
    ASSUME TypeOK, Tables, Streams, [Next]_vars
    PROVE  Streams'
  <1> SUFFICES ASSUME NEW k \in Clients
               PROVE /\ \A l \in saved' : BatchOf[l] \in Past \/ Heard(k, l)'
                     /\ stage'[k] = "open" => \A l \in Leads : BatchOf[l] \in Past => l \in shown'[k]
    BY DEF Streams
  <1>1. k \in Actors /\ k \in Clients \cup Walks
    BY DEF Actors
  <1>3. ASSUME NEW l \in saved' PROVE l \in saved \/ Announce(l)
    <2>1. (\E b \in Batches : BeginBatch(b) \/ EndBatch(b)) => l \in saved
      BY DEF BeginBatch, EndBatch
    <2>2. ASSUME NEW m \in Leads, Announce(m) PROVE l \in saved \/ Announce(l)
      BY <2>2 DEF Announce
    <2>3. \/ \E j \in Clients :
               Connect(j) \/ Subscribed(j) \/ ListLeads(j) \/ Forward(j) \/ EndStream(j)
          \/ UNCHANGED vars
          => l \in saved
      BY DEF Connect, Subscribed, ListLeads, Forward, EndStream, leadVars, vars
    <2> QED BY <2>1, <2>2, <2>3, Apart DEF Next, Done, leadVars
  <1>4. ASSUME NEW l \in Leads, Announce(l) PROVE Heard(k, l)'
    <2>1. CASE k \in subscribed /\ queue' = [j \in Clients |->
                 IF j \in subscribed THEN Append(queue[j], l) ELSE queue[j]]
      <3>1. queue[k] \in Seq(Leads) /\ queue'[k] = Append(queue[k], l)
        BY <2>1 DEF TypeOK
      <3>2. Len(queue[k]) + 1 \in DOMAIN queue'[k] /\ queue'[k][Len(queue[k]) + 1] = l
        BY <3>1
      <3> QED BY <3>2 DEF Heard
    <2>2. CASE l \in deaf'[k] \cup silent'
      BY <2>2 DEF Heard
    <2>3. k \notin subscribed => l \in deaf'[k] \cup silent'
      BY <1>4 DEF Announce, TypeOK
    <2>4. l \in silent' \/ queue' = [j \in Clients |->
                 IF j \in subscribed THEN Append(queue[j], l) ELSE queue[j]]
      BY <1>4 DEF Announce
    <2> QED BY <2>1, <2>2, <2>3, <2>4
  <1>5. ASSUME NEW l \in saved', BatchOf[l] \notin Past
        PROVE  Heard(k, l)'
    <2>1. l \in Leads
      BY TypeNext DEF TypeOK
    <2>2. CASE Announce(l)
      BY <1>4, <2>1, <2>2
    <2>3. CASE l \in saved
      <3>1. Heard(k, l)
        BY <1>5, <2>3 DEF Streams
      <3> QED BY <1>5, <2>1, <3>1, HeardStays
    <2> QED BY <1>3, <2>2, <2>3
  <1>6. shown[k] \subseteq shown'[k]
    <2>1. ASSUME NEW j \in Clients,
                 Connect(j) \/ Subscribed(j) \/ ListLeads(j) \/ Forward(j) \/ EndStream(j)
          PROVE  shown[k] \subseteq shown'[k]
      <3>1. shown' = shown \/ \E S : shown' = [shown EXCEPT ![j] = @ \cup S]
        BY <2>1 DEF Connect, Subscribed, ListLeads, Forward, EndStream
      <3>2. ASSUME NEW S, shown' = [shown EXCEPT ![j] = @ \cup S] PROVE shown[k] \subseteq shown'[k]
        <4>1. CASE j = k
          BY <1>1, <3>2, <4>1 DEF TypeOK
        <4>2. CASE j # k
          BY <1>1, <3>2, <4>2 DEF TypeOK
        <4> QED BY <4>1, <4>2
      <3> QED BY <3>1, <3>2
    <2>2. (\E b \in Batches : BeginBatch(b) \/ EndBatch(b)) \/ (\E l \in Leads : Announce(l))
            \/ UNCHANGED vars => shown' = shown
      BY DEF BeginBatch, EndBatch, Announce, vars
    <2> QED BY <2>1, <2>2, Apart DEF Next, Done
  <1>7. ASSUME stage'[k] = "open", NEW l \in Leads, BatchOf[l] \in Past
        PROVE  l \in shown'[k]
    <2>1. CASE stage[k] = "open"
      BY <1>6, <1>7, <2>1 DEF Streams
    <2>2. CASE ListLeads(k)
      <3>1. l \in Visible
        BY <1>7 DEF Tables, Visible, Stored
      <3> QED BY <1>1, <2>2, <3>1 DEF TypeOK, ListLeads
    <2>3. stage[k] = "open" \/ ListLeads(k)
      <3> USE <1>1 DEF TypeOK, Goto
      <3>1. ASSUME NEW j \in Clients,
                   Connect(j) \/ Subscribed(j) \/ ListLeads(j) \/ Forward(j) \/ EndStream(j)
            PROVE  stage[k] = "open" \/ ListLeads(k)
        <4>1. CASE j = k
          BY <1>7, <3>1, <4>1 DEF Connect, Subscribed, Forward, EndStream, Actors
        <4>2. CASE j # k
          BY <1>7, <3>1, <4>2 DEF Connect, Subscribed, ListLeads, Forward, EndStream, Actors
        <4> QED BY <4>1, <4>2
      <3>2. (\E b \in Batches : BeginBatch(b) \/ EndBatch(b)) \/ (\E m \in Leads : Announce(m))
              \/ UNCHANGED vars => stage' = stage
        BY DEF BeginBatch, EndBatch, Announce, vars
      <3> QED BY <1>7, <3>1, <3>2, Apart DEF Next, Done
    <2> QED BY <2>1, <2>2, <2>3
  <1> QED BY <1>5, <1>7

-----------------------------------------------------------------------------
(* The status of a lead                                                    *)

\* Transactions, clients, walks and dashboards leave the updates alone.
LEMMA UpdatesApart ==
    ASSUME TypeOK,
           \/ \E b \in Batches : BeginBatch(b) \/ EndBatch(b)
           \/ \E l \in Leads : Announce(l)
           \/ \E k \in Clients :
                 Connect(k) \/ Subscribed(k) \/ ListLeads(k) \/ Forward(k) \/ EndStream(k)
           \/ \E w \in Walks : StartWalk(w) \/ CountLeads(w) \/ ReadPage(w)
           \/ \E d \in Dashboards : BeginDashboard(d) \/ CountNext(d)
           \/ UNCHANGED vars
    PROVE  UNCHANGED <<status, updateVars>> /\ \A u \in Updates : stage'[u] = stage[u]
  <1> DEFINE Still == UNCHANGED <<status, updateVars>> /\ \A u \in Updates : stage'[u] = stage[u]
  <1>1. ASSUME NEW a \in Actors \ Updates, NEW s, Goto(a, s), NEW u \in Updates
        PROVE  stage'[u] = stage[u]
    BY <1>1 DEF TypeOK, Goto, Actors
  <1>2. ASSUME NEW b \in Batches, BeginBatch(b) \/ EndBatch(b) PROVE Still
    BY <1>2 DEF BeginBatch, EndBatch
  <1>3. ASSUME NEW l \in Leads, Announce(l) PROVE Still
    BY <1>3 DEF Announce
  <1>4. ASSUME NEW k \in Clients,
               Connect(k) \/ Subscribed(k) \/ ListLeads(k) \/ Forward(k) \/ EndStream(k)
        PROVE  Still
    <2>1. k \in Actors \ Updates
      BY BoardConstants DEF Actors
    <2>2. UNCHANGED <<status, updateVars>>
      BY <1>4 DEF Connect, Subscribed, ListLeads, Forward, EndStream
    <2>3. stage' = stage \/ \E s : Goto(k, s)
      BY <1>4 DEF Connect, Subscribed, ListLeads, Forward, EndStream
    <2> QED BY <1>1, <2>1, <2>2, <2>3
  <1>5. ASSUME NEW w \in Walks, StartWalk(w) \/ CountLeads(w) \/ ReadPage(w) PROVE Still
    <2>1. w \in Actors \ Updates
      BY BoardConstants DEF Actors
    <2>2. UNCHANGED <<status, updateVars>>
      BY <1>5 DEF StartWalk, CountLeads, ReadPage, updateVars
    <2>3. \E s : Goto(w, s)
      BY <1>5 DEF StartWalk, CountLeads, ReadPage
    <2> QED BY <1>1, <2>1, <2>2, <2>3
  <1>6. ASSUME NEW d \in Dashboards, BeginDashboard(d) \/ CountNext(d) PROVE Still
    <2>1. d \in Actors \ Updates
      BY BoardConstants DEF Actors
    <2>2. UNCHANGED <<status, updateVars>>
      BY <1>6 DEF BeginDashboard, CountNext
    <2>3. \E s : Goto(d, s)
      BY <1>6 DEF BeginDashboard, CountNext
    <2> QED BY <1>1, <2>1, <2>2, <2>3
  <1>7. CASE UNCHANGED vars
    BY <1>7 DEF vars
  <1> QED BY <1>2, <1>3, <1>4, <1>5, <1>6, <1>7

\* The status that an update writes is its own, and nobody who was answered had
\* begun after the answer to this one, which is still to come.
LEMMA LandingUpdate ==
    ASSUME TypeOK, Updating, NEW x \in Updates, stage[x] = "saved",
           NEW s \in {"committed", "lost"}, Goto(x, s), Lands(x), UNCHANGED updateVars
    PROVE  Updating'
  <1> USE DEF updateVars
  <1>1. stage'[x] = s /\ \A u \in Updates \ {x} : stage'[u] = stage[u]
    BY DEF TypeOK, Goto, Actors
  <1>2. \A u \in Updates : x \notin prior[u]
    BY DEF Updating
  <1>3. \A u \in Updates : \A v \in prior'[u] : stage'[v] = "ok"
    BY <1>1, <1>2 DEF Updating, TypeOK
  <1>4. \A u \in Updates : stage'[u] = "kept" => wanted'[u] = loaded'[u]
    BY <1>1 DEF Updating
  <1>5. ASSUME NEW l \in Leads PROVE Unwritten(l)' \/ \E w \in Updates : LastWriter(l, w)'
    <2>1. CASE l = lead[x]
      <3>1. status'[l] = wanted[x]
        BY <2>1 DEF TypeOK, Lands
      <3>2. LastWriter(l, x)'
        BY <1>1, <1>2, <2>1, <3>1 DEF LastWriter, Effective, Open
      <3> QED BY <3>2
    <2>2. CASE l # lead[x]
      <3>1. status'[l] = status[l]
        BY <2>2 DEF TypeOK, Lands
      <3>2. Effective(l)' = Effective(l) /\ Open(l)' = Open(l)
        BY <1>1, <2>2 DEF Effective, Open
      <3>3. \A w \in Updates : LastWriter(l, w) => LastWriter(l, w)'
        BY <1>1, <2>2, <3>1, <3>2 DEF LastWriter
      <3>4. Unwritten(l) => Unwritten(l)'
        BY <3>1, <3>2 DEF Unwritten
      <3> QED BY <3>3, <3>4 DEF Updating
    <2> QED BY <2>1, <2>2
  <1> QED BY <1>3, <1>4, <1>5 DEF Updating

\* An update that found what it asked for writes nothing: the last writer stays,
\* unless it had been answered before; then it wrote what this one asks for.
LEMMA KeptUpdate ==
    ASSUME TypeOK, Updating, NEW x \in Updates, stage[x] = "kept", Goto(x, "committed"),
           UNCHANGED <<status, updateVars>>
    PROVE  Updating'
  <1> USE DEF updateVars
  <1>1. stage'[x] = "committed" /\ \A u \in Updates \ {x} : stage'[u] = stage[u]
    BY DEF TypeOK, Goto, Actors
  <1>2. \A u \in Updates : x \notin prior[u]
    BY DEF Updating
  <1>3. \A u \in Updates : \A v \in prior'[u] : stage'[v] = "ok"
    BY <1>1, <1>2 DEF Updating, TypeOK
  <1>4. \A u \in Updates : stage'[u] = "kept" => wanted'[u] = loaded'[u]
    BY <1>1 DEF Updating
  <1>5. wanted[x] = loaded[x]
    BY DEF Updating
  <1>6. ASSUME NEW l \in Leads
        PROVE  /\ Effective(l)' = Effective(l) \cup {u \in {x} : lead[x] = l}
               /\ Open(l)' = Open(l) \ {x}
    BY <1>1 DEF Effective, Open
  <1>7. ASSUME NEW l \in Leads, lead[x] = l, loaded[x] = status[l] PROVE LastWriter(l, x)'
    BY <1>1, <1>2, <1>5, <1>7 DEF LastWriter, Effective, Open
  <1>8. ASSUME NEW l \in Leads PROVE Unwritten(l)' \/ \E w \in Updates : LastWriter(l, w)'
    <2>1. CASE Unwritten(l)
      <3>1. CASE lead[x] = l
        <4>1. loaded[x] = status[l]
          BY <2>1, <3>1 DEF Unwritten, Open
        <4> QED BY <1>7, <3>1, <4>1
      <3>2. CASE lead[x] # l
        BY <1>6, <2>1, <3>2 DEF Unwritten
      <3> QED BY <3>1, <3>2
    <2>2. ASSUME NEW w \in Updates, LastWriter(l, w) PROVE \E v \in Updates : LastWriter(l, v)'
      <3>1. CASE lead[x] = l /\ w \in prior[x]
        <4>1. loaded[x] = status[l]
          BY <2>2, <3>1 DEF LastWriter, Open
        <4> QED BY <1>7, <3>1, <4>1
      <3>2. CASE lead[x] # l \/ w \notin prior[x]
        <4>1. stage'[w] \notin {"idle", "rejected"}
          BY <1>1, <2>2 DEF LastWriter
        <4>2. LastWriter(l, w)'
          BY <1>6, <2>2, <3>2, <4>1 DEF LastWriter
        <4> QED BY <4>2
      <3> QED BY <3>1, <3>2
    <2> QED BY <2>1, <2>2 DEF Updating
  <1> QED BY <1>3, <1>4, <1>8 DEF Updating

\* Any other step of an update that has begun.
LEMMA PassingUpdate ==
    ASSUME TypeOK, Updating, NEW x \in Updates, NEW s, Goto(x, s), UNCHANGED <<status, updateVars>>,
           \/ stage[x] = "loaded" /\ s = "saved"
           \/ stage[x] = "loaded" /\ s = "kept" /\ wanted[x] = loaded[x]
           \/ stage[x] = "committed" /\ s = "ok"
           \/ stage[x] \in {"loaded", "saved", "kept", "committed"} /\ s = "lost"
    PROVE  Updating'
  <1> USE DEF updateVars
  <1>1. stage'[x] = s /\ \A u \in Updates \ {x} : stage'[u] = stage[u]
    BY DEF TypeOK, Goto, Actors
  <1>2. \A u \in Updates : x \notin prior[u]
    BY DEF Updating
  <1>3. \A u \in Updates : \A v \in prior'[u] : stage'[v] = "ok"
    BY <1>1, <1>2 DEF Updating, TypeOK
  <1>4. \A u \in Updates : stage'[u] = "kept" => wanted'[u] = loaded'[u]
    BY <1>1 DEF Updating
  <1>5. ASSUME NEW l \in Leads
        PROVE  Effective(l)' \subseteq Effective(l) /\ Open(l)' \subseteq Open(l)
    BY <1>1 DEF Effective, Open
  <1>6. \A u \in Updates : stage[u] \notin {"idle", "rejected"} => stage'[u] \notin {"idle", "rejected"}
    BY <1>1
  <1>7. ASSUME NEW l \in Leads, NEW w \in Updates, LastWriter(l, w) PROVE LastWriter(l, w)'
    BY <1>5, <1>6, <1>7 DEF LastWriter
  <1>8. ASSUME NEW l \in Leads, Unwritten(l) PROVE Unwritten(l)'
    BY <1>5, <1>8 DEF Unwritten
  <1> QED BY <1>3, <1>4, <1>7, <1>8 DEF Updating

\* An update that begins reads what the last writer wrote.
LEMMA BeginningUpdate ==
    ASSUME TypeOK, Updating, NEW x \in Updates, BeginUpdate(x)
    PROVE  Updating'
  <1>1. PICK l \in Named, t \in Statuses :
            /\ lead' = [lead EXCEPT ![x] = l]
            /\ wanted' = [wanted EXCEPT ![x] = t]
            /\ \/ loaded' = [loaded EXCEPT ![x] = status[l]] /\ Goto(x, "loaded")
               \/ loaded' = loaded /\ Goto(x, "rejected")
    BY DEF BeginUpdate
  <1>2. /\ stage[x] = "idle" /\ status' = status
        /\ prior' = [prior EXCEPT ![x] = {v \in Updates : stage[v] = "ok"}]
    BY DEF BeginUpdate
  <1>3. \A u \in Updates \ {x} : /\ stage'[u] = stage[u] /\ prior'[u] = prior[u]
                                /\ lead'[u] = lead[u] /\ wanted'[u] = wanted[u]
                                /\ loaded'[u] = loaded[u]
    BY <1>1, <1>2 DEF TypeOK, Goto, Actors
  <1>4. \/ stage'[x] = "loaded" /\ lead'[x] = l /\ loaded'[x] = status[l]
        \/ stage'[x] = "rejected"
    BY <1>1 DEF TypeOK, Goto, Actors
  <1>5. prior'[x] = {v \in Updates : stage[v] = "ok"}
    BY <1>2 DEF TypeOK
  <1>6. \A u \in Updates : \A v \in prior'[u] : v \in Updates /\ v # x /\ stage[v] = "ok"
    BY <1>2, <1>3, <1>5 DEF Updating, TypeOK
  <1>7. \A u \in Updates : \A v \in prior'[u] : stage'[v] = "ok"
    BY <1>3, <1>6
  <1>8. \A u \in Updates : stage'[u] = "kept" => wanted'[u] = loaded'[u]
    BY <1>3, <1>4 DEF Updating
  <1>9. ASSUME NEW m \in Leads
        PROVE  /\ Effective(m)' = Effective(m)
               /\ \A u \in Open(m)' : (u # x /\ u \in Open(m)) \/ (u = x /\ loaded'[u] = status[m])
    BY <1>2, <1>3, <1>4 DEF Effective, Open
  <1>10. ASSUME NEW m \in Leads, NEW w \in Updates, LastWriter(m, w) PROVE LastWriter(m, w)'
    <2>1. w # x
      BY <1>2, <1>10 DEF LastWriter
    <2>2. /\ lead'[w] = m /\ wanted'[w] = status'[m] /\ stage'[w] \notin {"idle", "rejected"}
      BY <1>2, <1>3, <1>10, <2>1 DEF LastWriter
    <2>3. x \notin Effective(m)
      BY <1>2 DEF Effective
    <2>4. \A v \in Effective(m)' : w \notin prior'[v]
      BY <1>3, <1>9, <1>10, <2>3 DEF LastWriter, Effective
    <2>5. \A y \in Open(m)' : w \in prior'[y] => loaded'[y] = status'[m]
      <3>1. ASSUME NEW y \in Open(m)', w \in prior'[y], y # x PROVE loaded'[y] = status'[m]
        BY <1>2, <1>3, <1>9, <1>10, <3>1 DEF LastWriter, Open
      <3>2. ASSUME NEW y \in Open(m)', y = x PROVE loaded'[y] = status'[m]
        BY <1>2, <1>9, <3>2
      <3> QED BY <3>1, <3>2
    <2> QED BY <2>2, <2>4, <2>5 DEF LastWriter
  <1>11. ASSUME NEW m \in Leads, Unwritten(m) PROVE Unwritten(m)'
    BY <1>2, <1>3, <1>9, <1>11 DEF Unwritten, Open
  <1> QED BY <1>7, <1>8, <1>10, <1>11 DEF Updating

LEMMA UpdatingNext ==
    ASSUME TypeOK, Updating, [Next]_vars
    PROVE  Updating'
  <1>1. ASSUME UNCHANGED <<status, updateVars>>, \A u \in Updates : stage'[u] = stage[u]
        PROVE  Updating'
    <2> USE DEF updateVars
    <2>1. ASSUME NEW l \in Leads PROVE Effective(l)' = Effective(l) /\ Open(l)' = Open(l)
      BY <1>1 DEF Effective, Open
    <2>2. ASSUME NEW l \in Leads, NEW w \in Updates, LastWriter(l, w) PROVE LastWriter(l, w)'
      BY <1>1, <2>1, <2>2 DEF LastWriter
    <2>3. ASSUME NEW l \in Leads, Unwritten(l) PROVE Unwritten(l)'
      BY <1>1, <2>1, <2>3 DEF Unwritten
    <2>4. \A u \in Updates : \A v \in prior'[u] : stage'[v] = "ok"
      BY <1>1 DEF Updating, TypeOK
    <2>5. \A u \in Updates : stage'[u] = "kept" => wanted'[u] = loaded'[u]
      BY <1>1 DEF Updating
    <2> QED BY <2>2, <2>3, <2>4, <2>5 DEF Updating
  <1>2. ASSUME NEW u \in Updates, Save(u) PROVE Updating'
    BY <1>2, PassingUpdate DEF Save
  <1>3. ASSUME NEW u \in Updates, CommitUpdate(u) PROVE Updating'
    <2>1. CASE stage[u] = "saved"
      BY <1>3, <2>1, LandingUpdate DEF CommitUpdate
    <2>2. CASE stage[u] = "kept"
      BY <1>3, <2>2, KeptUpdate DEF CommitUpdate
    <2> QED BY <1>3, <2>1, <2>2 DEF CommitUpdate
  <1>4. ASSUME NEW u \in Updates, Reply(u) PROVE Updating'
    BY <1>4, PassingUpdate DEF Reply
  <1>5. ASSUME NEW u \in Updates, CutOff(u) PROVE Updating'
    <2>1. CASE stage[u] = "saved" /\ Lands(u)
      BY <1>5, <2>1, LandingUpdate DEF CutOff
    <2>2. CASE UNCHANGED status
      BY <1>5, <2>2, PassingUpdate DEF CutOff
    <2> QED BY <1>5, <2>1, <2>2 DEF CutOff
  <1> QED BY <1>1, <1>2, <1>3, <1>4, <1>5, BeginningUpdate, UpdatesApart DEF Next, Done

-----------------------------------------------------------------------------
(* The theorems                                                            *)

LEMMA IInvInit == Init => IInv
  <1> SUFFICES ASSUME Init PROVE IInv
    OBVIOUS
  <1>1. TypeOK
    BY TypeInit
  <1>2. Tables
    BY BoardConstants DEF Init, Tables
  <1>3. \A a \in Actors : stage[a] \in {"idle", "ended"}
    BY DEF Init
  <1>4. Streams
    <2>1. \A k \in Clients : stage[k] \in {"idle", "ended"}
      BY <1>3 DEF Actors
    <2>2. ASSUME NEW l \in saved PROVE BatchOf[l] \in Past
      <3>1. l \in Leads /\ tx[BatchOf[l]] = "there" /\ BatchOf[l] \in Batches
        BY BoardConstants DEF Init, Visible, Stored
      <3>2. tx = [b \in Batches |-> IF b \in Past THEN "there"
                                     ELSE IF tx[b] = "idle" THEN "idle" ELSE "gone"]
        BY BoardConstants DEF Init
      <3> QED BY <3>1, <3>2
    <2> QED BY <2>1, <2>2 DEF Streams
  <1>5. Updating
    <2>1. \A u \in Updates : stage[u] \in {"idle", "ended"} /\ prior[u] = {}
      BY <1>3 DEF Actors, Init
    <2>2. \A l \in Leads : Effective(l) = {} /\ Open(l) = {}
      BY <2>1 DEF Effective, Open
    <2> QED BY <2>1, <2>2 DEF Updating, Unwritten
  <1> QED BY <1>1, <1>2, <1>4, <1>5 DEF IInv

LEMMA IInvNext == IInv /\ [Next]_vars => IInv'
  BY TypeNext, TablesNext, StreamsNext, UpdatingNext DEF IInv

\* Leads stored were announced, every client has heard of them or cannot, and
\* each status has a last writer: inductive, for all transactions and requests.
THEOREM Inductive == Spec => []IInv
  BY IInvInit, IInvNext, PTL DEF Spec

\* Every variable of the board stays within its type.
THEOREM TypeCorrect == Spec => []TypeOK
  <1>1. IInv => TypeOK
    BY DEF IInv
  <1> QED BY <1>1, Inductive, PTL

\* A client whose stream is open and drained lacks a stored lead only for one of
\* the two reasons: no event was published, or none was heard.
THEOREM MissedOnlyWithCause == Spec => []MissedNeedsCause
  <1>1. IInv => MissedNeedsCause
    <2> SUFFICES ASSUME IInv, NEW k \in Clients, stage[k] = "open", queue[k] = <<>>,
                        NEW l \in Visible
                 PROVE  l \in shown[k] \cup silent \cup deaf[k]
      BY DEF MissedNeedsCause
    <2>1. l \in saved /\ l \in Leads
      BY DEF IInv, Tables, Visible
    <2>2. BatchOf[l] \in Past => l \in shown[k]
      BY <2>1 DEF IInv, Streams
    <2>3. Heard(k, l) => l \in shown[k] \cup silent \cup deaf[k]
      BY DEF Heard
    <2> QED BY <2>1, <2>2, <2>3 DEF IInv, Streams
  <1> QED BY <1>1, Inductive, PTL

\* Once an update of a lead was answered, the status is that of an update which
\* no answered one began after.
THEOREM LastUpdateStands == Spec => []LastUpdateHolds
  <1>1. IInv => LastUpdateHolds
    <2> SUFFICES ASSUME IInv, NEW l \in Leads,
                        {u \in Updates : lead[u] = l /\ stage[u] = "ok"} # {}
                 PROVE  \E u \in Updates :
                          /\ lead[u] = l /\ wanted[u] = status[l]
                          /\ stage[u] \notin {"idle", "rejected"}
                          /\ \A v \in {v \in Updates : lead[v] = l /\ stage[v] = "ok"} :
                                u \notin prior[v]
      BY DEF LastUpdateHolds
    <2>1. {u \in Updates : lead[u] = l /\ stage[u] = "ok"} \subseteq Effective(l)
      BY DEF Effective
    <2>2. ~ Unwritten(l)
      BY <2>1 DEF Unwritten
    <2>3. PICK w \in Updates : LastWriter(l, w)
      BY <2>2 DEF IInv, Updating
    <2> QED BY <2>1, <2>3 DEF LastWriter
  <1> QED BY <1>1, Inductive, PTL

-----------------------------------------------------------------------------
(* Listings and counts as leads are stored                                 *)

\* Stored leads stay, with the time they were created at.
LEMMA LeadsStay ==
    ASSUME TypeOK, [Next]_vars
    PROVE  /\ Visible \subseteq Visible'
           /\ \A l \in Visible : Created(l)' = Created(l)
  <1> USE DEF Visible, Stored, Created
  <1>1. ASSUME UNCHANGED <<tx, stamp>>
        PROVE  Visible \subseteq Visible' /\ \A l \in Visible : Created(l)' = Created(l)
    BY <1>1
  <1>2. \A l \in Leads : BatchOf[l] \in Batches
    BY BoardConstants
  <1>3. ASSUME NEW b \in Batches, tx[b] # "there", \A c \in Batches \ {b} : tx'[c] = tx[c],
               \A c \in Batches \ {b} : stamp'[c] = stamp[c]
        PROVE  Visible \subseteq Visible' /\ \A l \in Visible : Created(l)' = Created(l)
    BY <1>2, <1>3
  <1>4. ASSUME NEW b \in Batches, BeginBatch(b)
        PROVE  Visible \subseteq Visible' /\ \A l \in Visible : Created(l)' = Created(l)
    <2>1. tx[b] # "there" /\ \A c \in Batches \ {b} : tx'[c] = tx[c] /\ stamp'[c] = stamp[c]
      BY <1>4 DEF TypeOK, BeginBatch
    <2> QED BY <1>3, <2>1
  <1>5. ASSUME NEW b \in Batches, EndBatch(b)
        PROVE  Visible \subseteq Visible' /\ \A l \in Visible : Created(l)' = Created(l)
    <2>1. tx[b] # "there" /\ stamp' = stamp
      BY <1>5 DEF EndBatch
    <2>2. tx' = [tx EXCEPT ![b] = "there"] \/ tx' = [tx EXCEPT ![b] = "gone"]
      BY <1>5 DEF EndBatch
    <2>3. \A c \in Batches \ {b} : tx'[c] = tx[c]
      BY <2>2 DEF TypeOK
    <2> QED BY <1>3, <2>1, <2>3
  <1>6. ASSUME NEW l \in Leads, Announce(l) PROVE UNCHANGED <<tx, stamp>>
    BY <1>6 DEF Announce
  <1>7. ASSUME NEW k \in Clients,
               Connect(k) \/ Subscribed(k) \/ ListLeads(k) \/ Forward(k) \/ EndStream(k)
        PROVE  UNCHANGED <<tx, stamp>>
    BY <1>7 DEF Connect, Subscribed, ListLeads, Forward, EndStream, leadVars
  <1>8. CASE UNCHANGED vars
    BY <1>1, <1>8 DEF vars, leadVars
  <1>9. CASE \/ \E w \in Walks : StartWalk(w) \/ CountLeads(w) \/ ReadPage(w)
             \/ \E u \in Updates : \/ BeginUpdate(u) \/ Save(u) \/ CommitUpdate(u) \/ Reply(u)
                                   \/ CutOff(u)
             \/ \E d \in Dashboards : BeginDashboard(d) \/ CountNext(d)
    BY <1>1, <1>9, Apart DEF leadVars
  <1> QED BY <1>1, <1>4, <1>5, <1>6, <1>7, <1>8, <1>9 DEF Next, Done

LEMMA CountsGrow ==
    ASSUME NEW S \in SUBSET Leads, NEW T \in SUBSET Leads, S \subseteq T
    PROVE  Cardinality(S) <= Cardinality(T)
  <1>1. IsFiniteSet(T)
    BY BoardConstants, FS_Subset
  <1> QED BY <1>1, FS_Subset

\* More leads may come to stand before a lead of a listing, never fewer, and
\* one created with another stays so.
LEMMA RowsMoveOn ==
    ASSUME TypeOK, [Next]_vars, NEW l \in Visible
    PROVE  /\ Cardinality(Newer(l)) \in Nat /\ Cardinality(Newer(l)') \in Nat
           /\ Cardinality(Newer(l)) <= Cardinality(Newer(l)')
           /\ Twin(l) => Twin(l)'
  <1>1. Visible \subseteq Visible' /\ \A m \in Visible : Created(m)' = Created(m)
    BY LeadsStay
  <1>2. Newer(l) \subseteq Newer(l)' /\ (Twin(l) => Twin(l)')
    BY <1>1 DEF Newer, Twin
  <1>3. Newer(l) \in SUBSET Leads /\ Newer(l)' \in SUBSET Leads
    BY DEF Newer, Visible
  <1>4. Cardinality(Newer(l)) \in Nat /\ Cardinality(Newer(l)') \in Nat
    BY <1>3, BoardConstants, FS_Subset, FS_CardinalityType
  <1> QED BY <1>2, <1>3, <1>4, CountsGrow

LEMMA PagesInOrder ==
    ASSUME NEW i \in Nat \ {0}, NEW j \in Nat \ {0}, i <= j
    PROVE  OffsetPage(i) \in Nat /\ OffsetPage(j) \in Nat /\ OffsetPage(i) <= OffsetPage(j)
  <1>1. PageSize \in Nat \ {0}
    BY BoardConstants
  <1>2. i - 1 \in Nat /\ j - 1 \in Nat /\ i - 1 <= j - 1
    OBVIOUS
  <1>3. \A a, b \in Nat : a <= b => /\ a \div PageSize \in Nat /\ b \div PageSize \in Nat
                                    /\ a \div PageSize <= b \div PageSize
    BY <1>1
  <1>4. /\ (i - 1) \div PageSize \in Nat /\ (j - 1) \div PageSize \in Nat
        /\ (i - 1) \div PageSize <= (j - 1) \div PageSize
    BY <1>2, <1>3
  <1> QED BY <1>4 DEF OffsetPage

\* The pages that a count of n makes are enough for the first n rows.
LEMMA PagesSuffice ==
    ASSUME NEW i \in Nat \ {0}, NEW n \in Nat, i <= n
    PROVE  OffsetPage(i) <= TotalPages(n) /\ TotalPages(n) \in Nat
  <1>1. PageSize \in Nat \ {0}
    BY BoardConstants
  <1>2. \A a \in Nat : (a + PageSize) \div PageSize = (a \div PageSize) + 1
    BY <1>1
  <1>3. n - 1 \in Nat /\ n \in Nat \ {0} /\ n + PageSize - 1 = (n - 1) + PageSize
    BY <1>1
  <1>4. TotalPages(n) = OffsetPage(n)
    BY <1>2, <1>3 DEF TotalPages, OffsetPage
  <1> QED BY <1>3, <1>4, PagesInOrder

\* However a listing is sorted, a lead that no other was created with stands
\* after those created later, and after nobody else.
LEMMA RowOf ==
    ASSUME TypeOK, NEW f \in Orders(Visible), NEW l \in Visible, ~ Twin(l)
    PROVE  \E i \in DOMAIN f : f[i] = l /\ i = Cardinality(Newer(l)) + 1
  <1> DEFINE n == Cardinality(Visible)
  <1>1. IsFiniteSet(Visible) /\ n \in Nat /\ Visible \in SUBSET Leads
    BY BoardConstants, FS_Subset, FS_CardinalityType DEF Visible
  <1>2. /\ f \in [1 .. n -> Visible]
        /\ \A i, j \in 1 .. n : i < j => f[i] # f[j] /\ Created(f[i]) >= Created(f[j])
    BY DEF Orders
  <1> HIDE DEF n
  <1>3. \A o \in Visible : Created(o) \in Nat
    BY BoardConstants DEF TypeOK, Created, Visible
  <1>4. f \in Injection(1 .. n, Visible)
    <2>1. ASSUME NEW i \in 1 .. n, NEW j \in 1 .. n, f[i] = f[j] PROVE i = j
      BY <1>1, <1>2, <2>1
    <2> QED BY <1>2, <2>1 DEF Injection, IsInjective
  <1>5. f \in Surjection(1 .. n, Visible)
    <2>1. Cardinality(1 .. n) = n
      BY <1>1, FS_Interval
    <2> QED BY <1>1, <1>4, <2>1, FS_Injection DEF n
  <1>6. PICK i \in 1 .. n : f[i] = l
    BY <1>5 DEF Surjection
  <1>7. i \in Nat /\ i - 1 \in Nat /\ 1 .. (i - 1) \subseteq 1 .. n
    BY <1>1, <1>6
  <1>8. ASSUME NEW j \in 1 .. (i - 1) PROVE f[j] \in Newer(l)
    <2>1. j \in 1 .. n /\ j < i
      BY <1>7
    <2>2. f[j] \in Visible /\ f[j] # l /\ Created(f[j]) >= Created(l)
      BY <1>2, <1>6, <2>1
    <2>3. Created(f[j]) # Created(l)
      BY <2>2 DEF Twin
    <2> QED BY <1>3, <2>2, <2>3 DEF Newer
  <1>9. ASSUME NEW o \in Newer(l) PROVE \E j \in 1 .. (i - 1) : f[j] = o
    <2>1. o \in Visible /\ Created(o) > Created(l)
      BY DEF Newer
    <2>2. PICK j \in 1 .. n : f[j] = o
      BY <1>5, <2>1 DEF Surjection
    <2>3. ~ (i < j) /\ i # j
      BY <1>2, <1>3, <1>6, <2>1, <2>2
    <2>4. j \in 1 .. (i - 1)
      BY <1>1, <1>6, <2>3
    <2> QED BY <2>2, <2>4
  <1> DEFINE g == [j \in 1 .. (i - 1) |-> f[j]]
  <1>10. g \in [1 .. (i - 1) -> Newer(l)]
    BY <1>8
  <1>11. \A j, k \in 1 .. (i - 1) : g[j] = g[k] => j = k
    BY <1>4, <1>7 DEF Injection, IsInjective
  <1>12. \A o \in Newer(l) : \E j \in 1 .. (i - 1) : g[j] = o
    BY <1>9
  <1> HIDE DEF g
  <1>13. g \in Bijection(1 .. (i - 1), Newer(l))
    BY <1>10, <1>11, <1>12 DEF Bijection, Injection, Surjection, IsInjective
  <1>14. Cardinality(Newer(l)) = i - 1
    BY <1>7, <1>13, FS_CountingElements DEF ExistsBijection
  <1> QED BY <1>2, <1>6, <1>7, <1>14

\* The other actors, and the streams and transactions, leave walk w alone.
LEMMA WalkApart ==
    ASSUME TypeOK, [Next]_vars, NEW w \in Walks, ~ StartWalk(w), ~ CountLeads(w), ~ ReadPage(w)
    PROVE  /\ stage'[w] = stage[w] /\ shown'[w] = shown[w] /\ page'[w] = page[w]
           /\ total'[w] = total[w] /\ present'[w] = present[w] /\ seen'[w] = seen[w]
  <1> DEFINE Still == /\ stage'[w] = stage[w] /\ shown'[w] = shown[w] /\ page'[w] = page[w]
                      /\ total'[w] = total[w] /\ present'[w] = present[w] /\ seen'[w] = seen[w]
  <1> USE DEF walkVars
  <1>1. ASSUME NEW a \in Actors \ {w}, NEW s, Goto(a, s) PROVE stage'[w] = stage[w]
    BY <1>1 DEF TypeOK, Goto, Actors
  <1>2. ASSUME NEW b \in Batches, BeginBatch(b) \/ EndBatch(b) PROVE Still
    BY <1>2 DEF BeginBatch, EndBatch
  <1>3. ASSUME NEW l \in Leads, Announce(l) PROVE Still
    BY <1>3 DEF Announce
  <1>4. ASSUME NEW k \in Clients,
               Connect(k) \/ Subscribed(k) \/ ListLeads(k) \/ Forward(k) \/ EndStream(k)
        PROVE  Still
    <2>1. k \in Actors \ {w}
      BY BoardConstants DEF Actors
    <2>2. UNCHANGED walkVars
      BY <1>4 DEF Connect, Subscribed, ListLeads, Forward, EndStream
    <2>3. stage' = stage \/ \E s : Goto(k, s)
      BY <1>4 DEF Connect, Subscribed, ListLeads, Forward, EndStream
    <2>4. shown' = shown \/ \E S : shown' = [shown EXCEPT ![k] = S]
      BY <1>4 DEF Connect, Subscribed, ListLeads, Forward, EndStream
    <2>5. shown'[w] = shown[w]
      BY <2>1, <2>4 DEF TypeOK
    <2> QED BY <1>1, <2>1, <2>2, <2>3, <2>5
  <1>5. ASSUME NEW v \in Walks \ {w}, StartWalk(v) \/ CountLeads(v) \/ ReadPage(v) PROVE Still
    <2>1. v \in Actors \ {w}
      BY DEF Actors
    <2>2. \E s : Goto(v, s)
      BY <1>5 DEF StartWalk, CountLeads, ReadPage
    <2>3. /\ shown' = shown \/ \E S : shown' = [shown EXCEPT ![v] = S]
          /\ page' = page \/ \E n : page' = [page EXCEPT ![v] = n]
          /\ total' = total \/ \E n : total' = [total EXCEPT ![v] = n]
          /\ present' = present \/ \E S : present' = [present EXCEPT ![v] = S]
          /\ seen' = seen \/ \E n : seen' = [seen EXCEPT ![v] = n]
      BY <1>5 DEF StartWalk, CountLeads, ReadPage
    <2>4. /\ shown'[w] = shown[w] /\ page'[w] = page[w] /\ total'[w] = total[w]
          /\ present'[w] = present[w] /\ seen'[w] = seen[w]
      BY <2>1, <2>3 DEF TypeOK
    <2> QED BY <1>1, <2>1, <2>2, <2>4
  <1>6. ASSUME NEW u \in Updates,
               BeginUpdate(u) \/ Save(u) \/ CommitUpdate(u) \/ Reply(u) \/ CutOff(u)
        PROVE  Still
    <2>1. u \in Actors \ {w}
      BY BoardConstants DEF Actors
    <2>2. UNCHANGED <<shown, walkVars>> /\ \E s : Goto(u, s)
      BY <1>6 DEF BeginUpdate, Save, CommitUpdate, Reply, CutOff
    <2> QED BY <1>1, <2>1, <2>2
  <1>7. ASSUME NEW d \in Dashboards, BeginDashboard(d) \/ CountNext(d) PROVE Still
    <2>1. d \in Actors \ {w}
      BY BoardConstants DEF Actors
    <2>2. UNCHANGED <<shown, walkVars>> /\ \E s : Goto(d, s)
      BY <1>7 DEF BeginDashboard, CountNext
    <2> QED BY <1>1, <2>1, <2>2
  <1>8. CASE UNCHANGED vars
    BY <1>8 DEF vars
  <1> QED BY <1>2, <1>3, <1>4, <1>5, <1>6, <1>7, <1>8 DEF Next, Done

\* What Walking says of one walk.
WalkOK(w) ==
    /\ stage[w] = "ended" =>
          \A l \in present[w] \ shown[w] :
              \/ \E o \in Visible \ {l} : Created(o) = Created(l)
              \/ total[w] < seen[w]
    /\ present[w] \subseteq Visible
    /\ stage[w] = "idle" => page[w] = 1
    /\ stage[w] \in {"counting", "reading"} =>
          \A l \in present[w] \ shown[w] :
              Twin(l) \/ page[w] <= OffsetPage(Cardinality(Newer(l)) + 1)

LEMMA WalkByWalk == Walking <=> \A w \in Walks : WalkOK(w)
  BY DEF Walking, WalkNeedsCause, WalkOK

\* The row of a lead that a walk still misses cannot fall behind its page.
LEMMA WalkWaits ==
    ASSUME TypeOK, [Next]_vars, NEW w \in Walks, WalkOK(w),
           stage'[w] = stage[w], shown'[w] = shown[w], page'[w] = page[w],
           total'[w] = total[w], present'[w] = present[w], seen'[w] = seen[w]
    PROVE  WalkOK(w)'
  <1>1. Visible \subseteq Visible' /\ present[w] \subseteq Visible
    BY LeadsStay DEF WalkOK
  <1>2. ASSUME NEW l \in present[w] PROVE Twin(l) => Twin(l)'
    BY <1>1, RowsMoveOn
  <1>3. stage'[w] = "ended" =>
          \A l \in present'[w] \ shown'[w] : Twin(l)' \/ total'[w] < seen'[w]
    BY <1>2 DEF WalkOK, Twin
  <1>4. ASSUME NEW l \in present[w], page[w] <= OffsetPage(Cardinality(Newer(l)) + 1)
        PROVE  page'[w] <= OffsetPage(Cardinality(Newer(l)') + 1)
    <2> DEFINE i == Cardinality(Newer(l)) + 1
               j == Cardinality(Newer(l)') + 1
    <2>1. i \in Nat \ {0} /\ j \in Nat \ {0} /\ i <= j
      BY <1>1, RowsMoveOn
    <2>2. OffsetPage(i) \in Nat /\ OffsetPage(j) \in Nat /\ OffsetPage(i) <= OffsetPage(j)
      <3> HIDE DEF i, j
      <3> QED BY <2>1, PagesInOrder
    <2>3. page[w] \in Nat
      BY DEF TypeOK
    <2> QED BY <1>4, <2>2, <2>3
  <1>5. ASSUME NEW l \in present[w] PROVE OffsetPage(Cardinality(Newer(l)) + 1)'
                                           = OffsetPage(Cardinality(Newer(l)') + 1)
    BY DEF OffsetPage
  <1>6. stage'[w] \in {"counting", "reading"} =>
          \A l \in present'[w] \ shown'[w] :
              Twin(l)' \/ page'[w] <= OffsetPage(Cardinality(Newer(l)) + 1)'
    BY <1>2, <1>4, <1>5 DEF WalkOK
  <1> QED BY <1>1, <1>3, <1>6 DEF WalkOK, Twin

LEMMA WalkStarts ==
    ASSUME TypeOK, NEW w \in Walks, WalkOK(w), StartWalk(w) \/ CountLeads(w)
    PROVE  WalkOK(w)'
  <1>1. UNCHANGED <<tx, stamp>> /\ page' = page /\ shown' = shown
    BY DEF StartWalk, CountLeads, leadVars
  <1>2. Visible' = Visible /\ \A l : Newer(l)' = Newer(l) /\ Twin(l)' = Twin(l)
    BY <1>1 DEF Visible, Stored, Newer, Twin, Created
  <1>3. CASE CountLeads(w)
    <2>1. stage[w] = "counting" /\ stage'[w] = "reading" /\ present' = present
      BY <1>3 DEF CountLeads, Goto, TypeOK, Actors
    <2> QED BY <1>1, <1>2, <2>1 DEF WalkOK, OffsetPage
  <1>4. CASE StartWalk(w)
    <2>1. stage[w] = "idle" /\ stage'[w] = "counting" /\ present'[w] = Visible
      BY <1>4 DEF StartWalk, Goto, TypeOK, Actors
    <2>2. page'[w] = 1
      BY <1>1, <2>1 DEF WalkOK
    <2>3. ASSUME NEW l \in Visible PROVE 1 <= OffsetPage(Cardinality(Newer(l)) + 1)
      <3>1. Newer(l) \in SUBSET Leads
        BY DEF Newer, Visible
      <3>2. Cardinality(Newer(l)) \in Nat
        BY <3>1, BoardConstants, FS_Subset, FS_CardinalityType
      <3>3. Cardinality(Newer(l)) \div PageSize \in Nat
        BY <3>2, BoardConstants
      <3> QED BY <3>2, <3>3 DEF OffsetPage
    <2> QED BY <1>2, <2>1, <2>2, <2>3 DEF WalkOK, OffsetPage
  <1> QED BY <1>3, <1>4

\* A page read leaves out only rows of later pages, and the last page those that
\* the count did not know of.
LEMMA WalkReads ==
    ASSUME TypeOK, NEW w \in Walks, WalkOK(w), ReadPage(w)
    PROVE  WalkOK(w)'
  <1>1. /\ UNCHANGED <<tx, stamp, total, present>>
        /\ stage[w] = "reading" /\ seen'[w] = Cardinality(Visible)
    BY DEF ReadPage, leadVars, TypeOK
  <1>2. Visible' = Visible /\ \A l : Newer(l)' = Newer(l) /\ Twin(l)' = Twin(l)
    BY <1>1 DEF Visible, Stored, Newer, Twin, Created
  <1>3. PICK f \in Orders(Visible) :
          shown'[w] = shown[w] \cup {f[i] : i \in {i \in DOMAIN f : OffsetPage(i) = page[w]}}
    BY DEF ReadPage, TypeOK
  <1>4. page[w] \in Nat /\ total[w] \in Nat
    BY BoardConstants, FS_CardinalityType DEF TypeOK
  <1>5. Cardinality(Visible) \in Nat
    BY BoardConstants, FS_Subset, FS_CardinalityType DEF Visible
  <1>6. ASSUME NEW l \in present[w] \ shown'[w], ~ Twin(l)
        PROVE  \E i \in 1 .. Cardinality(Visible) :
                  i = Cardinality(Newer(l)) + 1 /\ page[w] < OffsetPage(i)
    <2>1. l \in Visible
      BY <1>6 DEF WalkOK
    <2>2. PICK i \in DOMAIN f : f[i] = l /\ i = Cardinality(Newer(l)) + 1
      BY <1>6, <2>1, RowOf
    <2>3. OffsetPage(i) # page[w]
      BY <1>3, <1>6, <2>2
    <2>4. page[w] <= OffsetPage(i)
      BY <1>1, <1>3, <1>6, <2>2 DEF WalkOK
    <2>5. i \in 1 .. Cardinality(Visible)
      BY DEF Orders
    <2>6. OffsetPage(i) \in Nat
      BY <1>5, <2>5, PagesInOrder
    <2> QED BY <1>4, <2>2, <2>3, <2>4, <2>5, <2>6
  <1>7. ASSUME NEW i \in 1 .. Cardinality(Visible) PROVE OffsetPage(i) \in Nat
    BY <1>5, PagesInOrder
  <1>8. CASE page[w] < TotalPages(total[w])
    <2>1. stage'[w] = "counting" /\ page'[w] = page[w] + 1
      BY <1>8 DEF ReadPage, Goto, TypeOK, Actors
    <2>2. ASSUME NEW l \in present[w] \ shown'[w], ~ Twin(l)
          PROVE  page'[w] <= OffsetPage(Cardinality(Newer(l)) + 1)
      BY <1>4, <1>6, <1>7, <2>1, <2>2
    <2> QED BY <1>1, <1>2, <2>1, <2>2 DEF WalkOK, OffsetPage
  <1>9. CASE ~ (page[w] < TotalPages(total[w]))
    <2>1. stage'[w] = "ended"
      BY <1>9 DEF ReadPage, Goto, TypeOK, Actors
    <2>2. ASSUME NEW l \in present[w] \ shown'[w], ~ Twin(l)
          PROVE  total[w] < seen'[w]
      <3>1. PICK i \in 1 .. Cardinality(Visible) : page[w] < OffsetPage(i)
        BY <1>6, <2>2
      <3>2. i \in Nat \ {0}
        BY <1>5
      <3>3. i <= total[w] => OffsetPage(i) <= TotalPages(total[w]) /\ TotalPages(total[w]) \in Nat
        BY <1>4, <3>2, PagesSuffice
      <3>4. ~ (i <= total[w])
        BY <1>4, <1>7, <1>9, <3>1, <3>3
      <3> QED BY <1>1, <1>4, <1>5, <3>4
    <2> QED BY <1>1, <1>2, <2>1, <2>2 DEF WalkOK, Twin
  <1> QED BY <1>8, <1>9

LEMMA WalkingNext ==
    ASSUME TypeOK, Walking, [Next]_vars
    PROVE  Walking'
  <1>1. ASSUME NEW w \in Walks PROVE WalkOK(w)'
    <2>1. WalkOK(w)
      BY WalkByWalk
    <2> QED BY <2>1, WalkApart, WalkWaits, WalkStarts, WalkReads
  <1>2. (\A w \in Walks : WalkOK(w)') => Walking'
    BY DEF Walking, WalkNeedsCause, WalkOK
  <1> QED BY <1>1, <1>2

-----------------------------------------------------------------------------
(* Dashboards                                                              *)

\* The other actors leave dashboard d alone.
LEMMA DashboardApart ==
    ASSUME TypeOK, [Next]_vars, NEW d \in Dashboards, ~ BeginDashboard(d), ~ CountNext(d)
    PROVE  stage'[d] = stage[d] /\ figures'[d] = figures[d] /\ now'[d] = now[d]
  <1> DEFINE Still == stage'[d] = stage[d] /\ figures'[d] = figures[d] /\ now'[d] = now[d]
  <1> USE DEF boardVars
  <1>1. ASSUME NEW a \in Actors \ {d}, NEW s, Goto(a, s) PROVE stage'[d] = stage[d]
    BY <1>1 DEF TypeOK, Goto, Actors
  <1>2. ASSUME NEW b \in Batches, BeginBatch(b) \/ EndBatch(b) PROVE Still
    BY <1>2 DEF BeginBatch, EndBatch
  <1>3. ASSUME NEW l \in Leads, Announce(l) PROVE Still
    BY <1>3 DEF Announce
  <1>4. ASSUME NEW k \in Clients,
               Connect(k) \/ Subscribed(k) \/ ListLeads(k) \/ Forward(k) \/ EndStream(k)
        PROVE  Still
    <2>1. k \in Actors \ {d}
      BY BoardConstants DEF Actors
    <2>2. UNCHANGED boardVars /\ (stage' = stage \/ \E s : Goto(k, s))
      BY <1>4 DEF Connect, Subscribed, ListLeads, Forward, EndStream
    <2> QED BY <1>1, <2>1, <2>2
  <1>5. ASSUME NEW w \in Walks, StartWalk(w) \/ CountLeads(w) \/ ReadPage(w) PROVE Still
    <2>1. w \in Actors \ {d}
      BY BoardConstants DEF Actors
    <2>2. UNCHANGED boardVars /\ \E s : Goto(w, s)
      BY <1>5 DEF StartWalk, CountLeads, ReadPage
    <2> QED BY <1>1, <2>1, <2>2
  <1>6. ASSUME NEW u \in Updates,
               BeginUpdate(u) \/ Save(u) \/ CommitUpdate(u) \/ Reply(u) \/ CutOff(u)
        PROVE  Still
    <2>1. u \in Actors \ {d}
      BY BoardConstants DEF Actors
    <2>2. UNCHANGED boardVars /\ \E s : Goto(u, s)
      BY <1>6 DEF BeginUpdate, Save, CommitUpdate, Reply, CutOff
    <2> QED BY <1>1, <2>1, <2>2
  <1>7. ASSUME NEW e \in Dashboards \ {d}, BeginDashboard(e) \/ CountNext(e) PROVE Still
    <2>1. e \in Actors \ {d} /\ \E s : Goto(e, s)
      BY <1>7 DEF Actors, BeginDashboard, CountNext
    <2>2. now' = now \/ \E n : now' = [now EXCEPT ![e] = n]
      BY <1>7 DEF BeginDashboard, CountNext
    <2>3. figures' = figures \/ \E f, n : figures' = [figures EXCEPT ![e][f] = n]
      BY <1>7 DEF BeginDashboard, CountNext
    <2>4. now'[d] = now[d]
      BY <2>2 DEF TypeOK
    <2>5. figures'[d] = figures[d]
      BY <2>3 DEF TypeOK
    <2> QED BY <1>1, <2>1, <2>4, <2>5
  <1>8. CASE UNCHANGED vars
    BY <1>8 DEF vars
  <1> QED BY <1>2, <1>3, <1>4, <1>5, <1>6, <1>7, <1>8 DEF Next, Done

StatusesKnown == \A l \in Leads : status[l] \notin Known => l \in odd

LEMMA StatusesNext ==
    ASSUME TypeOK, StatusesKnown, [Next]_vars
    PROVE  StatusesKnown' /\ odd \subseteq odd'
  <1>1. ASSUME UNCHANGED <<status, odd>> PROVE StatusesKnown' /\ odd \subseteq odd'
    BY <1>1 DEF StatusesKnown
  <1>2. ASSUME NEW u \in Updates, Lands(u) PROVE StatusesKnown' /\ odd \subseteq odd'
    BY <1>2 DEF Lands, StatusesKnown, TypeOK
  <1>3. ASSUME NEW b \in Batches, BeginBatch(b) \/ EndBatch(b) PROVE UNCHANGED <<status, odd>>
    BY <1>3 DEF BeginBatch, EndBatch
  <1>4. ASSUME NEW l \in Leads, Announce(l) PROVE UNCHANGED <<status, odd>>
    BY <1>4 DEF Announce
  <1>5. ASSUME NEW k \in Clients,
               Connect(k) \/ Subscribed(k) \/ ListLeads(k) \/ Forward(k) \/ EndStream(k)
        PROVE  UNCHANGED <<status, odd>>
    BY <1>5 DEF Connect, Subscribed, ListLeads, Forward, EndStream
  <1>6. ASSUME NEW w \in Walks, StartWalk(w) \/ CountLeads(w) \/ ReadPage(w)
        PROVE  UNCHANGED <<status, odd>>
    BY <1>6 DEF StartWalk, CountLeads, ReadPage
  <1>7. ASSUME NEW u \in Updates,
               BeginUpdate(u) \/ Save(u) \/ CommitUpdate(u) \/ Reply(u) \/ CutOff(u)
        PROVE  UNCHANGED <<status, odd>> \/ Lands(u)
    BY <1>7 DEF BeginUpdate, Save, CommitUpdate, Reply, CutOff
  <1>8. ASSUME NEW d \in Dashboards, BeginDashboard(d) \/ CountNext(d)
        PROVE  UNCHANGED <<status, odd>>
    BY <1>8 DEF BeginDashboard, CountNext
  <1>9. CASE UNCHANGED vars
    BY <1>1, <1>9 DEF vars
  <1> QED BY <1>1, <1>2, <1>3, <1>4, <1>5, <1>6, <1>7, <1>8, <1>9 DEF Next, Done

\* What a period counts at a time is a number, grows with the leads, and is
\* within the whole.
LEMMA PeriodCounts ==
    ASSUME NEW p, NEW time
    PROVE  /\ CountSince(p, time) \in Nat /\ Cardinality(Visible) \in Nat
           /\ CountSince(p, time) <= Cardinality(Visible)
  <1>1. Visible \in SUBSET Leads /\ {l \in Visible \cap Since[p] : Created(l) <= time} \in SUBSET Leads
    BY DEF Visible
  <1>2. IsFiniteSet(Visible) /\ IsFiniteSet({l \in Visible \cap Since[p] : Created(l) <= time})
    BY <1>1, BoardConstants, FS_Subset
  <1> QED BY <1>1, <1>2, CountsGrow, FS_CardinalityType DEF CountSince

LEMMA PeriodsLie ==
    ASSUME NEW p \in Periods, NEW q \in Periods, Since[p] \subseteq Since[q], NEW time
    PROVE  CountSince(p, time) <= CountSince(q, time)
  <1>1. {l \in Visible \cap Since[p] : Created(l) <= time}
          \subseteq {l \in Visible \cap Since[q] : Created(l) <= time}
    OBVIOUS
  <1> QED BY <1>1, CountsGrow DEF CountSince, Visible

LEMMA PeriodsGrow ==
    ASSUME TypeOK, [Next]_vars, NEW p \in Periods, NEW time
    PROVE  CountSince(p, time) <= Cardinality({l \in Visible' \cap Since[p] : Created(l)' <= time})
  <1>1. {l \in Visible \cap Since[p] : Created(l) <= time}
          \subseteq {l \in Visible' \cap Since[p] : Created(l)' <= time}
    BY LeadsStay
  <1> QED BY <1>1, CountsGrow DEF CountSince, Visible

\* Every stored lead is in the count by status or has had a status of no count.
LEMMA StatusMissesOdd ==
    ASSUME TypeOK, StatusesKnown
    PROVE  /\ CountByStatus \in Nat /\ Cardinality(odd) \in Nat
           /\ Cardinality(Visible) <= CountByStatus + Cardinality(odd)
  <1> DEFINE K == {l \in Visible : status[l] \in Known}
  <1>1. K \in SUBSET Leads /\ odd \in SUBSET Leads /\ Visible \subseteq K \cup odd
    BY DEF Visible, StatusesKnown, TypeOK
  <1>2. IsFiniteSet(K) /\ IsFiniteSet(odd)
    BY <1>1, BoardConstants, FS_Subset
  <1>3. Cardinality(Visible) <= Cardinality(K \cup odd)
    BY <1>1, CountsGrow DEF Visible
  <1>4. Cardinality(K \cup odd) = Cardinality(K) + Cardinality(odd) - Cardinality(K \cap odd)
    BY <1>2, FS_Union
  <1>5. Cardinality(K) \in Nat /\ Cardinality(odd) \in Nat /\ Cardinality(K \cap odd) \in Nat
    BY <1>1, <1>2, BoardConstants, FS_Subset, FS_CardinalityType
  <1>6. Cardinality(Visible) \in Nat
    BY BoardConstants, FS_Subset, FS_CardinalityType DEF Visible
  <1> QED BY <1>3, <1>4, <1>5, <1>6 DEF CountByStatus

\* What Counting says of one dashboard.
BoundOK(d) ==
    \A f \in Figures \ {"days"} :
        figures[d][f] <= IF figures[d]["status"] = -1 THEN Cardinality(Visible)
                         ELSE figures[d]["status"] + Cardinality(odd)
NestOK(d) == Within(d, "today", "week") /\ Within(d, "today", "month") /\ Within(d, "week", "days")
StageOK(d) ==
    /\ stage[d] = "idle" => \A f \in Figures : figures[d][f] = -1
    /\ stage[d] = "ended" /\ figures[d]["total"] # -1 => \A f \in Figures : figures[d][f] # -1

LEMMA DashboardByDashboard ==
    Counting <=> StatusesKnown /\ \A d \in Dashboards : BoundOK(d) /\ NestOK(d) /\ StageOK(d)
  BY DEF Counting, StatusesKnown, BoundOK, NestOK, StageOK

LEMMA FigureIsInt ==
    ASSUME TypeOK, NEW d \in Dashboards, NEW f \in Figures
    PROVE  figures[d][f] \in Int /\ figures[d][f] >= -1
  <1>1. Cardinality(Leads) \in Nat
    BY BoardConstants, FS_CardinalityType
  <1> QED BY <1>1 DEF TypeOK

\* While the figures of a dashboard stay, what they are held against only grows.
LEMMA DashboardWaits ==
    ASSUME TypeOK, StatusesKnown, [Next]_vars, NEW d \in Dashboards,
           BoundOK(d), NestOK(d), StageOK(d),
           figures'[d] = figures[d], now'[d] = now[d], stage'[d] = stage[d]
    PROVE  BoundOK(d)' /\ NestOK(d)' /\ StageOK(d)'
  <1>1. TypeOK' /\ odd \subseteq odd'
    BY TypeNext, StatusesNext
  <1>2. Cardinality(Visible) <= Cardinality(Visible')
    BY LeadsStay, CountsGrow DEF Visible
  <1>3. Cardinality(odd) <= Cardinality(odd')
    BY <1>1, CountsGrow DEF TypeOK
  <1>4. /\ Cardinality(Visible) \in Nat /\ Cardinality(Visible') \in Nat
        /\ Cardinality(odd) \in Nat /\ Cardinality(odd') \in Nat
    BY <1>1, BoardConstants, FS_Subset, FS_CardinalityType DEF Visible, TypeOK
  <1>5. \A f \in Figures : figures[d][f] \in Int
    BY FigureIsInt
  <1>6. BoundOK(d)'
    BY <1>2, <1>3, <1>4, <1>5 DEF BoundOK, Figures
  <1>7. ASSUME NEW p \in Periods, NEW q \in Periods, Within(d, p, q) PROVE Within(d, p, q)'
    <2> DEFINE S == {l \in Visible' \cap Since[q] : Created(l)' <= now[d]}
    <2>1. CountSince(q, now[d]) <= Cardinality(S) /\ CountSince(q, now[d]) \in Nat
      BY PeriodsGrow, PeriodCounts
    <2>2. Cardinality(S) \in Nat
      BY BoardConstants, FS_Subset, FS_CardinalityType DEF Visible
    <2>3. CountSince(q, now[d])' = Cardinality(S)
      BY DEF CountSince
    <2> HIDE DEF S
    <2> QED BY <1>5, <1>7, <2>1, <2>2, <2>3 DEF Within, Figures
  <1>8. NestOK(d)'
    BY <1>7 DEF NestOK, Periods
  <1> QED BY <1>6, <1>8 DEF StageOK

LEMMA DashboardBegins ==
    ASSUME TypeOK, NEW d \in Dashboards, StageOK(d), BeginDashboard(d)
    PROVE  BoundOK(d)' /\ NestOK(d)' /\ StageOK(d)'
  <1>1. /\ stage[d] = "idle" /\ stage'[d] = "counting" /\ figures' = figures
        /\ UNCHANGED <<tx, stamp>>
    BY DEF BeginDashboard, Goto, TypeOK, Actors, leadVars
  <1>2. \A f \in Figures : figures'[d][f] = -1
    BY <1>1 DEF StageOK
  <1>3. Cardinality(Visible)' \in Nat
    BY BoardConstants, FS_Subset, FS_CardinalityType DEF Visible
  <1>4. \A q : CountSince(q, now[d])' \in Nat
    <2>1. \A q : {l \in Visible' \cap Since[q] : Created(l)' <= now'[d]} \in SUBSET Leads
      BY DEF Visible
    <2>2. \A q : Cardinality({l \in Visible' \cap Since[q] : Created(l)' <= now'[d]}) \in Nat
      BY <2>1, BoardConstants, FS_Subset, FS_CardinalityType
    <2> QED BY <2>2 DEF CountSince
  <1>5. BoundOK(d)'
    BY <1>2, <1>3 DEF BoundOK, Figures
  <1>6. NestOK(d)'
    BY <1>2, <1>4 DEF NestOK, Within, Figures, Periods
  <1> QED BY <1>1, <1>2, <1>5, <1>6 DEF StageOK

\* Each figure is counted when those before it are and those after it are not.
LEMMA DashboardCounts ==
    ASSUME TypeOK, StatusesKnown, NEW d \in Dashboards, BoundOK(d), NestOK(d), CountNext(d)
    PROVE  BoundOK(d)' /\ NestOK(d)' /\ StageOK(d)'
  <1>1. PICK i \in DOMAIN Order :
            /\ \A j \in DOMAIN Order : j < i <=> figures[d][Order[j]] # -1
            /\ figures' = [figures EXCEPT ![d][Order[i]] = Count(Order[i], now[d])]
            /\ Goto(d, IF i = Len(Order) THEN "ended" ELSE "counting")
    BY DEF CountNext
  <1>2. UNCHANGED <<leadVars, status, odd, now>>
    BY DEF CountNext
  <1>3. Cardinality(Visible)' = Cardinality(Visible) /\ \A q : CountSince(q, now[d])' = CountSince(q, now[d])
    BY <1>2 DEF leadVars, Visible, Stored, CountSince, Created
  <1>4. /\ \A q : CountSince(q, now[d]) \in Nat /\ CountSince(q, now[d]) <= Cardinality(Visible)
        /\ Cardinality(Visible) \in Nat
    BY PeriodCounts
  <1>5. /\ CountByStatus \in Nat /\ Cardinality(odd) \in Nat
        /\ Cardinality(Visible) <= CountByStatus + Cardinality(odd)
    BY StatusMissesOdd
  <1>6. \A f \in Figures : figures[d][f] \in Int /\ figures[d][f] >= -1
    BY FigureIsInt
  <1>7. /\ CountSince("today", now[d]) <= CountSince("week", now[d])
        /\ CountSince("today", now[d]) <= CountSince("month", now[d])
        /\ CountSince("week", now[d]) <= CountSince("days", now[d])
    BY PeriodsLie, BoardConstants DEF Periods
  <1>8. i \in 1 .. 6 /\ DOMAIN Order = 1 .. 6 /\ Len(Order) = 6
    BY DEF Order
  <1>9. /\ Order[1] = "total" /\ Order[2] = "today" /\ Order[3] = "week"
        /\ Order[4] = "month" /\ Order[5] = "status" /\ Order[6] = "days"
    BY DEF Order
  <1>10. /\ figures[d]["total"] # -1 <=> 1 < i
         /\ figures[d]["today"] # -1 <=> 2 < i
         /\ figures[d]["week"] # -1 <=> 3 < i
         /\ figures[d]["month"] # -1 <=> 4 < i
         /\ figures[d]["status"] # -1 <=> 5 < i
         /\ figures[d]["days"] = -1
    BY <1>1, <1>8, <1>9
  <1>11. /\ figures'[d][Order[i]] = Count(Order[i], now[d])
         /\ \A f \in Figures : f # Order[i] => figures'[d][f] = figures[d][f]
    <2>1. Order[i] \in Figures
      BY <1>8, <1>9 DEF Figures, Periods
    <2> QED BY <1>1, <2>1 DEF TypeOK
  <1>12. stage'[d] = IF i = 6 THEN "ended" ELSE "counting"
    BY <1>1, <1>8 DEF Goto, TypeOK, Actors
  <1> DEFINE F == figures'[d]
  <1>13. CASE i = 1
    <2>1. F["total"] = Cardinality(Visible) /\ \A f \in Figures \ {"total"} : F[f] = figures[d][f]
      BY <1>9, <1>11, <1>13 DEF Count
    <2> QED BY <1>2, <1>3, <1>4, <1>6, <1>10, <1>12, <1>13, <2>1
            DEF BoundOK, NestOK, StageOK, Within, Figures, Periods
  <1>14. CASE i = 2
    <2>1. F["today"] = CountSince("today", now[d]) /\ \A f \in Figures \ {"today"} : F[f] = figures[d][f]
      BY <1>9, <1>11, <1>14 DEF Count
    <2> QED BY <1>2, <1>3, <1>4, <1>6, <1>7, <1>10, <1>12, <1>14, <2>1
            DEF BoundOK, NestOK, StageOK, Within, Figures, Periods
  <1>15. CASE i = 3
    <2>1. F["week"] = CountSince("week", now[d]) /\ \A f \in Figures \ {"week"} : F[f] = figures[d][f]
      BY <1>9, <1>11, <1>15 DEF Count
    <2> QED BY <1>2, <1>3, <1>4, <1>6, <1>7, <1>10, <1>12, <1>15, <2>1
            DEF BoundOK, NestOK, StageOK, Within, Figures, Periods
  <1>16. CASE i = 4
    <2>1. F["month"] = CountSince("month", now[d]) /\ \A f \in Figures \ {"month"} : F[f] = figures[d][f]
      BY <1>9, <1>11, <1>16 DEF Count
    <2> QED BY <1>2, <1>3, <1>4, <1>6, <1>10, <1>12, <1>16, <2>1
            DEF BoundOK, NestOK, StageOK, Within, Figures, Periods
  <1>17. CASE i = 5
    <2>1. F["status"] = CountByStatus /\ \A f \in Figures \ {"status"} : F[f] = figures[d][f]
      BY <1>9, <1>11, <1>17 DEF Count
    <2> QED BY <1>2, <1>3, <1>4, <1>5, <1>6, <1>10, <1>12, <1>17, <2>1
            DEF BoundOK, NestOK, StageOK, Within, Figures, Periods
  <1>18. CASE i = 6
    <2>1. F["days"] = CountSince("days", now[d]) /\ \A f \in Figures \ {"days"} : F[f] = figures[d][f]
      BY <1>9, <1>11, <1>18 DEF Count, CountDaily
    <2> QED BY <1>2, <1>3, <1>4, <1>6, <1>10, <1>12, <1>18, <2>1
            DEF BoundOK, NestOK, StageOK, Within, Figures, Periods
  <1> QED BY <1>8, <1>13, <1>14, <1>15, <1>16, <1>17, <1>18

LEMMA CountingNext ==
    ASSUME TypeOK, Counting, [Next]_vars
    PROVE  Counting'
  <1>1. StatusesKnown /\ StatusesKnown'
    BY StatusesNext, DashboardByDashboard
  <1>2. ASSUME NEW d \in Dashboards PROVE BoundOK(d)' /\ NestOK(d)' /\ StageOK(d)'
    BY <1>1, DashboardByDashboard, DashboardApart, DashboardWaits, DashboardBegins, DashboardCounts
  <1>3. /\ StatusesKnown'
        /\ \A d \in Dashboards : BoundOK(d)' /\ NestOK(d)' /\ StageOK(d)'
        => Counting'
    BY DEF Counting, StatusesKnown, BoundOK, NestOK, StageOK
  <1> QED BY <1>1, <1>2, <1>3

LEMMA BoardInit == Init => BoardInv
  <1> SUFFICES ASSUME Init PROVE BoardInv
    OBVIOUS
  <1>1. IInv /\ TypeOK
    BY IInvInit DEF IInv
  <1>2. \A a \in Actors : stage[a] \in {"idle", "ended"}
    BY DEF Init
  <1>3. Walking
    <2>1. \A w \in Walks : stage[w] \in {"idle", "ended"} /\ present[w] = {} /\ page[w] = 1
      BY <1>2 DEF Init, Actors
    <2> QED BY <2>1 DEF Walking, WalkNeedsCause
  <1>4. Counting
    <2>1. StatusesKnown
      BY BoardConstants DEF Init, StatusesKnown
    <2>2. \A d \in Dashboards : \A f \in Figures : figures[d][f] = -1
      BY DEF Init
    <2>3. /\ \A q, time : CountSince(q, time) \in Nat
          /\ Cardinality(Visible) \in Nat
      BY PeriodCounts
    <2>4. \A d \in Dashboards : BoundOK(d)
      BY <2>2, <2>3 DEF BoundOK, Figures
    <2>5. \A d \in Dashboards : NestOK(d)
      BY <2>2, <2>3 DEF NestOK, Within, Figures, Periods
    <2>6. \A d \in Dashboards : StageOK(d)
      BY <2>2 DEF StageOK, Figures
    <2> QED BY <2>1, <2>4, <2>5, <2>6, DashboardByDashboard
  <1> QED BY <1>1, <1>3, <1>4 DEF BoardInv

LEMMA BoardNext == BoardInv /\ [Next]_vars => BoardInv'
  BY IInvNext, WalkingNext, CountingNext DEF BoardInv, IInv

-----------------------------------------------------------------------------
(* The theorems about listings and dashboards                              *)

\* A walk never passes a lead it has not shown, and what a dashboard counted
\* stays within what it has still to count: inductive, for every page size.
THEOREM BoardInductive == Spec => []BoardInv
  BY BoardInit, BoardNext, PTL DEF Spec

\* A walk through the pages of a listing misses a lead only if another was
\* created with it, or leads stored since its last count pushed it off the end.
THEOREM WalksMissOnlyWithCause == Spec => []WalkNeedsCause
  <1>1. BoardInv => WalkNeedsCause
    BY DEF BoardInv, Walking
  <1> QED BY <1>1, BoardInductive, PTL

\* The figures of a dashboard lie in each other, but for leads of an odd status.
THEOREM DashboardsInOrder == Spec => []DashboardInOrder
  <1>1. BoardInv => DashboardInOrder
    <2> SUFFICES ASSUME BoardInv, NEW d \in Dashboards, stage[d] = "ended",
                        figures[d]["total"] # -1
                 PROVE  /\ \A f \in Figures \ {"days"} :
                              figures[d][f] <= figures[d]["status"] + Cardinality(odd)
                        /\ figures[d]["today"] <= figures[d]["week"]
                        /\ figures[d]["today"] <= figures[d]["month"]
                        /\ figures[d]["week"] <= figures[d]["days"]
      BY DEF DashboardInOrder
    <2>1. BoundOK(d) /\ NestOK(d) /\ StageOK(d)
      BY DashboardByDashboard DEF BoardInv
    <2>2. \A f \in Figures : figures[d][f] # -1
      BY <2>1 DEF StageOK
    <2> QED BY <2>1, <2>2 DEF BoundOK, NestOK, Within, Figures, Periods
  <1> QED BY <1>1, BoardInductive, PTL
=============================================================================
