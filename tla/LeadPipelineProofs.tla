------------------------- MODULE LeadPipelineProofs -------------------------
(***************************************************************************)
(* Theorems about LeadPipeline for every set of deliveries, leads, pages   *)
(* and worker slots, every number of retries and every fault budget.       *)
(***************************************************************************)
EXTENDS LeadPipeline, LeadsTableProofs, TLAPS

\* A job names a leadgen change of its delivery, with its lead and its page.
LEMMA JobFields ==
    ASSUME NEW j \in Jobs
    PROVE  /\ DeliveryOf[j] \in Deliveries /\ DeliveryOf[j] = j[1]
           /\ LeadOf[j] \in Leads /\ PageOf[j] \in Pages
  <1>1. j[1] \in Deliveries /\ j[2] \in DOMAIN Payload[j[1]]
    BY DEF Jobs
  <1>2. Payload[j[1]] \in Seq(Change)
    BY <1>1, PipelineConstants
  <1>3. Payload[j[1]][j[2]] \in Change
    BY <1>1, <1>2
  <1> QED
    BY <1>1, <1>3 DEF DeliveryOf, LeadOf, PageOf, Change

-----------------------------------------------------------------------------
(* Types                                                                   *)

LEMMA TypeInit == Init => TypeOK
  BY PipelineConstants DEF Init, TypeOK, TableInit, TableType, LogStatus,
     TaskPc, InSession, FaultKinds

\* Adding to one value of a function into Nat keeps it a function into Nat.
LEMMA BumpType ==
    ASSUME NEW S, NEW f \in [S -> Nat], NEW x, NEW n \in Nat
    PROVE  [f EXCEPT ![x] = @ + n] \in [S -> Nat]
  <1>1. ASSUME NEW y \in S PROVE [f EXCEPT ![x] = @ + n][y] \in Nat
    <2>1. CASE y = x
      <3>1. f[y] + n \in Nat
        OBVIOUS
      <3> QED BY <2>1, <3>1
    <2>2. CASE y # x
      BY <2>2
    <2> QED BY <2>1, <2>2
  <1> QED BY <1>1

LEMMA PublishType ==
    ASSUME queue \in [Message -> Nat], NEW m, NEW n \in Nat, Publish(m, n)
    PROVE  queue' \in [Message -> Nat]
  BY BumpType DEF Publish

LEMMA FaultType ==
    ASSUME faults \in [FaultKinds -> Nat], NEW k, Fault(k)
    PROVE  faults' \in [FaultKinds -> Nat]
  BY BumpType, 1 \in Nat DEF Fault

LEMMA TypeIngest ==
    ASSUME TypeOK, NEW d \in Deliveries, Receive(d) \/ Ingest(d) \/ IngestFault(d)
    PROVE  TypeOK'
  <1> USE DEF TypeOK, TableType, LogStatus, hookVars, taskVars, tailVars, tableVars
  <1>1. CASE Receive(d)
    BY <1>1 DEF Receive
  <1>2. CASE SkipChange(d)
    BY <1>2 DEF SkipChange, ToNextChange
  <1>3. CASE LogChange(d)
    BY <1>3 DEF LogChange
  <1>4. CASE DelayOk(d)
    <2>1. queue' \in [Message -> Nat]
      BY <1>4, PipelineConstants, PublishType DEF DelayOk
    <2>2. staged' \in [Jobs -> LogStatus]
      BY <1>4 DEF DelayOk
    <2>3. hook' \in [Deliveries -> {"new", "loop", "delay", "done", "aborted"}]
          /\ pos' \in [Deliveries -> Nat \ {0}]
      BY <1>4 DEF DelayOk, ToNextChange
    <2>4. UNCHANGED <<rows, open, logs, taskVars, tailVars, faults>>
      BY <1>4 DEF DelayOk
    <2> QED
      BY <2>1, <2>2, <2>3, <2>4
  <1>5. CASE DelayFails(d)
    <2>1. queue' \in [Message -> Nat]
      BY <1>5, PipelineConstants, PublishType DEF DelayFails
    <2>2. faults' \in [FaultKinds -> Nat]
      BY <1>5, FaultType DEF DelayFails
    <2>3. staged' \in [Jobs -> LogStatus]
      BY <1>5 DEF DelayFails
    <2>4. hook' \in [Deliveries -> {"new", "loop", "delay", "done", "aborted"}]
          /\ pos' \in [Deliveries -> Nat \ {0}]
      BY <1>5 DEF DelayFails, ToNextChange
    <2>5. UNCHANGED <<rows, open, logs, taskVars, tailVars>>
      BY <1>5 DEF DelayFails
    <2> QED
      BY <2>1, <2>2, <2>3, <2>4, <2>5
  <1>6. CASE CommitLogs(d)
    BY <1>6 DEF CommitLogs, Unstage
  <1>7. CASE IngestFails(d)
    BY <1>7, FaultType DEF IngestFails, Unstage
  <1>8. CASE ApiCrash(d)
    BY <1>8, FaultType DEF ApiCrash, Unstage
  <1> QED
    BY <1>1, <1>2, <1>3, <1>4, <1>5, <1>6, <1>7, <1>8 DEF Ingest, IngestFault

LEMMA TypeWork ==
    ASSUME TypeOK, NEW w \in Workers, Take(w) \/ Work(w)
    PROVE  TypeOK'
  <1> USE PipelineConstants
      DEF TypeOK, LogStatus, TaskPc, InSession, hookVars, taskVars, tailVars,
          Goto, Ends
  <1>1. CASE Take(w)
    <2>1. PICK m \in Message : /\ queue[m] > 0
                               /\ queue' = [queue EXCEPT ![m] = @ - 1]
                               /\ msg' = [msg EXCEPT ![w] = m]
      BY <1>1 DEF Take
    <2>2. queue' \in [Message -> Nat]
      BY <2>1
    <2>3. TableType'
      BY <1>1 DEF Take, TableType, tableVars
    <2> QED
      BY <1>1, <2>1, <2>2, <2>3 DEF Take
  <1>2. CASE FindPage(w)
    <2>1. \/ Ends(w, "skipped")
          \/ Goto(w, "existing") /\ UNCHANGED outcome
          \/ Goto(w, "raised") /\ UNCHANGED outcome
      BY <1>2 DEF FindPage
    <2>2. pc[w] = "page"
          /\ UNCHANGED <<tableVars, hookVars, logs, queue, msg, seen, tailVars, faults>>
      BY <1>2 DEF FindPage
    <2> QED
      BY <2>1, <2>2 DEF TableType, tableVars
  <1>3. CASE FindExisting(w)
    BY <1>3 DEF FindExisting, TableType, tableVars
  <1>4. CASE FetchLead(w)
    BY <1>4 DEF FetchLead, TableType, tableVars
  <1>5. CASE InsertLead(w)
    <2>1. msg[w] \in Message
      BY <1>5 DEF InsertLead
    <2>2. LeadAt(w) \in Leads
      BY <2>1, JobFields DEF LeadAt, Message
    <2>3. TableType'
      BY <1>5, <2>2, InsertType, RollbackType DEF InsertLead
    <2> QED
      BY <1>5, <2>3 DEF InsertLead
  <1>6. CASE Announce(w)
    <2>1. msg[w] \in Message
      BY <1>6 DEF Announce
    <2>2. LeadAt(w) \in Leads
      BY <2>1, JobFields DEF LeadAt, Message
    <2> QED
      BY <1>6, <2>2 DEF Announce, TableType, tableVars
  <1>7. CASE FindLog(w)
    BY <1>7 DEF FindLog, TableType, tableVars
  <1>8. CASE CommitTask(w)
    <2>1. TableType'
      BY <1>8, CommitType DEF CommitTask, CommitWrites
    <2> QED
      BY <1>8, <2>1 DEF CommitTask, CommitWrites
  <1>9. CASE Retry(w)
    <2>1. queue' \in [Message -> Nat]
      BY <1>9, PublishType DEF Retry
    <2> QED
      BY <1>9, <2>1 DEF Retry, TableType, tableVars
  <1>10. CASE Settle(w)
    BY <1>10 DEF Settle, StoreResult, TableType, tableVars
  <1>11. CASE Ack(w)
    BY <1>11 DEF Ack, Release, TableType, tableVars
  <1> QED
    BY <1>1, <1>2, <1>3, <1>4, <1>5, <1>6, <1>7, <1>8, <1>9, <1>10, <1>11 DEF Work

LEMMA TypeFault ==
    ASSUME TypeOK, NEW w \in Workers, WorkerFault(w)
    PROVE  TypeOK'
  <1> USE PipelineConstants
      DEF TypeOK, LogStatus, TaskPc, InSession, hookVars, taskVars, tailVars, Goto
  <1>1. ASSUME Interrupted(w) PROVE TableType' /\ logs' \in [Jobs -> LogStatus]
    BY <1>1, CommitType, RollbackType DEF Interrupted, CommitWrites
  <1>2. CASE TaskFails(w)
    BY <1>1, <1>2, FaultType DEF TaskFails
  <1>3. CASE RetryRejected(w)
    <2>1. queue' \in [Message -> Nat]
      BY <1>3, PublishType DEF RetryRejected
    <2>2. JobAt(w) \in Jobs
      BY <1>3 DEF RetryRejected, JobAt, Message
    <2> QED
      BY <1>3, <2>1, <2>2, FaultType DEF RetryRejected, TableType, tableVars
  <1>4. CASE HardKill(w)
    BY <1>1, <1>4, FaultType DEF HardKill, Release, StoreResult
  <1>5. CASE WorkerCrash(w)
    <2>1. queue' \in [Message -> Nat]
      BY <1>5, PublishType DEF WorkerCrash
    <2> QED
      BY <1>1, <1>5, <2>1, FaultType DEF WorkerCrash, Release
  <1> QED
    BY <1>2, <1>3, <1>4, <1>5 DEF WorkerFault

LEMMA TypeNext == TypeOK /\ [Next]_vars => TypeOK'
  <1> SUFFICES ASSUME TypeOK, [Next]_vars PROVE TypeOK'
    OBVIOUS
  <1>1. ASSUME NEW p \in Pages, SyncPage(p) PROVE TypeOK'
    BY <1>1 DEF SyncPage, TypeOK, TableType, tableVars, hookVars, taskVars
  <1>2. CASE UNCHANGED vars
    BY <1>2 DEF vars, TypeOK, TableType
  <1> QED
    BY <1>1, <1>2, TypeIngest, TypeWork, TypeFault DEF Next, Done

\* Every variable keeps to its type, for all constants.
THEOREM TypeCorrect == Spec => []TypeOK
  BY TypeInit, TypeNext, PTL DEF Spec

-----------------------------------------------------------------------------
(* The table, as the slots use it                                          *)

\* How a step of slot w may use the table.
TableStep(w) ==
    \/ InsertRow(w, LeadAt(w))
    \/ CommitTx(w)
    \/ RollbackTx(w)
    \/ UNCHANGED tableVars

LEMMA LeadAtType ==
    ASSUME TypeOK, NEW w \in Workers, pc[w] # "idle"
    PROVE  /\ JobAt(w) \in Jobs /\ LeadAt(w) \in Leads
           /\ LeadAt(w) = LeadOf[JobAt(w)]
  <1>1. msg[w] \in Message
    BY DEF TypeOK
  <1> QED
    BY <1>1, JobFields DEF JobAt, LeadAt, Message

LEMMA WorkUsesTable ==
    ASSUME TypeOK, NEW w \in Workers, Take(w) \/ Work(w) \/ WorkerFault(w)
    PROVE  TableStep(w)
  BY DEF TableStep, Take, Work, WorkerFault, FindPage, FindExisting, FetchLead,
     InsertLead, Announce, FindLog, CommitTask, CommitWrites, Retry, Settle, Ack,
     TaskFails, RetryRejected, HardKill, WorkerCrash, Interrupted, tableVars

LEMMA WorkKeepsTable ==
    ASSUME TypeOK, TableInv, NEW w \in Workers, Take(w) \/ Work(w) \/ WorkerFault(w)
    PROVE  TableInv'
  <1>1. w \in Txs
    BY PipelineConstants
  <1>2. CASE InsertRow(w, LeadAt(w)) /\ pc[w] # "idle"
    BY <1>1, <1>2, LeadAtType, TableInsert
  <1>3. CASE CommitTx(w)
    BY <1>1, <1>3, TableCommit
  <1>4. CASE RollbackTx(w)
    BY <1>1, <1>4, TableRollback
  <1>5. CASE UNCHANGED tableVars
    BY <1>5, TableSame
  <1>6. pc[w] = "idle" => UNCHANGED tableVars
    BY DEF Take, Work, WorkerFault, FindPage, FindExisting, FetchLead,
       InsertLead, Announce, FindLog, CommitTask, CommitWrites, Retry, Settle,
       Ack, TaskFails, RetryRejected, HardKill, WorkerCrash, InSession, tableVars
  <1> QED
    BY <1>2, <1>3, <1>4, <1>5, <1>6, WorkUsesTable DEF TableStep

LEMMA OthersLeaveTable ==
    ASSUME [Next]_vars, ~ \E w \in Workers : Take(w) \/ Work(w) \/ WorkerFault(w)
    PROVE  UNCHANGED <<tableVars, pc, msg, seen>>
  BY DEF Next, Receive, Ingest, IngestFault, SkipChange, LogChange, DelayOk,
     DelayFails, CommitLogs, IngestFails, ApiCrash, SyncPage, Done, vars,
     tableVars, taskVars

LEMMA TableNext ==
    ASSUME TypeOK, TableInv, [Next]_vars
    PROVE  TableInv'
  BY WorkKeepsTable, OthersLeaveTable, TableSame

\* No lead is ever stored twice, for any number of deliveries and slots, and
\* whatever fails when: models/lead.py's UNIQUE facebook_lead_id at work.
THEOREM StoredOnce == Spec => []LeadStoredOnce
  <1>1. Init => TableInv
    BY DEF Init, TableInit, TableInv, TableType, LeadStoredOnce, InsertsExclusive
  <1>2. TypeOK /\ TableInv /\ [Next]_vars => TableInv'
    BY TableNext
  <1>3. TableInv => LeadStoredOnce
    BY DEF TableInv
  <1> QED
    BY <1>1, <1>2, <1>3, TypeCorrect, PTL DEF Spec

-----------------------------------------------------------------------------
(* The inductive invariant                                                 *)

\* Only the commit of a task that saw its audit row touches a committed row.
LogStep(w) ==
    \/ UNCHANGED logs
    \/ /\ pc[w] = "commit" /\ seen[w] /\ CommitTx(w)
       /\ logs' = [logs EXCEPT ![JobAt(w)] = "completed"]

LEMMA WorkWritesLogs ==
    ASSUME NEW w \in Workers, Take(w) \/ Work(w) \/ WorkerFault(w)
    PROVE  LogStep(w) /\ UNCHANGED hookVars
  BY DEF LogStep, Take, Work, WorkerFault, FindPage, FindExisting, FetchLead,
     InsertLead, Announce, FindLog, CommitTask, CommitWrites, Retry, Settle, Ack,
     TaskFails, RetryRejected, HardKill, WorkerCrash, Interrupted

LEMMA RowsGrow ==
    ASSUME TypeOK, [Next]_vars, NEW l \in Leads, rows[l] > 0
    PROVE  rows'[l] > 0
  <1>1. CASE \E w \in Workers : Take(w) \/ Work(w) \/ WorkerFault(w)
    <2>1. PICK w \in Workers : Take(w) \/ Work(w) \/ WorkerFault(w)
      BY <1>1
    <2>2. TableStep(w)
      BY <2>1, WorkUsesTable
    <2> QED
      BY <2>2 DEF TableStep, InsertRow, CommitTx, RollbackTx, tableVars,
         TypeOK, TableType
  <1>2. CASE ~ \E w \in Workers : Take(w) \/ Work(w) \/ WorkerFault(w)
    BY <1>2, OthersLeaveTable DEF tableVars
  <1> QED
    BY <1>1, <1>2

\* The webhook side leaves the audit rows of other deliveries alone, and the
\* rows it adds are queued or failed.
LEMMA IngestWritesLogs ==
    ASSUME TypeOK, IngestOK, NEW d \in Deliveries,
           Receive(d) \/ Ingest(d) \/ IngestFault(d)
    PROVE  \A j \in Jobs :
              \/ logs'[j] = logs[j]
              \/ logs[j] = "none" /\ logs'[j] \in {"queued", "failed"}
  <1>1. CASE CommitLogs(d)
    <2> SUFFICES ASSUME NEW j \in Jobs, DeliveryOf[j] = d
                 PROVE  logs[j] = "none" /\ logs'[j] \in {"queued", "failed"}
      BY <1>1 DEF CommitLogs
    <2>1. hook[d] = "loop" /\ pos[d] > Len(Payload[d]) /\ logs'[j] = staged[j]
      BY <1>1 DEF CommitLogs
    <2>2. j[2] \in DOMAIN Payload[d] /\ Payload[d] \in Seq(Change)
      BY JobFields, PipelineConstants DEF Jobs
    <2>3. j[2] < pos[d]
      BY <2>1, <2>2 DEF TypeOK
    <2> QED
      BY <2>1, <2>3 DEF IngestOK
  <1>2. CASE ~ CommitLogs(d)
    BY <1>2 DEF Receive, Ingest, IngestFault, SkipChange, LogChange, DelayOk,
       DelayFails, IngestFails, ApiCrash
  <1> QED
    BY <1>1, <1>2

LEMMA LogsStay ==
    ASSUME TypeOK, IngestOK, [Next]_vars, NEW j \in Jobs, logs[j] # "none"
    PROVE  logs'[j] # "none"
  <1>1. ASSUME NEW w \in Workers, Take(w) \/ Work(w) \/ WorkerFault(w)
        PROVE  logs'[j] # "none"
    BY <1>1, WorkWritesLogs DEF LogStep, TypeOK
  <1>2. ASSUME NEW d \in Deliveries, Receive(d) \/ Ingest(d) \/ IngestFault(d)
        PROVE  logs'[j] # "none"
    BY <1>2, IngestWritesLogs
  <1>3. ASSUME NEW p \in Pages, SyncPage(p) PROVE UNCHANGED logs
    BY <1>3 DEF SyncPage
  <1> QED
    BY <1>1, <1>2, <1>3 DEF Next, Done, vars

\* A step that is not slot w's leaves w's session as it was; rows and audit
\* rows only grow, so what w saw it may still rely on.
LEMMA SessionKept ==
    ASSUME TypeOK, IngestOK, [Next]_vars, NEW w \in Workers, SessionOK(w),
           pc'[w] = pc[w], msg'[w] = msg[w], seen'[w] = seen[w],
           open'[w] = open[w]
    PROVE  SessionOK(w)'
  <1>1. CASE pc[w] = "idle"
    BY <1>1 DEF SessionOK
  <1>2. CASE pc[w] # "idle"
    <2>1. JobAt(w) \in Jobs /\ LeadAt(w) \in Leads
      BY <1>2, LeadAtType
    <2>2. JobAt(w)' = JobAt(w) /\ LeadAt(w)' = LeadAt(w)
      BY DEF JobAt, LeadAt
    <2>3. Visible(w, LeadAt(w)) => Visible(w, LeadAt(w))'
      BY <2>1, <2>2, RowsGrow DEF Visible
    <2>4. logs[JobAt(w)] # "none" => logs'[JobAt(w)] # "none"
      BY <2>1, LogsStay
    <2> QED
      BY <1>2, <2>2, <2>3, <2>4 DEF SessionOK
  <1> QED
    BY <1>1, <1>2

LEMMA WorkKeepsSession ==
    ASSUME IInv, NEW w \in Workers, Take(w) \/ Work(w) \/ WorkerFault(w)
    PROVE  SessionOK(w)'
  <1> USE DEF Goto, Ends
  <1>0. TypeOK /\ SessionOK(w) /\ w \in Txs
    BY PipelineConstants DEF IInv
  <1>1. CASE Take(w)
    <2>1. pc'[w] = "page" /\ ~ seen'[w] /\ open'[w] = {}
      BY <1>0, <1>1 DEF Take, TypeOK, SessionOK, tableVars
    <2> QED
      BY <2>1 DEF SessionOK
  <1>2. CASE FindPage(w)
    BY <1>0, <1>2 DEF FindPage, TypeOK, SessionOK, tableVars, JobAt
  <1>3. CASE FindExisting(w)
    BY <1>0, <1>3 DEF FindExisting, TypeOK, SessionOK, tableVars, JobAt, LeadAt, Visible
  <1>4. CASE FetchLead(w)
    BY <1>0, <1>4 DEF FetchLead, TypeOK, SessionOK, tableVars, JobAt
  <1>5. CASE InsertLead(w)
    <2>1. CASE InsertRow(w, LeadAt(w)) /\ Goto(w, "announce")
      BY <1>0, <1>5, <2>1
      DEF InsertLead, InsertRow, TypeOK, TableType, SessionOK, JobAt, LeadAt, Visible
    <2>2. CASE RollbackTx(w) /\ Goto(w, "raised")
      BY <1>0, <1>5, <2>2
      DEF InsertLead, RollbackTx, TypeOK, TableType, SessionOK, JobAt
    <2> QED
      BY <1>5, <2>1, <2>2 DEF InsertLead
  <1>6. CASE Announce(w)
    BY <1>0, <1>6 DEF Announce, TypeOK, SessionOK, tableVars, JobAt, LeadAt, Visible
  <1>7. CASE FindLog(w)
    BY <1>0, <1>7 DEF FindLog, TypeOK, SessionOK, tableVars, JobAt, LeadAt, Visible
  <1>8. ASSUME CommitTask(w) PROVE SessionOK(w)'
    <2>1. pc'[w] = "settle" /\ open'[w] = {} /\ msg' = msg /\ seen' = seen
      BY <1>0, <1>8 DEF CommitTask, CommitWrites, CommitTx, TypeOK, TableType
    <2>2. JobAt(w) \in Jobs /\ pc[w] # "idle"
      BY <1>0, <1>8, LeadAtType DEF CommitTask, CommitWrites
    <2>3. seen[w] => logs'[JobAt(w)] # "none"
      BY <1>0, <1>8, <2>2 DEF CommitTask, CommitWrites, TypeOK, SessionOK
    <2> QED
      BY <2>1, <2>3 DEF SessionOK, JobAt
  <1>9. CASE Retry(w)
    BY <1>0, <1>9 DEF Retry, TypeOK, SessionOK, tableVars, JobAt
  <1>10. CASE Settle(w)
    BY <1>0, <1>10 DEF Settle, TypeOK, SessionOK, tableVars, JobAt
  <1>11. CASE Ack(w) \/ HardKill(w) \/ WorkerCrash(w)
    <2>1. pc'[w] = "idle" /\ ~ seen'[w]
      BY <1>0, <1>11 DEF Ack, HardKill, WorkerCrash, Release, TypeOK
    <2>2. open'[w] = {}
      BY <1>0, <1>11 DEF Ack, HardKill, WorkerCrash, Interrupted, CommitWrites,
         CommitTx, RollbackTx, TypeOK, TableType, SessionOK, tableVars
    <2> QED
      BY <2>1, <2>2 DEF SessionOK
  <1>12. CASE TaskFails(w)
    <2>1. pc'[w] = "raised" /\ open'[w] = {} /\ msg' = msg /\ seen' = seen
      BY <1>0, <1>12 DEF TaskFails, Interrupted, CommitWrites, CommitTx,
         RollbackTx, TypeOK, TableType
    <2>2. JobAt(w) \in Jobs /\ pc[w] # "idle"
      BY <1>0, <1>12, LeadAtType DEF TaskFails, InSession
    <2>3. seen[w] => logs'[JobAt(w)] # "none"
      BY <1>0, <1>12, <2>2 DEF TaskFails, Interrupted, CommitWrites, TypeOK, SessionOK
    <2> QED
      BY <2>1, <2>3 DEF SessionOK, JobAt
  <1>13. CASE RetryRejected(w)
    BY <1>0, <1>13 DEF RetryRejected, TypeOK, SessionOK, tableVars, JobAt
  <1> QED
    BY <1>1, <1>2, <1>3, <1>4, <1>5, <1>6, <1>7, <1>8, <1>9, <1>10, <1>11,
       <1>12, <1>13 DEF Work, WorkerFault

LEMMA WorkLeavesOthers ==
    ASSUME TypeOK, NEW w \in Workers, Take(w) \/ Work(w) \/ WorkerFault(w),
           NEW u \in Workers \ {w}
    PROVE  /\ pc'[u] = pc[u] /\ msg'[u] = msg[u] /\ seen'[u] = seen[u]
           /\ open'[u] = open[u]
  <1>1. open'[u] = open[u]
    BY WorkUsesTable, PipelineConstants
    DEF TableStep, InsertRow, CommitTx, RollbackTx, tableVars, TypeOK, TableType
  <1>2. pc'[u] = pc[u] /\ msg'[u] = msg[u] /\ seen'[u] = seen[u]
    BY DEF Take, Work, WorkerFault, FindPage, FindExisting, FetchLead,
       InsertLead, Announce, FindLog, CommitTask, Retry, Settle, Ack, TaskFails,
       RetryRejected, HardKill, WorkerCrash, Release, Ends, Goto, TypeOK
  <1> QED
    BY <1>1, <1>2

LEMMA SessionsNext ==
    ASSUME IInv, [Next]_vars
    PROVE  \A w \in Workers : SessionOK(w)'
  <1> SUFFICES ASSUME NEW u \in Workers PROVE SessionOK(u)'
    OBVIOUS
  <1>1. TypeOK /\ IngestOK /\ SessionOK(u)
    BY DEF IInv
  <1>2. CASE \E w \in Workers : Take(w) \/ Work(w) \/ WorkerFault(w)
    <2>1. PICK w \in Workers : Take(w) \/ Work(w) \/ WorkerFault(w)
      BY <1>2
    <2>2. CASE u = w
      BY <2>1, <2>2, WorkKeepsSession
    <2>3. CASE u # w
      BY <1>1, <2>1, <2>3, WorkLeavesOthers, SessionKept
    <2> QED
      BY <2>2, <2>3
  <1>3. CASE ~ \E w \in Workers : Take(w) \/ Work(w) \/ WorkerFault(w)
    BY <1>1, <1>3, OthersLeaveTable, SessionKept DEF tableVars
  <1> QED
    BY <1>2, <1>3

\* The change a delivery is at, when it is a leadgen change, is a job.
LEMMA ChangeIsJob ==
    ASSUME TypeOK, NEW d \in Deliveries, AtChange(d)
    PROVE  Payload[d][pos[d]].leadgen <=> <<d, pos[d]>> \in Jobs
  <1>1. Payload[d] \in Seq(Change) /\ pos[d] \in Nat \ {0}
    BY PipelineConstants DEF TypeOK
  <1>2. pos[d] \in DOMAIN Payload[d]
    BY <1>1 DEF AtChange
  <1> QED
    BY <1>2 DEF Jobs

LEMMA JobPosition ==
    ASSUME NEW j \in Jobs
    PROVE  j = <<DeliveryOf[j], j[2]>> /\ j[2] \in Nat /\ j[2] >= 1
  <1>1. j[1] \in Deliveries /\ j[2] \in DOMAIN Payload[j[1]] /\ j = <<j[1], j[2]>>
    BY DEF Jobs
  <1>2. Payload[j[1]] \in Seq(Change)
    BY <1>1, PipelineConstants
  <1> QED
    BY <1>1, <1>2, JobFields

LEMMA IngestByWebhook ==
    ASSUME TypeOK, IngestOK, NEW d \in Deliveries,
           Receive(d) \/ Ingest(d) \/ IngestFault(d)
    PROVE  IngestOK'
  <1> USE DEF TypeOK
  <1>1. \A e \in Deliveries : e # d => hook'[e] = hook[e] /\ pos'[e] = pos[e]
    BY DEF Receive, Ingest, IngestFault, SkipChange, LogChange, DelayOk,
       DelayFails, CommitLogs, IngestFails, ApiCrash, ToNextChange
  <1>2. \A j \in Jobs : DeliveryOf[j] # d => staged'[j] = staged[j] /\ logs'[j] = logs[j]
    BY JobPosition
    DEF Receive, Ingest, IngestFault, SkipChange, LogChange, DelayOk,
        DelayFails, CommitLogs, IngestFails, ApiCrash, Unstage
  <1>3. \A j \in Jobs :
           \/ logs'[j] = logs[j]
           \/ logs[j] = "none" /\ logs'[j] \in {"queued", "failed"}
    BY IngestWritesLogs
  <1>4. /\ hook'[d] = "new" => pos'[d] = 1
        /\ hook'[d] = "delay" => <<d, pos'[d]>> \in Jobs
    <2>1. CASE LogChange(d)
      BY <2>1, ChangeIsJob DEF LogChange
    <2>2. CASE ~ LogChange(d)
      BY <2>2 DEF Receive, Ingest, IngestFault, SkipChange, DelayOk, DelayFails,
         CommitLogs, IngestFails, ApiCrash, ToNextChange
    <2> QED
      BY <2>1, <2>2
  <1>5. ASSUME NEW j \in Jobs, DeliveryOf[j] = d, hook'[d] # "done"
        PROVE  logs'[j] = "none"
    <2>1. UNCHANGED logs /\ hook[d] # "done"
      BY <1>5 DEF Receive, Ingest, IngestFault, SkipChange, LogChange, DelayOk,
         DelayFails, CommitLogs, IngestFails, ApiCrash, AtChange
    <2> QED
      BY <1>5, <2>1 DEF IngestOK
  <1>6. ASSUME NEW j \in Jobs, DeliveryOf[j] = d,
               hook'[d] \in {"loop", "delay"}, j[2] < pos'[d]
        PROVE  staged'[j] \in {"queued", "failed"}
    <2>0. j = <<d, j[2]>> /\ j[2] \in Nat /\ j[2] >= 1
      BY <1>6, JobPosition
    <2>1. CASE Receive(d)
      <3>1. pos'[d] = pos[d] /\ pos[d] = 1
        BY <2>1 DEF Receive, IngestOK
      <3> QED
        BY <1>6, <2>0, <3>1
    <2>2. CASE SkipChange(d)
      <3>1. pos'[d] = pos[d] + 1 /\ staged' = staged /\ hook[d] = "loop"
        BY <2>2 DEF SkipChange, ToNextChange, AtChange
      <3>2. j[2] # pos[d]
        BY <2>0, <2>2, ChangeIsJob DEF SkipChange
      <3>3. j[2] < pos[d]
        BY <1>6, <2>0, <3>1, <3>2
      <3> QED
        BY <1>6, <3>1, <3>3 DEF IngestOK
    <2>3. CASE LogChange(d)
      <3>1. pos' = pos /\ hook[d] = "loop"
            /\ staged' = [staged EXCEPT ![<<d, pos[d]>>] = "pending"]
        BY <2>3 DEF LogChange, AtChange
      <3>2. j # <<d, pos[d]>>
        BY <1>6, <2>0, <3>1
      <3> QED
        BY <1>6, <3>1, <3>2 DEF IngestOK
    <2>4. CASE DelayOk(d) \/ DelayFails(d)
      <3>1. pos'[d] = pos[d] + 1 /\ hook[d] = "delay"
        BY <2>4 DEF DelayOk, DelayFails, ToNextChange
      <3>2. PICK s \in {"queued", "failed"} :
                staged' = [staged EXCEPT ![<<d, pos[d]>>] = s]
        BY <2>4 DEF DelayOk, DelayFails
      <3>3. CASE j[2] = pos[d]
        BY <2>0, <3>2, <3>3
      <3>4. CASE j[2] < pos[d]
        <4>1. j # <<d, pos[d]>>
          BY <2>0, <3>4
        <4> QED
          BY <1>6, <3>1, <3>2, <3>4, <4>1 DEF IngestOK
      <3> QED
        BY <1>6, <2>0, <3>1, <3>3, <3>4
    <2> QED
      BY <1>6, <2>1, <2>2, <2>3, <2>4
      DEF Ingest, IngestFault, CommitLogs, IngestFails, ApiCrash
  <1>7. \A j \in Jobs : DeliveryOf[j] \in Deliveries
    BY JobFields
  <1> QED
    BY <1>1, <1>2, <1>3, <1>4, <1>5, <1>6, <1>7 DEF IngestOK

LEMMA IngestNext ==
    ASSUME IInv, [Next]_vars
    PROVE  IngestOK'
  <1>0. TypeOK /\ IngestOK /\ \A w \in Workers : SessionOK(w)
    BY DEF IInv
  <1>1. ASSUME NEW w \in Workers, Take(w) \/ Work(w) \/ WorkerFault(w)
        PROVE  IngestOK'
    <2>1. UNCHANGED hookVars /\ LogStep(w)
      BY <1>1, WorkWritesLogs
    <2>2. \A j \in Jobs : \/ logs'[j] = logs[j]
                          \/ logs[j] # "none" /\ logs'[j] = "completed"
      BY <1>0, <2>1 DEF LogStep, TypeOK, SessionOK
    <2> QED
      BY <1>0, <2>1, <2>2 DEF IngestOK, hookVars
  <1>2. ASSUME NEW p \in Pages, SyncPage(p) PROVE UNCHANGED <<hookVars, logs>>
    BY <1>2 DEF SyncPage
  <1>3. CASE UNCHANGED <<hookVars, logs>>
    BY <1>0, <1>3 DEF IngestOK, hookVars
  <1> QED
    BY <1>0, <1>1, <1>2, <1>3, IngestByWebhook DEF Next, Done, vars, hookVars

LEMMA CompletedNext ==
    ASSUME IInv, [Next]_vars
    PROVE  CompletedImpliesStored'
  <1>0. TypeOK /\ IngestOK /\ CompletedImpliesStored /\ \A w \in Workers : SessionOK(w)
    BY DEF IInv
  <1> SUFFICES ASSUME NEW j \in Jobs, logs'[j] = "completed"
               PROVE  rows'[LeadOf[j]] > 0
    BY DEF CompletedImpliesStored, Stored
  <1>1. LeadOf[j] \in Leads
    BY JobFields
  <1>2. CASE logs[j] = "completed"
    BY <1>0, <1>1, <1>2, RowsGrow DEF CompletedImpliesStored, Stored
  <1>3. CASE logs[j] # "completed"
    <2>1. ~ \E d \in Deliveries : Receive(d) \/ Ingest(d) \/ IngestFault(d)
      BY <1>0, <1>3, IngestWritesLogs
    <2>2. PICK w \in Workers : Take(w) \/ Work(w) \/ WorkerFault(w)
      BY <1>3, <2>1 DEF Next, SyncPage, Done, vars
    <2>3. pc[w] = "commit" /\ CommitTx(w) /\ j = JobAt(w)
      BY <1>0, <1>3, <2>2, WorkWritesLogs DEF LogStep, TypeOK
    <2>4. LeadAt(w) = LeadOf[j]
      BY <1>0, <2>3, LeadAtType
    <2>5. Visible(w, LeadOf[j])
      BY <1>0, <2>3, <2>4 DEF SessionOK
    <2> QED
      BY <1>0, <1>1, <2>3, <2>5 DEF Visible, CommitTx, TypeOK, TableType
  <1> QED
    BY <1>2, <1>3

LEMMA IInvInit == Init => IInv
  <1> SUFFICES ASSUME Init PROVE IInv
    OBVIOUS
  <1>1. TypeOK
    BY TypeInit
  <1>2. LeadStoredOnce /\ InsertsExclusive /\ CompletedImpliesStored
    BY JobFields DEF Init, TableInit, LeadStoredOnce, InsertsExclusive,
       CompletedImpliesStored
  <1>3. \A w \in Workers : SessionOK(w)
    BY PipelineConstants DEF Init, TableInit, SessionOK
  <1>4. IngestOK
    BY JobFields DEF Init, IngestOK
  <1> QED
    BY <1>1, <1>2, <1>3, <1>4 DEF IInv

LEMMA IInvNext == IInv /\ [Next]_vars => IInv'
  <1> SUFFICES ASSUME IInv, [Next]_vars PROVE IInv'
    OBVIOUS
  <1>1. TypeOK' /\ TableInv'
    BY TypeNext, TableNext DEF IInv, TableInv, TypeOK
  <1> QED
    BY <1>1, SessionsNext, IngestNext, CompletedNext DEF IInv, TableInv

\* The conjunction of the parts is an invariant, for all constants.
THEOREM Inductive == Spec => []IInv
  BY IInvInit, IInvNext, PTL DEF Spec

\* An audit row that says "completed" tells the truth: its lead is stored.
THEOREM CompletedIsTrue == Spec => []CompletedImpliesStored
  <1>1. IInv => CompletedImpliesStored
    BY DEF IInv
  <1> QED
    BY <1>1, Inductive, PTL

-----------------------------------------------------------------------------
(* Refinement: the webhook side implements the ledger                      *)

LEMMA LedgerInit == Init => Ledger!Init
  BY DEF Init, TableInit, Ledger!Init, Stored

\* A commit is a step of the ledger: it captures the task's lead if the table
\* lacked it, and completes the audit row the task saw.
LEMMA LedgerCommit ==
    ASSUME IInv, NEW w \in Workers, CommitWrites(w)
    PROVE  [Ledger!Next]_(Ledger!vars)
  <1> DEFINE j == JobAt(w)
             l == LeadAt(w)
  <1>0. /\ TypeOK /\ TableType /\ IngestOK /\ SessionOK(w) /\ w \in Txs
        /\ InsertsExclusive /\ pc[w] = "commit"
    BY PipelineConstants DEF IInv, TypeOK, CommitWrites
  <1>1. j \in Jobs /\ l \in Leads /\ l = LeadOf[j]
    BY <1>0, LeadAtType
  <1>2. open[w] \subseteq {l} /\ Visible(w, l)
    BY <1>0 DEF SessionOK
  <1>3. \A k \in Leads : Stored(k)' <=> Stored(k) \/ k = l
    BY <1>0, <1>1, <1>2 DEF Visible, Stored, CommitWrites, CommitTx, TableType
  <1>4. {k \in Leads : Stored(k)}' = {k \in Leads : Stored(k)} \cup {l}
    BY <1>1, <1>3
  <1>5. \/ UNCHANGED logs
        \/ logs[j] \in {"queued", "failed"} /\ logs' = [logs EXCEPT ![j] = "completed"]
    <2>1. CASE ~ seen[w]
      BY <2>1 DEF CommitWrites
    <2>2. CASE seen[w]
      <3>1. logs[j] \in {"queued", "failed", "completed"}
        BY <1>0, <1>1, <2>2 DEF SessionOK, IngestOK, TypeOK, LogStatus
      <3>2. logs' = [logs EXCEPT ![j] = "completed"]
        BY <2>2 DEF CommitWrites
      <3>3. CASE logs[j] = "completed"
        <4>1. logs' = logs
          BY <1>0, <1>1, <3>2, <3>3 DEF TypeOK
        <4> QED BY <4>1
      <3> QED
        BY <3>1, <3>2, <3>3
    <2> QED
      BY <2>1, <2>2
  <1>6. CASE Stored(l)
    <2>1. {k \in Leads : Stored(k)}' = {k \in Leads : Stored(k)}
      BY <1>1, <1>4, <1>6
    <2> QED
      BY <1>1, <1>5, <1>6, <2>1
      DEF Ledger!Next, Ledger!Acknowledge, Ledger!Completes, Ledger!vars
  <1>7. CASE ~ Stored(l)
    BY <1>1, <1>4, <1>5, <1>7
    DEF Ledger!Next, Ledger!Capture, Ledger!Completes
  <1> QED
    BY <1>6, <1>7

\* The webhook's commit records one delivery; its other steps are not visible.
LEMMA LedgerRecord ==
    ASSUME IInv, NEW d \in Deliveries, Receive(d) \/ Ingest(d) \/ IngestFault(d)
    PROVE  [Ledger!Next]_(Ledger!vars)
  <1>0. TypeOK /\ TypeOK' /\ IngestOK
    BY TypeIngest DEF IInv
  <1>1. rows' = rows
    BY DEF Receive, Ingest, IngestFault, SkipChange, LogChange, DelayOk,
       DelayFails, CommitLogs, IngestFails, ApiCrash, tableVars
  <1>2. {k \in Leads : Stored(k)}' = {k \in Leads : Stored(k)}
    BY <1>1 DEF Stored
  <1>3. CASE logs' = logs
    BY <1>2, <1>3 DEF Ledger!vars
  <1>4. CASE logs' # logs
    <2>1. CommitLogs(d)
      BY <1>4 DEF Receive, Ingest, IngestFault, SkipChange, LogChange, DelayOk,
         DelayFails, IngestFails, ApiCrash
    <2>2. PICK i \in Jobs : DeliveryOf[i] = d
      <3>1. logs' = [j \in Jobs |-> IF DeliveryOf[j] = d THEN staged[j] ELSE logs[j]]
        BY <2>1 DEF CommitLogs
      <3>2. CASE \A j \in Jobs : DeliveryOf[j] # d
        <4>1. logs' = logs
          BY <1>0, <3>1, <3>2 DEF TypeOK
        <4> QED BY <1>4, <4>1
      <3> QED BY <3>2
    <2>3. \A j \in Jobs : DeliveryOf[j] = d =>
              logs[j] = "none" /\ logs'[j] \in {"queued", "failed"}
      <3> SUFFICES ASSUME NEW j \in Jobs, DeliveryOf[j] = d
                   PROVE  logs[j] = "none" /\ logs'[j] \in {"queued", "failed"}
        OBVIOUS
      <3>1. hook[d] = "loop" /\ pos[d] > Len(Payload[d]) /\ logs'[j] = staged[j]
        BY <2>1 DEF CommitLogs
      <3>2. j[2] \in DOMAIN Payload[d] /\ Payload[d] \in Seq(Change)
        BY JobFields, PipelineConstants DEF Jobs
      <3>3. j[2] < pos[d]
        BY <1>0, <3>1, <3>2 DEF TypeOK
      <3> QED
        BY <1>0, <3>1, <3>3 DEF IngestOK
    <2>4. \A j \in Jobs : DeliveryOf[j] # d => logs'[j] = logs[j]
      BY <2>1 DEF CommitLogs
    <2>5. logs' \in [Jobs -> {"none", "queued", "failed", "completed"}]
      <3>1. logs' \in [Jobs -> LogStatus]
        BY <1>0 DEF TypeOK
      <3>2. \A j \in Jobs : logs'[j] # "pending"
        BY <1>0, <2>3, <2>4 DEF IngestOK
      <3> QED BY <3>1, <3>2 DEF LogStatus
    <2>6. Ledger!Record(DeliveryOf[i])
      BY <1>2, <2>2, <2>3, <2>4, <2>5 DEF Ledger!Record
    <2> QED
      BY <2>2, <2>6 DEF Ledger!Next
  <1> QED
    BY <1>3, <1>4

LEMMA LedgerNext == IInv /\ [Next]_vars => [Ledger!Next]_(Ledger!vars)
  <1> SUFFICES ASSUME IInv, [Next]_vars PROVE [Ledger!Next]_(Ledger!vars)
    OBVIOUS
  <1>1. CASE \E w \in Workers : CommitWrites(w)
    BY <1>1, LedgerCommit
  <1>2. CASE \E d \in Deliveries : Receive(d) \/ Ingest(d) \/ IngestFault(d)
    BY <1>2, LedgerRecord
  <1>3. CASE UNCHANGED <<rows, logs>>
    <2>1. {k \in Leads : Stored(k)}' = {k \in Leads : Stored(k)}
      BY <1>3 DEF Stored
    <2> QED
      BY <1>3, <2>1 DEF Ledger!vars
  <1>4. ASSUME NEW w \in Workers, Take(w) \/ Work(w) \/ WorkerFault(w),
               ~ CommitWrites(w)
        PROVE  UNCHANGED <<rows, logs>>
    BY <1>4 DEF Take, Work, WorkerFault, FindPage, FindExisting, FetchLead,
       InsertLead, InsertRow, Announce, FindLog, CommitTask, Retry, Settle, Ack,
       TaskFails, RetryRejected, HardKill, WorkerCrash, Interrupted, RollbackTx,
       tableVars
  <1>5. ASSUME NEW p \in Pages, SyncPage(p) PROVE UNCHANGED <<rows, logs>>
    BY <1>5 DEF SyncPage, tableVars
  <1> QED
    BY <1>1, <1>2, <1>3, <1>4, <1>5 DEF Next, Done, vars

\* The pipeline implements LeadLedger: whatever is lost, repeated or raced, the
\* tables change only as the ledger allows.
THEOREM Refinement == Spec => LedgerSpec
  BY LedgerInit, LedgerNext, Inductive, PTL DEF Spec, LedgerSpec, Ledger!Spec
-----------------------------------------------------------------------------
(* NoSilentLoss: nothing that is on record as queued gets lost             *)

WorkerStep(w) == Take(w) \/ Work(w) \/ WorkerFault(w)

\* A message that was published is there.
LEMMA Published ==
    ASSUME queue \in [Message -> Nat], NEW m \in Message, NEW n \in Nat \ {0}, Publish(m, n)
    PROVE  queue'[m] > 0
  BY DEF Publish

\* Publishing takes no message away.
LEMMA PublishKeeps ==
    ASSUME queue \in [Message -> Nat], NEW x, NEW n \in Nat, Publish(x, n),
           NEW m \in Message, queue[m] > 0
    PROVE  queue'[m] > 0
  BY DEF Publish

LEMMA RetryIsMessage ==
    ASSUME TypeOK, NEW w \in Workers, msg[w] \in Message, msg[w].retries < MaxRetries
    PROVE  /\ [msg[w] EXCEPT !.retries = @ + 1] \in Message
           /\ [msg[w] EXCEPT !.retries = @ + 1].job = msg[w].job
           /\ [msg[w] EXCEPT !.retries = @ + 1].retries > msg[w].retries
  <1>1. msg[w].job \in Jobs /\ msg[w].retries \in Nat /\ MaxRetries \in Nat
    BY PipelineConstants DEF Message
  <1>2. msg[w] = [job |-> msg[w].job, retries |-> msg[w].retries]
    BY DEF Message
  <1> QED
    BY <1>1, <1>2 DEF Message

\* A slot that takes a message removes a copy of it; no other step of a slot
\* removes any.
LEMMA QueueOfWork ==
    ASSUME TypeOK, NEW w \in Workers, WorkerStep(w), NEW m \in Message, queue[m] > 0
    PROVE  \/ queue'[m] > 0
           \/ Take(w) /\ msg'[w] = m /\ Due(m)
  <1> USE DEF TypeOK
  <1>1. CASE Take(w)
    <2>1. PICK x \in Message : /\ Due(x)
                               /\ queue' = [queue EXCEPT ![x] = @ - 1]
                               /\ msg' = [msg EXCEPT ![w] = x]
      BY <1>1 DEF Take
    <2>2. CASE x = m
      BY <1>1, <2>1, <2>2
    <2>3. CASE x # m
      BY <2>1, <2>3
    <2> QED
      BY <2>2, <2>3
  <1>2. CASE Retry(w)
    BY <1>2, PublishKeeps DEF Retry
  <1>3. CASE RetryRejected(w)
    BY <1>3, PublishKeeps DEF RetryRejected
  <1>4. CASE WorkerCrash(w)
    BY <1>4, PublishKeeps, 1 \in Nat DEF WorkerCrash
  <1>5. CASE UNCHANGED queue
    BY <1>5
  <1> QED
    BY <1>1, <1>2, <1>3, <1>4, <1>5
    DEF WorkerStep, Work, WorkerFault, FindPage, FindExisting, FetchLead, InsertLead,
        Announce, FindLog, CommitTask, Settle, Ack, TaskFails, HardKill

\* A step of slot w is not one of another slot.
LEMMA OtherSlots ==
    ASSUME TypeOK, NEW w \in Workers, WorkerStep(w), NEW u \in Workers \ {w}
    PROVE  pc'[u] = pc[u] /\ msg'[u] = msg[u] /\ outcome'[u] = outcome[u]
  BY DEF TypeOK, WorkerStep, Take, Work, WorkerFault, FindPage, FindExisting, FetchLead,
     InsertLead, Announce, FindLog, CommitTask, Retry, Settle, Ack, TaskFails,
     RetryRejected, HardKill, WorkerCrash, Goto, Ends, Release

\* Results are stored when an attempt is settled, and for one that is killed.
LEMMA ResultOfWork ==
    ASSUME TypeOK, NEW w \in Workers, WorkerStep(w), NEW j \in Jobs, results'[j] # results[j]
    PROVE  /\ j = JobAt(w) /\ results[j] \notin Success
           /\ \/ Settle(w) /\ results'[j] = outcome[w]
              \/ HardKill(w) /\ results'[j] = "failure"
  <1>1. CASE Settle(w)
    BY <1>1 DEF Settle, StoreResult, TypeOK
  <1>2. CASE HardKill(w)
    BY <1>2 DEF HardKill, StoreResult, TypeOK
  <1> QED
    BY <1>1, <1>2
    DEF WorkerStep, Take, Work, WorkerFault, FindPage, FindExisting, FetchLead, InsertLead,
        Announce, FindLog, CommitTask, Retry, Ack, TaskFails, RetryRejected, WorkerCrash,
        tailVars

\* Whoever settles or kills an attempt leaves the job accounted for.
LEMMA SettledIsAccounted ==
    ASSUME IInv, LossInv, [Next]_vars, NEW w \in Workers, Settle(w)
    PROVE  Accounted(JobAt(w))'
  <1> DEFINE j == JobAt(w)
  <1>1. /\ TypeOK /\ pc[w] = "settle" /\ msg' = msg /\ queue' = queue
        /\ StoreResult(j, outcome[w])
    BY DEF IInv, Settle
  <1>2. j \in Jobs /\ LeadAt(w) = LeadOf[j] /\ LeadOf[j] \in Leads
    BY <1>1, LeadAtType
  <1>3. j' = j
    BY <1>1 DEF JobAt
  <1>4. Stored(LeadOf[j]) => Stored(LeadOf[j])'
    BY <1>1, <1>2, <1>3, RowsGrow DEF Stored
  <1>5. CASE outcome[w] = "retry"
    BY <1>1, <1>3, <1>5 DEF LossInv, RetryWaits, Accounted, InHand
  <1>6. CASE outcome[w] = "ok"
    BY <1>1, <1>2, <1>3, <1>4, <1>6 DEF LossInv, Accounted, Stored
  <1>7. CASE outcome[w] \in {"skipped", "failure"}
    <2>1. CASE results[j] = "ok"
      BY <1>2, <1>3, <1>4, <2>1 DEF LossInv, Accounted, Stored
    <2>2. CASE results[j] # "ok"
      <3>1. results'[j] \in {"skipped", "failure"}
        BY <1>1, <1>2, <1>7, <2>2 DEF TypeOK, StoreResult, Success
      <3> QED
        BY <1>3, <3>1 DEF Accounted
    <2> QED
      BY <2>1, <2>2
  <1>8. outcome[w] \in {"ok", "skipped", "retry", "failure"}
    BY <1>1 DEF LossInv, TypeOK
  <1> QED
    BY <1>5, <1>6, <1>7, <1>8

LEMMA KilledIsAccounted ==
    ASSUME IInv, LossInv, [Next]_vars, NEW w \in Workers, HardKill(w),
           NEW j \in Jobs, j = JobAt(w)
    PROVE  Accounted(j)'
  <1>1. TypeOK /\ StoreResult(j, "failure")
    BY DEF IInv, HardKill
  <1>2. CASE results[j] = "ok"
    BY <1>1, <1>2, JobFields, RowsGrow DEF LossInv, Accounted, Stored
  <1>3. CASE results[j] # "ok"
    <2>1. results'[j] \in {"skipped", "failure"}
      BY <1>1, <1>3 DEF TypeOK, StoreResult, Success
    <2> QED
      BY <2>1 DEF Accounted
  <1> QED
    BY <1>2, <1>3

\* A slot hands its job on before it lets go of it: to the queue, to the tables,
\* to the result backend or to the task-rejected event.
LEMMA ResponsibleHandsOn ==
    ASSUME IInv, LossInv, [Next]_vars, NEW w \in Workers, WorkerStep(w), Responsible(w),
           NEW j \in Jobs, j = JobAt(w)
    PROVE  Accounted(j)'
  <1> USE DEF Goto, Ends
  <1>0. TypeOK /\ TypeOK' /\ SessionOK(w)
    BY TypeNext DEF IInv
  <1>1. pc[w] \notin {"idle", "ack"} /\ msg[w] \in Message /\ pc[w] \in TaskPc
    BY <1>0 DEF Responsible, InSession, TypeOK
  <1>2. ASSUME msg' = msg, Responsible(w)' PROVE Accounted(j)'
    BY <1>2 DEF Accounted, InHand, JobAt
  <1>3. CASE FindPage(w)
    <2>1. \/ pc'[w] \in {"existing", "raised"}
          \/ pc'[w] = "settle" /\ outcome'[w] = "skipped"
      BY <1>0, <1>3 DEF FindPage, TypeOK
    <2> QED
      BY <1>2, <1>3, <2>1 DEF FindPage, Responsible, InSession
  <1>4. CASE FindExisting(w) \/ FetchLead(w) \/ InsertLead(w) \/ Announce(w) \/ FindLog(w)
    <2>1. msg' = msg /\ pc'[w] \in InSession \cup {"raised"}
      BY <1>0, <1>4
      DEF FindExisting, FetchLead, InsertLead, Announce, FindLog, TypeOK, InSession
    <2> QED
      BY <1>2, <2>1 DEF Responsible
  <1>5. CASE CommitTask(w)
    <2>1. msg' = msg /\ pc'[w] = "settle" /\ outcome'[w] = "ok"
      BY <1>0, <1>5 DEF CommitTask, TypeOK
    <2> QED
      BY <1>2, <2>1 DEF Responsible
  <1>6. CASE Retry(w)
    <2>1. CASE msg[w].retries < MaxRetries
      <3>0. msg[w].retries # MaxRetries
        BY <1>1, <2>1, PipelineConstants DEF Message
      <3>1. PICK n \in 1..MaxCopies : Publish([msg[w] EXCEPT !.retries = @ + 1], n)
        BY <1>6, <3>0 DEF Retry
      <3>2. n \in Nat \ {0} /\ queue \in [Message -> Nat]
        BY <1>0, PipelineConstants DEF TypeOK
      <3>3. queue'[[msg[w] EXCEPT !.retries = @ + 1]] > 0
        BY <1>0, <1>1, <2>1, <3>1, <3>2, RetryIsMessage, Published
      <3> QED
        BY <1>0, <1>1, <2>1, <3>3, RetryIsMessage DEF Accounted, InHand, JobAt
    <2>2. CASE ~ msg[w].retries < MaxRetries
      <3>1. msg' = msg /\ pc'[w] = "settle" /\ outcome'[w] = "failure"
        BY <1>0, <1>6, <2>2 DEF Retry, TypeOK
      <3> QED
        BY <1>2, <3>1 DEF Responsible
    <2> QED
      BY <2>1, <2>2
  <1>7. CASE Settle(w)
    <2>1. JobAt(w)' = JobAt(w)
      BY <1>7 DEF Settle, JobAt
    <2> QED
      BY <1>7, <2>1, SettledIsAccounted DEF Accounted, InHand
  <1>8. CASE TaskFails(w)
    <2>1. msg' = msg /\ pc'[w] = "raised"
      BY <1>0, <1>8 DEF TaskFails, TypeOK
    <2> QED
      BY <1>2, <2>1 DEF Responsible
  <1>9. CASE RetryRejected(w)
    BY <1>9 DEF RetryRejected, Accounted
  <1>10. CASE HardKill(w)
    BY <1>10, KilledIsAccounted
  <1>11. CASE WorkerCrash(w)
    <2>1. queue'[msg[w]] > 0
      BY <1>0, <1>1, <1>11, Published, 1 \in Nat \ {0} DEF WorkerCrash, TypeOK
    <2> QED
      BY <1>1, <2>1 DEF Accounted, InHand, JobAt
  <1>12. ~ Take(w) /\ ~ Ack(w)
    BY <1>1 DEF Take, Ack
  <1> QED
    BY <1>3, <1>4, <1>5, <1>6, <1>7, <1>8, <1>9, <1>10, <1>11, <1>12
    DEF WorkerStep, Work, WorkerFault

\* What is accounted for stays so, whatever a slot does.
LEMMA AccountedByWork ==
    ASSUME IInv, LossInv, [Next]_vars, NEW w \in Workers, WorkerStep(w),
           NEW j \in Jobs, Accounted(j)
    PROVE  Accounted(j)'
  <1>0. TypeOK
    BY DEF IInv
  <1>1. ASSUME NEW m \in Message, m.job = j, queue[m] > 0 PROVE Accounted(j)'
    <2>1. CASE queue'[m] > 0
      BY <1>1, <2>1 DEF Accounted, InHand
    <2>2. CASE Take(w) /\ msg'[w] = m
      <3>1. pc'[w] = "page"
        BY <1>0, <2>2 DEF Take, Goto, TypeOK
      <3> QED
        BY <1>1, <2>2, <3>1 DEF Accounted, InHand, Responsible, InSession, JobAt
    <2> QED
      BY <1>0, <1>1, <2>1, <2>2, QueueOfWork
  <1>2. ASSUME NEW u \in Workers, Responsible(u), JobAt(u) = j PROVE Accounted(j)'
    <2>1. CASE u = w
      BY <1>2, <2>1, ResponsibleHandsOn
    <2>2. CASE u # w
      BY <1>0, <1>2, <2>2, OtherSlots DEF Accounted, InHand, Responsible, JobAt
    <2> QED
      BY <2>1, <2>2
  <1>3. CASE Stored(LeadOf[j])
    BY <1>0, <1>3, JobFields, RowsGrow DEF Accounted, Stored
  <1>4. CASE results[j] \in {"skipped", "failure"}
    <2>1. CASE results'[j] = results[j]
      BY <1>4, <2>1 DEF Accounted
    <2>2. CASE results'[j] # results[j]
      <3>1. j = JobAt(w) /\ (Settle(w) \/ HardKill(w))
        BY <1>0, <2>2, ResultOfWork
      <3>2. Settle(w) => JobAt(w)' = JobAt(w)
        BY DEF Settle, JobAt
      <3> QED
        BY <3>1, <3>2, SettledIsAccounted, KilledIsAccounted DEF Accounted, InHand
    <2> QED
      BY <2>1, <2>2
  <1>5. CASE j \in rejected
    <2>1. rejected \subseteq rejected'
      BY DEF WorkerStep, Take, Work, WorkerFault, FindPage, FindExisting, FetchLead,
         InsertLead, Announce, FindLog, CommitTask, Retry, Settle, Ack, TaskFails,
         RetryRejected, HardKill, WorkerCrash, tailVars
    <2> QED
      BY <1>5, <2>1 DEF Accounted
  <1> QED
    BY <1>1, <1>2, <1>3, <1>4, <1>5 DEF Accounted, InHand

\* An attempt whose outcome is not stored yet is as LossInv says.
SettlingOK(w) ==
    pc[w] = "settle" =>
        /\ outcome[w] # "none"
        /\ outcome[w] = "ok" => Stored(LeadAt(w))
        /\ outcome[w] = "retry" => RetryWaits(w)

\* The slot itself ends an attempt with an outcome that is true.
LEMMA SettlingByOwner ==
    ASSUME IInv, LossInv, [Next]_vars, NEW w \in Workers, WorkerStep(w)
    PROVE  SettlingOK(w)'
  <1> USE DEF Goto, Ends
  <1>0. TypeOK /\ TypeOK' /\ SessionOK(w)
    BY TypeNext DEF IInv
  <1>1. CASE FindPage(w)
    <2>1. pc'[w] = "settle" => outcome'[w] = "skipped"
      BY <1>0, <1>1 DEF FindPage, TypeOK
    <2> QED
      BY <2>1 DEF SettlingOK
  <1>2. CASE CommitTask(w)
    <2>1. pc[w] = "commit" /\ msg' = msg /\ outcome'[w] = "ok"
      BY <1>0, <1>2 DEF CommitTask, CommitWrites, TypeOK
    <2>2. LeadAt(w) \in Leads /\ Visible(w, LeadAt(w)) /\ LeadAt(w)' = LeadAt(w)
      BY <1>0, <2>1, LeadAtType DEF SessionOK, LeadAt
    <2>3. Stored(LeadAt(w))'
      BY <1>0, <1>2, <2>2
      DEF CommitTask, CommitWrites, CommitTx, Visible, Stored, TypeOK, TableType
    <2> QED
      BY <2>1, <2>3 DEF SettlingOK
  <1>3. CASE Retry(w)
    <2>0. msg[w] \in Message /\ msg' = msg
      BY <1>0, <1>3 DEF Retry, TypeOK
    <2>1. CASE msg[w].retries = MaxRetries
      <3>1. outcome'[w] = "failure"
        <4>1. ~ msg[w].retries < MaxRetries
          BY <2>0, <2>1, PipelineConstants DEF Message
        <4> QED
          BY <1>0, <1>3, <4>1 DEF Retry, TypeOK
      <3> QED
        BY <3>1 DEF SettlingOK
    <2>2. CASE msg[w].retries # MaxRetries
      <3>1. PICK n \in 1..MaxCopies : Publish([msg[w] EXCEPT !.retries = @ + 1], n)
        BY <1>3, <2>2 DEF Retry
      <3>2. n \in Nat \ {0} /\ queue \in [Message -> Nat]
        BY <1>0, PipelineConstants DEF TypeOK
      <3>3. outcome'[w] = "retry" /\ msg[w].retries < MaxRetries
        BY <1>0, <1>3, <2>2 DEF Retry, TypeOK
      <3>4. queue'[[msg[w] EXCEPT !.retries = @ + 1]] > 0
        BY <1>0, <2>0, <3>1, <3>2, <3>3, RetryIsMessage, Published
      <3>5. RetryWaits(w)'
        BY <1>0, <2>0, <3>3, <3>4, RetryIsMessage DEF RetryWaits, JobAt
      <3> QED
        BY <3>3, <3>5 DEF SettlingOK
    <2> QED
      BY <2>1, <2>2
  <1>4. CASE ~ FindPage(w) /\ ~ CommitTask(w) /\ ~ Retry(w)
    <2>1. pc'[w] # "settle"
      BY <1>0, <1>4
      DEF WorkerStep, Take, Work, WorkerFault, FindExisting, FetchLead, InsertLead,
          Announce, FindLog, Settle, Ack, TaskFails, RetryRejected, HardKill,
          WorkerCrash, Release, TypeOK
    <2> QED
      BY <2>1 DEF SettlingOK
  <1> QED
    BY <1>1, <1>2, <1>3, <1>4

\* No other slot takes the retry away before the attempt is settled: Due.
LEMMA SettlingByOthers ==
    ASSUME IInv, LossInv, [Next]_vars, NEW w \in Workers, WorkerStep(w),
           NEW u \in Workers \ {w}
    PROVE  SettlingOK(u)'
  <1>0. TypeOK /\ SettlingOK(u)
    BY DEF IInv, LossInv, SettlingOK
  <1>1. pc'[u] = pc[u] /\ msg'[u] = msg[u] /\ outcome'[u] = outcome[u]
    BY <1>0, OtherSlots
  <1> SUFFICES ASSUME pc[u] = "settle" PROVE SettlingOK(u)'
    BY <1>1 DEF SettlingOK
  <1>2. LeadAt(u) \in Leads /\ LeadAt(u)' = LeadAt(u) /\ msg[u] \in Message
    BY <1>0, <1>1, LeadAtType DEF LeadAt, TypeOK
  <1>3. Stored(LeadAt(u)) => Stored(LeadAt(u))'
    BY <1>0, <1>2, RowsGrow DEF Stored
  <1>4. ASSUME outcome[u] = "retry" PROVE RetryWaits(u)'
    <2>1. PICK m \in Message : m.job = JobAt(u) /\ m.retries > msg[u].retries /\ queue[m] > 0
      BY <1>0, <1>4 DEF SettlingOK, RetryWaits
    <2>2. ~ Due(m)
      BY <1>2, <1>4, <2>1, PipelineConstants DEF Due, Message
    <2>3. queue'[m] > 0
      BY <1>0, <2>1, <2>2, QueueOfWork
    <2> QED
      BY <1>1, <2>1, <2>3 DEF RetryWaits, JobAt
  <1> QED
    BY <1>0, <1>1, <1>3, <1>4 DEF SettlingOK

LEMMA LossByWork ==
    ASSUME IInv, LossInv, [Next]_vars, NEW w \in Workers, WorkerStep(w)
    PROVE  LossInv'
  <1>0. TypeOK /\ TypeOK' /\ \A u \in Workers : SettlingOK(u)
    BY TypeNext DEF IInv, LossInv, SettlingOK
  <1>1. ASSUME NEW j \in Jobs, logs'[j] = "queued" \/ staged'[j] = "queued"
        PROVE  Accounted(j)'
    <2>1. staged' = staged /\ LogStep(w)
      BY WorkWritesLogs DEF WorkerStep, hookVars
    <2>2. logs[j] = "queued" \/ staged[j] = "queued"
      BY <1>0, <1>1, <2>1 DEF LogStep, TypeOK
    <2> QED
      BY <2>2, AccountedByWork DEF LossInv
  <1>2. ASSUME NEW u \in Workers PROVE SettlingOK(u)'
    BY SettlingByOwner, SettlingByOthers
  <1>3. ASSUME NEW j \in Jobs, results'[j] = "ok" PROVE Stored(LeadOf[j])'
    <2>1. CASE results[j] = "ok"
      BY <1>0, <2>1, JobFields, RowsGrow DEF LossInv, Stored
    <2>2. CASE results[j] # "ok"
      <3>1. j = JobAt(w) /\ Settle(w) /\ outcome[w] = "ok"
        BY <1>0, <1>3, <2>2, ResultOfWork
      <3>2. Stored(LeadOf[j])
        BY <1>0, <3>1, LeadAtType DEF SettlingOK, Settle
      <3> QED
        BY <1>0, <3>2, JobFields, RowsGrow DEF Stored
    <2> QED
      BY <2>1, <2>2
  <1> QED
    BY <1>1, <1>2, <1>3 DEF LossInv, SettlingOK

\* A row says "queued" only when the message is in the queue.
LEMMA LossByWebhook ==
    ASSUME IInv, LossInv, NEW d \in Deliveries, Receive(d) \/ Ingest(d) \/ IngestFault(d)
    PROVE  LossInv'
  <1>0. TypeOK /\ IngestOK
    BY DEF IInv
  <1>1. UNCHANGED <<rows, pc, msg, outcome, results, rejected>>
    BY DEF Receive, Ingest, IngestFault, SkipChange, LogChange, DelayOk,
       DelayFails, CommitLogs, IngestFails, ApiCrash, tableVars, taskVars, tailVars
  <1>2. ASSUME NEW m \in Message, queue[m] > 0 PROVE queue'[m] > 0
    <2>1. CASE DelayOk(d)
      BY <1>0, <1>2, <2>1, PublishKeeps, PipelineConstants DEF DelayOk, TypeOK
    <2>2. CASE DelayFails(d)
      BY <1>0, <1>2, <2>2, PublishKeeps, PipelineConstants DEF DelayFails, TypeOK
    <2> QED
      BY <1>2, <2>1, <2>2 DEF Receive, Ingest, IngestFault, SkipChange, LogChange,
         CommitLogs, IngestFails, ApiCrash
  <1>3. ASSUME NEW j \in Jobs, Accounted(j) PROVE Accounted(j)'
    BY <1>1, <1>2, <1>3 DEF Accounted, InHand, Responsible, JobAt, Stored
  <1>4. ASSUME NEW j \in Jobs, logs'[j] = "queued" \/ staged'[j] = "queued"
        PROVE  Accounted(j)'
    <2>1. CASE logs[j] = "queued" \/ staged[j] = "queued"
      BY <1>3, <2>1 DEF LossInv
    <2>2. CASE ~ (logs[j] = "queued" \/ staged[j] = "queued")
      <3>1. DelayOk(d) /\ j = <<d, pos[d]>>
        <4>1. CASE DelayOk(d)
          BY <1>0, <1>4, <2>2, <4>1 DEF DelayOk, TypeOK
        <4>2. CASE DelayFails(d)
          BY <1>0, <1>4, <2>2, <4>2 DEF DelayFails, TypeOK
        <4>3. CASE CommitLogs(d)
          BY <1>4, <2>2, <4>3 DEF CommitLogs, Unstage
        <4>4. CASE LogChange(d)
          BY <1>0, <1>4, <2>2, <4>4 DEF LogChange, TypeOK
        <4>5. CASE Receive(d) \/ SkipChange(d)
          BY <1>4, <2>2, <4>5 DEF Receive, SkipChange
        <4>6. CASE IngestFails(d) \/ ApiCrash(d)
          BY <1>4, <2>2, <4>6 DEF IngestFails, ApiCrash, Unstage
        <4> QED
          BY <4>1, <4>2, <4>3, <4>4, <4>5, <4>6 DEF Ingest, IngestFault
      <3>2. FirstMessage(d) \in Message /\ FirstMessage(d).job = j
        BY <3>1, PipelineConstants DEF FirstMessage, Message
      <3>3. PICK n \in 1..MaxCopies : Publish(FirstMessage(d), n)
        BY <3>1 DEF DelayOk
      <3>4. queue'[FirstMessage(d)] > 0
        BY <1>0, <3>2, <3>3, Published, PipelineConstants DEF TypeOK
      <3> QED
        BY <3>2, <3>4 DEF Accounted, InHand
    <2> QED
      BY <2>1, <2>2
  <1>5. ASSUME NEW w \in Workers PROVE SettlingOK(w)'
    BY <1>1, <1>2 DEF LossInv, SettlingOK, RetryWaits, LeadAt, JobAt, Stored
  <1>6. \A j \in Jobs : results'[j] = "ok" => Stored(LeadOf[j])'
    BY <1>1 DEF LossInv, Stored
  <1> QED
    BY <1>4, <1>5, <1>6 DEF LossInv, SettlingOK

LEMMA LossNext ==
    ASSUME IInv, LossInv, [Next]_vars
    PROVE  LossInv'
  <1>1. CASE \E w \in Workers : WorkerStep(w)
    BY <1>1, LossByWork
  <1>2. CASE \E d \in Deliveries : Receive(d) \/ Ingest(d) \/ IngestFault(d)
    BY <1>2, LossByWebhook
  <1>3. CASE UNCHANGED <<rows, staged, logs, queue, taskVars, results, rejected>>
    BY <1>3 DEF LossInv, Accounted, InHand, Responsible, RetryWaits, JobAt, LeadAt,
       Stored, taskVars
  <1>4. ASSUME NEW p \in Pages, SyncPage(p)
        PROVE  UNCHANGED <<rows, staged, logs, queue, taskVars, results, rejected>>
    BY <1>4 DEF SyncPage, tableVars, hookVars
  <1> QED
    BY <1>1, <1>2, <1>3, <1>4 DEF Next, WorkerStep, Done, vars, taskVars

\* What accounts for a job is never given up before something else does, for all constants.
THEOREM LossInductive == Spec => []LossInv
  <1>1. Init => LossInv
    BY PipelineConstants DEF Init, LossInv
  <1> QED
    BY <1>1, LossNext, Inductive, PTL DEF Spec

\* A change recorded as queued is never forgotten silently, for any number of
\* deliveries, slots, copies, retries and faults: acks_late, and a retry that is
\* published before the message is acknowledged, are enough.
THEOREM NothingLostSilently == Spec => []NoSilentLoss
  <1>1. IInv /\ LossInv => NoSilentLoss
    BY DEF IInv, TypeOK, LossInv, NoSilentLoss, Accounted, InHand, Outstanding,
       Responsible, InSession
  <1> QED
    BY <1>1, LossInductive, Inductive, PTL

-----------------------------------------------------------------------------
(* PhantomNeedsFault                                                       *)

\* Only a fault ends a session that has inserted a lead without its commit.
LEMMA InsertsAreKept ==
    ASSUME IInv, NEW w \in Workers, WorkerStep(w), NEW l \in Leads, l \in open[w]
    PROVE  \/ l \in open'[w]
           \/ Stored(l)'
           \/ \E k \in {"task", "kill", "crash"} : faults'[k] > 0
  <1>0. TypeOK /\ SessionOK(w) /\ w \in Txs
    BY PipelineConstants DEF IInv
  <1>1. pc[w] \in {"announce", "mark", "commit"}
    BY <1>0 DEF SessionOK
  <1>2. ASSUME NEW k \in {"task", "kill", "crash"}, Fault(k) PROVE faults'[k] > 0
    BY <1>0, <1>2 DEF Fault, TypeOK, FaultKinds
  <1>3. CASE TaskFails(w) \/ HardKill(w) \/ WorkerCrash(w)
    BY <1>2, <1>3 DEF TaskFails, HardKill, WorkerCrash
  <1>4. CASE CommitTask(w)
    BY <1>0, <1>4 DEF CommitTask, CommitWrites, CommitTx, Stored, TypeOK, TableType
  <1>5. CASE Announce(w) \/ FindLog(w)
    BY <1>5 DEF Announce, FindLog, tableVars
  <1> QED
    BY <1>1, <1>3, <1>4, <1>5
    DEF WorkerStep, Take, Work, WorkerFault, FindPage, FindExisting, FetchLead,
        InsertLead, Retry, Settle, Ack, RetryRejected

LEMMA PhantomNext ==
    ASSUME IInv, PhantomNeedsFault, [Next]_vars
    PROVE  PhantomNeedsFault'
  <1>0. TypeOK /\ TypeOK' /\ \A w \in Workers : SessionOK(w)
    BY TypeNext DEF IInv
  <1> SUFFICES ASSUME NEW l \in Leads, l \in announced'
               PROVE  \/ Stored(l)'
                      \/ \E w \in Workers : l \in open'[w]
                      \/ \E k \in {"task", "kill", "crash"} : faults'[k] > 0
    BY <1>0 DEF PhantomNeedsFault, TypeOK
  <1>1. ASSUME NEW k \in FaultKinds, faults[k] > 0 PROVE faults'[k] > 0
    <2>1. \/ faults' = faults
          \/ \E x \in FaultKinds : Fault(x)
      BY DEF Next, Receive, Ingest, IngestFault, SkipChange, LogChange, DelayOk,
         DelayFails, CommitLogs, IngestFails, ApiCrash, Take, Work, WorkerFault,
         FindPage, FindExisting, FetchLead, InsertLead, Announce, FindLog, CommitTask,
         Retry, Settle, Ack, TaskFails, RetryRejected, HardKill, WorkerCrash, SyncPage,
         Done, vars, FaultKinds
    <2> QED
      BY <1>0, <1>1, <2>1 DEF Fault, TypeOK
  <1>2. CASE Stored(l)
    BY <1>0, <1>2, RowsGrow DEF Stored
  <1>3. ASSUME NEW k \in {"task", "kill", "crash"}, faults[k] > 0
        PROVE  faults'[k] > 0
    BY <1>1, <1>3 DEF FaultKinds
  <1>4. ASSUME NEW w \in Workers, l \in open[w]
        PROVE  \/ Stored(l)'
               \/ \E u \in Workers : l \in open'[u]
               \/ \E k \in {"task", "kill", "crash"} : faults'[k] > 0
    <2>1. CASE WorkerStep(w)
      BY <1>4, <2>1, InsertsAreKept
    <2>2. CASE ~ WorkerStep(w)
      <3>1. CASE \E u \in Workers : WorkerStep(u)
        <4>1. PICK u \in Workers : WorkerStep(u)
          BY <3>1
        <4>2. TableStep(u) /\ u # w
          BY <1>0, <2>2, <4>1, WorkUsesTable DEF WorkerStep
        <4>3. open'[w] = open[w]
          BY <1>0, <4>2, PipelineConstants
          DEF TableStep, InsertRow, CommitTx, RollbackTx, tableVars, TypeOK, TableType
        <4> QED
          BY <1>4, <4>3
      <3>2. CASE ~ \E u \in Workers : WorkerStep(u)
        BY <1>4, <3>2, OthersLeaveTable DEF WorkerStep, tableVars
      <3> QED
        BY <3>1, <3>2
    <2> QED
      BY <2>1, <2>2
  <1>5. CASE l \notin announced
    <2>1. PICK w \in Workers : Announce(w)
      BY <1>5 DEF Next, Receive, Ingest, IngestFault, SkipChange, LogChange, DelayOk,
         DelayFails, CommitLogs, IngestFails, ApiCrash, Take, Work, WorkerFault,
         FindPage, FindExisting, FetchLead, InsertLead, FindLog, CommitTask,
         Retry, Settle, Ack, TaskFails, RetryRejected, HardKill, WorkerCrash, SyncPage,
         Done, vars, tailVars
    <2>2. l = LeadAt(w) /\ Visible(w, l)
      BY <1>0, <1>5, <2>1 DEF Announce, SessionOK
    <2> QED
      BY <2>1, <2>2 DEF Announce, Visible, Stored, tableVars
  <1> QED
    BY <1>2, <1>3, <1>4, <1>5 DEF PhantomNeedsFault

\* An event without its lead is left behind by nothing but a task that failed
\* after it had published the event.
THEOREM PhantomsNeedFaults == Spec => []PhantomNeedsFault
  <1>1. Init => PhantomNeedsFault
    BY DEF Init, PhantomNeedsFault
  <1> QED
    BY <1>1, PhantomNext, Inductive, PTL DEF Spec
=============================================================================
