--------------------------- MODULE MCLeadPipeline ---------------------------
(***************************************************************************)
(* Instances of LeadPipeline for TLC.                                      *)
(***************************************************************************)
EXTENDS LeadPipeline, TLC

CONSTANTS d1, d2, p1, l1, l2, w1, w2

Lead(p, l)  == [leadgen |-> TRUE, page |-> p, lead |-> l]
Other(p, l) == [leadgen |-> FALSE, page |-> p, lead |-> l]

\* One lead, delivered twice.
Redelivered == d1 :> <<Lead(p1, l1)>> @@ d2 :> <<Lead(p1, l1)>>

\* One delivery: a lead, a change of another kind, and a second lead.
OneDelivery == d1 :> <<Lead(p1, l1), Other(p1, l1), Lead(p1, l2)>>

\* One delivery of one lead.
OneLead == d1 :> <<Lead(p1, l1)>>

Faults(delay, ingest, api, task, reject, kill, crash) ==
    [k \in FaultKinds |->
        CASE k = "delay"  -> delay
          [] k = "ingest" -> ingest
          [] k = "api"    -> api
          [] k = "task"   -> task
          [] k = "reject" -> reject
          [] k = "kill"   -> kill
          [] k = "crash"  -> crash]

\* Faults a worker recovers from by itself, faults that lose an attempt, and
\* faults of the ingest.
Retried == Faults(0, 0, 0, 1, 0, 0, 1)
Losing  == Faults(1, 0, 0, 1, 1, 1, 1)
Exhausting == Faults(0, 0, 0, 2, 0, 0, 0)
IngestFaults == Faults(1, 1, 1, 0, 0, 0, 0)

Slots == Permutations({w1, w2})
=============================================================================
