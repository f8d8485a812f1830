----------------------------- MODULE LeadLedger -----------------------------
(***************************************************************************)
(* What the webhook side of the program promises: leads delivered by Meta  *)
(* are captured once each, and the audit row of a delivered change, which  *)
(* becomes visible together with the rows of its whole delivery, moves     *)
(* from "queued" or "failed" to "completed" only when the lead it reports  *)
(* is captured.  Nothing is ever un-captured or taken out of the audit.    *)
(***************************************************************************)
CONSTANTS
    Jobs,        \* one per leadgen change of a delivery
    DeliveryOf,  \* DeliveryOf[j]: the delivery job j came in
    LeadOf       \* LeadOf[j]: the lead job j reports

VARIABLES
    captured,    \* leads in the leads table
    audit        \* audit[j]: "none", "queued", "failed" or "completed"

vars == <<captured, audit>>

Init ==
    /\ captured = {}
    /\ audit = [j \in Jobs |-> "none"]

\* The audit rows of one delivery appear, all of them at once.
Record(d) ==
    /\ \A j \in Jobs : DeliveryOf[j] = d =>
          audit[j] = "none" /\ audit'[j] \in {"queued", "failed"}
    /\ audit' \in [Jobs -> {"none", "queued", "failed", "completed"}]
    /\ \A j \in Jobs : DeliveryOf[j] # d => audit'[j] = audit[j]
    /\ UNCHANGED captured

Completes(j) ==
    /\ audit[j] \in {"queued", "failed"}
    /\ audit' = [audit EXCEPT ![j] = "completed"]

\* A new lead is captured; the job's audit row, if it is there, is completed.
Capture(j) ==
    /\ LeadOf[j] \notin captured
    /\ captured' = captured \cup {LeadOf[j]}
    /\ Completes(j) \/ UNCHANGED audit

\* The lead was captured before: the job only completes its audit row.
Acknowledge(j) ==
    /\ LeadOf[j] \in captured
    /\ Completes(j)
    /\ UNCHANGED captured

Next ==
    \E j \in Jobs : Record(DeliveryOf[j]) \/ Capture(j) \/ Acknowledge(j)

Spec == Init /\ [][Next]_vars
=============================================================================
