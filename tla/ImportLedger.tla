---------------------------- MODULE ImportLedger ----------------------------
(***************************************************************************)
(* What a bulk import promises: it is all or nothing.  An import that      *)
(* answers has added, in one step, as many leads of its listing as it      *)
(* reports.  One that fails has added none, unless the outcome of its      *)
(* commit was not learnt: then all that it had counted, or none.           *)
(***************************************************************************)
EXTENDS Naturals, FiniteSets

CONSTANTS
    Importers,
    ListingOf    \* ListingOf[i]: the leads import i may find at Meta

VARIABLES
    captured,    \* leads in the leads table
    answer,      \* answer[i]: "none", "ok", "error" or, nobody answering, "lost"
    unclear,     \* imports whose commit was not answered
    counted      \* counted[i]: the leads that an answered or unclear import counted

vars == <<captured, answer, unclear, counted>>

Init ==
    /\ captured = {}
    /\ answer = [i \in Importers |-> "none"]
    /\ unclear = {}
    /\ counted = [i \in Importers |-> 0]

\* Import i counts the leads `new` of its listing, which the table lacks.
Count(i, new) ==
    /\ new \subseteq ListingOf[i] \ captured
    /\ counted' = [counted EXCEPT ![i] = Cardinality(new)]

Succeed(i) ==
    /\ answer[i] = "none"
    /\ \E new \in SUBSET ListingOf[i] :
          Count(i, new) /\ captured' = captured \cup new
    /\ answer' = [answer EXCEPT ![i] = "ok"]
    /\ UNCHANGED unclear

Fail(i) ==
    /\ answer[i] = "none"
    /\ answer' \in {[answer EXCEPT ![i] = a] : a \in {"error", "lost"}}
    /\ UNCHANGED <<captured, unclear, counted>>

FailUnclear(i) ==
    /\ answer[i] = "none"
    /\ answer' \in {[answer EXCEPT ![i] = a] : a \in {"error", "lost"}}
    /\ unclear' = unclear \cup {i}
    /\ \E new \in SUBSET ListingOf[i] :
          Count(i, new) /\ captured' \in {captured, captured \cup new}

Next == \E i \in Importers : Succeed(i) \/ Fail(i) \/ FailUnclear(i)

Spec == Init /\ [][Next]_vars
=============================================================================
