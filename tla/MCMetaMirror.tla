---------------------------- MODULE MCMetaMirror ----------------------------
(***************************************************************************)
(* Instances of MetaMirror for TLC.                                        *)
(***************************************************************************)
EXTENDS MetaMirror, TLC

CONSTANTS o1, o2, o3, o4, s1, s2, s3, c1, u1, budget, effective, on, null

KeyOrder == [o \in Objects |-> (o1 :> 1 @@ o2 :> 2 @@ o3 :> 3 @@ o4 :> 4)[o]]

\* What the syncs ask for: all objects, or the ad sets of the campaign created.
AllInScope  == [s \in Syncs |-> Objects]
AdsetsAlone == [s \in Syncs |-> {o3, o4}]

RefreshAll  == [s \in Syncs |-> Fields]

\* A campaign, which a repeated post may create twice, and its ad set likewise.
NoPool   == [c \in Creates |-> <<>>]
TwoPhase == [c \in Creates |-> <<{o1, o2}, {o3, o4}>>]

\* A campaign is created with an effective status and without a budget of its own;
\* the row of a create has no column set for the former.
AsCreated == [f \in Fields |-> IF f = effective THEN on ELSE null]
StoredColumns == [o \in Objects |-> Fields \ {effective}]

Targets == [u \in Updates |-> o1]
SetBudget == [u \in Updates |-> <<budget, on>>]
FollowUp  == [u \in Updates |-> {effective}]

NoFaults  == [k \in FaultKinds |-> 0]
OneOfEach == [k \in FaultKinds |-> 1]
CutOff    == [k \in FaultKinds |-> IF k \in {"store", "outside"} THEN 1 ELSE 0]
ThreeLost == ("unanswered" :> 3 @@ "outside" :> 0) @@ OneOfEach
=============================================================================
