------------------------ MODULE MCWhatsAppCampaigns ------------------------
(***************************************************************************)
(* An instance of WhatsAppCampaigns for TLC.                               *)
(***************************************************************************)
EXTENDS WhatsAppCampaigns, TLC

CONSTANTS k1, k2, k3, t1, c1, c2, e1, x1, x2, u1, u2, old, new

\* One contact is another user's.
Owners == k1 :> u1 @@ k2 :> u1 @@ k3 :> u2 @@ t1 :> u1 @@ c1 :> u1 @@ c2 :> u1

AllByU1 == [r \in Edits \cup Deletes |-> u1]

\* One list names a contact twice, one another user's and one that may not be
\* there yet.
Named == [c \in Creates |-> {<<k1, k1>>, <<k3, k2>>}]

AtTheStart == {k1, k3, t1}

OneOfEach == [k \in FaultKinds |-> 1]
=============================================================================
