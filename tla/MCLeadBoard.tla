---------------------------- MODULE MCLeadBoard ----------------------------
(***************************************************************************)
(* An instance of LeadBoard for TLC: one lead stored before, a bulk import *)
(* of two and two webhook leads, and in turn a stream, a walk, updates of  *)
(* the status, and a dashboard.                                            *)
(***************************************************************************)
EXTENDS LeadBoard, TLC

CONSTANTS b0, b1, b2, b3, x0, x1, x2, y, z, k1, w1, u1, u2, u3, d1

With == x0 :> b0 @@ x1 :> b1 @@ x2 :> b1 @@ y :> b2 @@ z :> b3

\* Only x0 is of an earlier day; the week began after the month did, or before.
Starts == [p \in Periods |->
             IF p = "today" THEN {x1, x2, y, z} ELSE IF p \in {"week", "days"} THEN {x0, x1, x2, y, z}
             ELSE {x1, x2, y, z}]

Groups == {{k1, b1, b2}, {w1, b1, b2, b3}, {u1, u2, u3}, {d1, u1, b1, b2}}

OneOfEach == [k \in FaultKinds |-> 1]
=============================================================================
