---------------------------- MODULE MCBulkImport ----------------------------
(***************************************************************************)
(* Instances of BulkImport for TLC.                                        *)
(***************************************************************************)
EXTENDS BulkImport, TLC

CONSTANTS i1, i2, i3, l1, l2, l3, p1, p2

\* Three imports that meet the same leads in different orders.
Crossing == i1 :> <<l1, l2, l3>> @@ i2 :> <<l2, l1>> @@ i3 :> <<l3, l2>>

\* The first import takes its forms from the asset, which lists one with l1, and
\* from the business, which lists one with l2 and l3; the others raise.
WithoutSome == i1 :> {<<l1>>, <<l2, l3>>, <<>>} @@ i2 :> {} @@ i3 :> {}

\* The second import is another user's, of the same leads.
Rows == i1 :> p1 @@ i2 :> p2 @@ i3 :> p1

OneOfEach == [k \in FaultKinds |-> 1]
=============================================================================
