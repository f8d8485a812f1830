--------------------------- MODULE MCAccountLink ---------------------------
(***************************************************************************)
(* An instance of AccountLink for TLC: two users, each with a Facebook     *)
(* account that has a page, and requests that sign in again, register,     *)
(* sync, subscribe and fetch a lead.                                       *)
(***************************************************************************)
EXTENDS AccountLink, TLC

CONSTANTS o1, o2, o3, c1, c2, g1, s1, s2, w1, w2, l1, f1, f2, p1, p2, p3, m1, m2, m3

\* The callbacks o1 and o2 and the sync o3 have been served.
Users == {o1, o2}
Links == o1 :> o1 @@ o2 :> o2
Stored == <<o3, p1>> :> o1 @@ <<o3, p2>> :> o2

\* All other sign-ins are of f2, who now comes with the email of the other user
\* or with a new one, which is also the one registered.
FacebookUsers == [c \in Callbacks |-> IF c = o1 THEN f1 ELSE f2]
Mails == [r \in Founders |-> IF r = o1 THEN {m1} ELSE IF r = o2 THEN {m2}
                             ELSE IF r = g1 THEN {m3} ELSE {m1, m3}]

\* p3 is not stored yet.
Seen == f1 :> {p1} @@ f2 :> {p2, p3}
LeadsPage == [l \in Attempts |-> p3]
Keys == [x \in Syncs \X Pages |-> IF x[2] = p1 THEN 1 ELSE 2]

\* Sign-ins; ones that hand an account over while its pages are synced and one is
\* subscribed, or used; one before two syncs of a user with two accounts; syncs of
\* one page; one by a user who has no account; and two subscriptions with a sync.
Groups == {{c1, c2, g1}, {c1, s1, w1}, {c1, s1, l1}, {c1, s1, s2}, {s1, s2, l1}, {g1, s1},
           {s2, w1, w2}}

OneOfEach == [k \in FaultKinds |-> 1]
=============================================================================
