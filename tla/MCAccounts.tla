----------------------------- MODULE MCAccounts -----------------------------
(* Instances of Accounts for TLC. *)
EXTENDS Accounts

Both(k) == {k} \X {1, 2}
One(k)  == {<<k, 1>>}

\* Signing keys; API keys; a booking whose link is clicked twice; two bookings
\* and the administrator's invitation; two child companies; a child company
\* and its user, who signs in twice.
SixPlans == {
    [r \in Requests |-> IF r < 3 THEN One("sign") ELSE {}],
    [r \in Requests |-> One("key") \cup One("revoke")],
    [r \in Requests |-> IF r = 1 THEN One("book") ELSE One("click")],
    [r \in Requests |-> IF r = 1 THEN One("book")
                        ELSE One("click") \cup One("invite") \cup Both("book")],
    [r \in Requests |-> IF r = 3 THEN One("invite") ELSE Both("child") \cup One("book")],
    [r \in Requests |-> IF r = 1 THEN One("child") ELSE One("secret")]}
=============================================================================
