------------------------------ MODULE MCVisits ------------------------------
(* Instances of Visits for TLC. *)
EXTENDS Visits

\* A haggle; two counters; visits that end; a page reused for a call and
\* cleared; a page given with the number, twice.
FivePlans == {
    [r \in Requests |-> {"discount"}],
    [r \in Requests |-> {"demo", "track"}],
    [r \in Requests |-> IF r = 1 THEN {"track", "review", "page"} ELSE {"track", "end"}],
    [r \in Requests |-> IF r = 1 THEN {"page"} ELSE IF r = 2 THEN {"dial"} ELSE {"clear"}],
    [r \in Requests |-> IF r = 3 THEN {} ELSE {"dial"}]}
=============================================================================
