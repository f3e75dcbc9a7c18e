------------------------------ MODULE MCLeads -------------------------------
(* Instances of Leads for TLC. *)
EXTENDS Leads

\* A connection made twice beside syncs; leads by an API key while the CRM is
\* connected; an appointment cancelled while the calendar is connected anew; an
\* appointment of a lead that is deleted or changed.
FourPlans == {
    [r \in Requests |-> IF r = 1 THEN {"connect"} ELSE {"sync", "connect", "disconnect"}],
    [r \in Requests |-> IF r = 1 THEN {"connect"} ELSE {"api", "lead", "status"}],
    [r \in Requests |-> IF r = 1 THEN {"appointment"} ELSE {"move", "cancel", "calendar"}],
    [r \in Requests |-> {"appointment", "droplead", "update", "status"}]}
=============================================================================
