-------------------------------- MODULE Crm ---------------------------------
(****************************************************************************)
(* A company's connection to its CRM (app/integrations/crm_router.py,       *)
(* app/integrations/crm), and what a lead event does with it                *)
(* (app/integrations/events.py _dispatch, _sync_to_crms).  One company and  *)
(* one provider: every connection is treated alike and a failure with one   *)
(* does not end the loop over them.                                         *)
(*                                                                          *)
(* A sync reads the row of the connection, may refresh its token at the     *)
(* provider, and writes what it got to the row; syncs run in the background *)
(* of several workers, beside the dashboard.  A provider may answer a       *)
(* refresh with another refresh token, and the one before is then void.     *)
(****************************************************************************)
EXTENDS Naturals, FiniteSets

CONSTANTS
    Requests,   \* numbered from 1 as they are made
    CrmAccounts, \* at the provider, numbers from 1
    Plans,      \* bound: what each request may ask, [Requests -> SUBSET Kinds]
    MaxFaults   \* bound: calls that fail and workers that die

Kinds == {"connect", "disconnect", "sync", "lead", "api", "update", "status", "droplead",
          "appointment", "move", "cancel", "calendar"}

ASSUME CrmAssumption ==
    /\ Requests \subseteq Nat \ {0} /\ CrmAccounts \subseteq Nat \ {0} /\ MaxFaults \in Nat
    /\ Plans \subseteq [Requests -> SUBSET Kinds]

VARIABLES
    plan, kind, step, faults,
    states,    \* crm_state:{state} in Redis, named by the request that made it
    conn,      \* the row of crm_connections
    live,      \* refresh tokens the provider honours
    issued,    \* how many it has issued
    sync,      \* where a request's sync is
    held,      \* the row it read
    got,       \* the tokens it was given
    told       \* requests whose lead reached the CRM

\* History.
VARIABLES
    stale,     \* the row was written by a sync that had read another
    lost       \* the provider voided a token and the answer was not stored

connection == <<states, conn, live, issued, stale, lost>>
syncing    == <<sync, held, got, told>>
crm        == <<plan, kind, step, faults, connection, syncing>>

Grant(a, n) == [account |-> a, n |-> n]  \* a refresh token
NoGrant     == Grant(0, 0)
NoRow       == [id |-> 0, account |-> 0, grant |-> NoGrant, expiring |-> FALSE]

Goto(r, s)   == step' = [step EXCEPT ![r] = s]
SyncTo(r, s) == sync' = [sync EXCEPT ![r] = s]
Fails        == faults < MaxFaults /\ faults' = faults + 1
At(r, k, s)  == kind[r] = k /\ step[r] = s

Ask(r, k) ==
    /\ kind[r] = "none" /\ \A q \in Requests : q < r => kind[q] # "none"
    /\ k \in plan[r]
    /\ kind' = [kind EXCEPT ![r] = k]
    /\ Goto(r, "begin")

-----------------------------------------------------------------------------
(* Connecting *)

\* crm_connect.
IssueState(r) ==
    /\ At(r, "connect", "begin") /\ Goto(r, "consent")
    /\ states' = states \cup {r}
    /\ UNCHANGED <<plan, kind, faults, conn, live, issued, stale, lost, syncing>>

StateExpires(r) ==
    /\ r \in states /\ states' = states \ {r}
    /\ UNCHANGED <<plan, kind, step, faults, conn, live, issued, stale, lost, syncing>>

\* crm_callback: get, then delete.  A provider calls back once for a state.
TakeState(r) ==
    /\ step[r] = "consent"
    /\ states' = states \ {r}
    /\ Goto(r, IF r \in states THEN "exchange" ELSE "refused")
    /\ UNCHANGED <<plan, kind, faults, conn, live, issued, stale, lost, syncing>>

\* exchange_code, for the account the user chose there, and the account's name,
\* without which the row goes.
ExchangeCode(r) ==
    /\ step[r] = "exchange"
    /\ \/ \E a \in CrmAccounts :
            /\ issued' = issued + 1 /\ live' = live \cup {Grant(a, issued + 1)}
            /\ got' = [got EXCEPT ![r] = Grant(a, issued + 1)]
            /\ \/ Goto(r, "upsert") /\ UNCHANGED faults
               \/ Goto(r, "upsert nameless") /\ Fails
       \/ Fails /\ Goto(r, "failed") /\ UNCHANGED <<live, issued, got>>
    /\ UNCHANGED <<plan, kind, states, conn, stale, lost, sync, held, told>>

\* The upsert keeps the id of a row that is there.
UpsertConnection(r) ==
    /\ step[r] \in {"upsert", "upsert nameless"}
    /\ \/ /\ Goto(r, "done")
          /\ conn' = [id       |-> IF conn.id = 0 THEN r ELSE conn.id,
                      account  |-> IF step[r] = "upsert" THEN got[r].account ELSE 0,
                      grant    |-> got[r],
                      expiring |-> FALSE]
          /\ stale' = FALSE /\ lost' = FALSE
          /\ UNCHANGED faults
       \/ Goto(r, "failed") /\ Fails /\ UNCHANGED <<conn, stale, lost>>
    /\ UNCHANGED <<plan, kind, states, live, issued, syncing>>

Disconnect(r) ==
    /\ At(r, "disconnect", "begin") /\ Goto(r, "done")
    /\ conn' = NoRow /\ stale' = FALSE /\ lost' = FALSE
    /\ UNCHANGED <<plan, kind, faults, states, live, issued, syncing>>

\* Less than five minutes are left of the access token.
TokenEnds ==
    /\ conn.id # 0 /\ ~conn.expiring
    /\ conn' = [conn EXCEPT !.expiring = TRUE]
    /\ UNCHANGED <<plan, kind, step, faults, states, live, issued, stale, lost, syncing>>

-----------------------------------------------------------------------------
(* A sync *)

\* crm_sync starts one at once.
SyncNow(r) ==
    /\ At(r, "sync", "begin") /\ Goto(r, "done") /\ SyncTo(r, "read")
    /\ UNCHANGED <<plan, kind, faults, connection, held, got, told>>

\* _dispatch looks for webhooks first; an exception there ends it before the CRM.
Dispatch(r) ==
    /\ sync[r] = "dispatch"
    /\ \/ SyncTo(r, "read") /\ UNCHANGED faults
       \/ SyncTo(r, "over") /\ Fails
    /\ UNCHANGED <<plan, kind, step, connection, held, got, told>>

ReadConnection(r) ==
    /\ sync[r] = "read"
    /\ held' = [held EXCEPT ![r] = conn]
    /\ SyncTo(r, IF conn.id = 0 THEN "over" ELSE IF conn.expiring THEN "refresh" ELSE "send")
    /\ UNCHANGED <<plan, kind, step, faults, connection, got, told>>

\* The provider renews the access token, and the refresh token or not.
Renew(r, g) ==
    LET next == Grant(g.account, issued + 1) IN
    \/ got' = [got EXCEPT ![r] = g] /\ UNCHANGED <<live, issued>>
    \/ got' = [got EXCEPT ![r] = next] /\ issued' = issued + 1
       /\ live' = (live \ {g}) \cup {next}

\* refresh_access_token; an answer may get lost.
Refresh(r) ==
    /\ sync[r] = "refresh"
    /\ IF held[r].grant \in live
       THEN \/ Renew(r, held[r].grant) /\ SyncTo(r, "store") /\ UNCHANGED <<faults, lost>>
            \/ /\ Renew(r, held[r].grant) /\ SyncTo(r, "over") /\ Fails
               /\ lost' = (lost \/ (live' # live /\ conn.grant = held[r].grant))
       ELSE SyncTo(r, "over") /\ UNCHANGED <<faults, live, issued, got, lost>>
    /\ UNCHANGED <<plan, kind, step, states, conn, stale, held, told>>

\* Mutant of Renewed: the refresh token of the answer is not stored.
AccessTokenOnly(r) == [conn EXCEPT !.expiring = FALSE]

Renewed(r) == [conn EXCEPT !.grant = got[r], !.expiring = FALSE]

\* The update by the id that was read.
StoreTokens(r) ==
    /\ sync[r] = "store"
    /\ \/ /\ SyncTo(r, "send") /\ UNCHANGED <<faults, lost>>
          /\ IF conn.id = held[r].id
             THEN conn' = Renewed(r) /\ stale' = (stale \/ conn.grant # held[r].grant)
             ELSE UNCHANGED <<conn, stale>>
       \/ /\ SyncTo(r, "over") /\ Fails /\ UNCHANGED <<conn, stale>>
          /\ lost' = (lost \/ conn.grant = held[r].grant)
    /\ UNCHANGED <<plan, kind, step, states, live, issued, held, got, told>>

\* sync_lead: contact and deal, or a warning.
SendLead(r) ==
    /\ sync[r] = "send" /\ SyncTo(r, "over")
    /\ \/ told' = told \cup {r} /\ UNCHANGED faults
       \/ Fails /\ UNCHANGED told
    /\ UNCHANGED <<plan, kind, step, connection, held, got>>

-----------------------------------------------------------------------------
CrmInit ==
    /\ plan \in Plans
    /\ kind = [r \in Requests |-> "none"] /\ step = [r \in Requests |-> "idle"]
    /\ faults = 0
    /\ states = {} /\ conn = NoRow /\ live = {} /\ issued = 0
    /\ sync = [r \in Requests |-> "none"]
    /\ held = [r \in Requests |-> NoRow] /\ got = [r \in Requests |-> NoGrant]
    /\ told = {} /\ stale = FALSE /\ lost = FALSE

CrmNext ==
    \/ \E r \in Requests :
          \/ IssueState(r) \/ StateExpires(r) \/ TakeState(r) \/ ExchangeCode(r)
          \/ UpsertConnection(r) \/ Disconnect(r)
          \/ SyncNow(r) \/ Dispatch(r) \/ ReadConnection(r) \/ Refresh(r) \/ StoreTokens(r)
          \/ SendLead(r)
    \/ TokenEnds

Stages == {"none", "dispatch", "read", "refresh", "store", "send", "over"}
Grants == [account : CrmAccounts \cup {0}, n : Nat]
Rows   == [id : Requests \cup {0}, account : CrmAccounts \cup {0}, grant : Grants,
           expiring : BOOLEAN]

CrmTypeOK ==
    /\ plan \in Plans /\ kind \in [Requests -> Kinds \cup {"none"}]
    /\ faults \in 0..MaxFaults
    /\ states \subseteq Requests /\ conn \in Rows /\ live \subseteq Grants /\ issued \in Nat
    /\ sync \in [Requests -> Stages]
    /\ held \in [Requests -> Rows] /\ got \in [Requests -> Grants]
    /\ told \subseteq Requests /\ stale \in BOOLEAN /\ lost \in BOOLEAN

-----------------------------------------------------------------------------
(* A connection can be refreshed, and it is the account the dashboard names    *)
(* that leads go to, until a refresh is lost between the provider and the row  *)
(* or two of them, or one and a reconnection, overlap: rotated refresh tokens  *)
(* are stored, and a connection made again is not undone.                      *)
ConnectionUsable ==
    conn.id # 0 /\ ~stale =>
        /\ conn.account \in {0, conn.grant.account}
        /\ \/ conn.grant \in live
           \/ lost
           \/ \E r \in Requests : sync[r] = "store" /\ held[r].grant = conn.grant
=============================================================================
