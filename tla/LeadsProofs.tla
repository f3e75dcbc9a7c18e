------------------------------ MODULE LeadsProofs ------------------------------
(****************************************************************************)
(* Proofs about Crm and Leads, for any requests, accounts, calendars and    *)
(* failures: a row of crm_connections can be refreshed, Google's calendar   *)
(* and the appointments agree, and what is announced is true.               *)
(*                                                                          *)
(* A refresh token is told from every other by the number it was issued     *)
(* under.  What the provider gave a request that has not stored it yet is   *)
(* therefore in no row and in nobody's hands (Distinct), whoever read a     *)
(* token read it with the id of its row (OneRow), and a sync that stores    *)
(* what it was given either finds the token it had read or is stale.        *)
(*                                                                          *)
(* A row's event is that of the account its request read, the account of    *)
(* the company still unless the calendar was connected again (Eventful): so *)
(* the delete_event of a cancellation removes this very event, and when the *)
(* row is about to go nothing of it is left at Google (Cancelled).          *)
(****************************************************************************)
EXTENDS Leads, TLAPS

\* Which requests can be at which step.
Fits(k, s) ==
    /\ k = "none" <=> s = "idle"
    /\ s \in {"consent", "exchange", "upsert", "upsert nameless"} => k = "connect"
    /\ s \in {"touch", "scope"} => k = "api"
    /\ s = "insert" => k \in {"api", "appointment"}
    /\ s \in {"calendar", "event", "mark", "fire"} => k = "appointment"
    /\ s \in {"uncalendar", "unevent", "delete"} => k = "cancel"

\* An appointment whose insert was made or failed.
Tried(r) == kind[r] = "appointment" /\ step[r] \in {"mark", "fire", "done", "failed"}

Flow ==
    \A r \in Requests :
        /\ Fits(kind[r], step[r])
        /\ sync[r] # "none" => kind[r] \in {"sync", "lead", "api", "status"} /\ step[r] = "done"
        /\ kind[r] = "cancel" => appt[r] # 0
        /\ appt[r] # 0 => Tried(appt[r])
        /\ r \in appts => Tried(r)

-----------------------------------------------------------------------------
(* The CRM *)

\* What the provider gave a request and no row has yet.
Unstored(r) ==
    \/ step[r] \in {"upsert", "upsert nameless"}
    \/ sync[r] = "store" /\ got[r] # held[r].grant

\* Refresh tokens are numbered as they are issued.
Numbered ==
    /\ \A g \in live : g.n \in 1..issued
    /\ conn.grant.n <= issued
    /\ \A r \in Requests : held[r].grant.n <= issued /\ got[r].n <= issued

Distinct ==
    \A r \in Requests : Unstored(r) =>
        /\ got[r] \in live /\ got[r] # conn.grant
        /\ \A q \in Requests : got[r] # held[q].grant /\ (q # r /\ Unstored(q) => got[q] # got[r])

\* A refresh token is that of one row.
OneRow ==
    /\ conn.id = 0 <=> conn.grant = NoGrant
    /\ \A r \in Requests :
        /\ held[r].id = 0 <=> held[r].grant = NoGrant
        /\ held[r].grant = conn.grant => held[r].id = conn.id
        /\ \A q \in Requests : held[r].grant = held[q].grant => held[r].id = held[q].id

Renewing ==
    \A r \in Requests :
        /\ sync[r] \in {"refresh", "store"} => held[r].id # 0
        /\ sync[r] = "store" => got[r].account = held[r].grant.account

Usable ==
    conn.id # 0 /\ ~stale =>
        /\ conn.account \in {0, conn.grant.account}
        /\ \/ conn.grant \in live
           \/ lost
           \/ \E r \in Requests : /\ sync[r] = "store" /\ held[r].grant = conn.grant
                                  /\ got[r] # conn.grant

-----------------------------------------------------------------------------
(* The calendar *)

Eventful ==
    /\ \A r \in Requests :
        /\ eventId[r] # NoEvent => /\ eventId[r] = Event(r) /\ account[r] # 0
                                   /\ kind[r] = "appointment" /\ (Tried(r) \/ step[r] = "insert")
                                   /\ step[r] = "insert" => eventId[r] \in google
        /\ step[r] \in {"event", "unevent"} => account[r] # 0
        /\ account[r] # 0 => tokens # 0 /\ (account[r] = tokens \/ reconnected)
        /\ step[r] \in {"uncalendar", "unevent"} => eventId[appt[r]] # NoEvent
    /\ \A e \in google :
        /\ e.appt \in Requests /\ kind[e.appt] = "appointment"
        /\ Tried(e.appt) \/ step[e.appt] = "insert"
        /\ eventId[e.appt] = e \/ e.appt \in orphaned

Cancelled ==
    \A r \in Requests : step[r] = "delete" =>
        \/ appt[r] \notin appts \/ appt[r] \in orphaned \/ reconnected
        \/ \A e \in google : e.appt # appt[r]

-----------------------------------------------------------------------------
(* The events *)

Told ==
    \A r \in Requests : sync[r] = "over" =>
        r \in told \/ held[r].id = 0 \/ faults > 0 \/ held[r].grant \notin live

IInv ==
    /\ TypeOK
    /\ Flow
    /\ Numbered
    /\ Distinct
    /\ OneRow
    /\ Renewing
    /\ Usable
    /\ Eventful
    /\ Cancelled
    /\ CalendarAgrees
    /\ Told
    /\ Announced

-----------------------------------------------------------------------------
(* What each kind of step changes *)

Elsewhere == UNCHANGED <<calendar, rows, apikey, announced, broke>>

ConnectStep(r) == \/ IssueState(r) \/ StateExpires(r) \/ TakeState(r) \/ ExchangeCode(r)
                  \/ UpsertConnection(r) \/ Disconnect(r)
SyncStep(r)    == \/ SyncNow(r) \/ Dispatch(r) \/ ReadConnection(r) \/ Refresh(r)
                  \/ StoreTokens(r) \/ SendLead(r)
KeyStep(r)     == ValidateKey(r) \/ TouchLastUsed(r) \/ CallTool(r)
LeadStep(r)    == InsertLead(r) \/ UpdateLead(r) \/ UpdateStatus(r) \/ DeleteLead(r)
BookStep(r)    == CheckLead(r) \/ CreateEvent(r) \/ InsertAppointment(r) \/ MarkLead(r)
                  \/ FireBooked(r)
CancelStep(r)  == ReadAppointment(r) \/ DeleteEvent(r) \/ DeleteAppointment(r)
OtherStep(r)   == MoveAppointment(r) \/ ReadTokens(r) \/ ConnectCalendar(r) \/ Die(r)

\* The tokens of the connection and of the syncs, and the tables.
grants == <<conn, live, issued, got, held, stale, lost>>
tables == <<leads, booked, appts, cascaded>>

TokenStep(r)    == \/ ExchangeCode(r) \/ UpsertConnection(r) \/ Disconnect(r)
                   \/ ReadConnection(r) \/ Refresh(r) \/ StoreTokens(r)
CalendarStep(r) == \/ ReadTokens(r) \/ CreateEvent(r) \/ InsertAppointment(r)
                   \/ DeleteEvent(r) \/ ConnectCalendar(r) \/ Die(r)
TableStep(r)    == \/ LeadStep(r) \/ InsertAppointment(r) \/ MarkLead(r)
                   \/ DeleteAppointment(r)

LEMMA NextSteps ==
  ASSUME Next
  PROVE  \/ \E r \in Requests :
               \/ (ConnectStep(r) \/ SyncStep(r)) /\ Elsewhere
               \/ \E k \in Kinds : Arrive(r, k)
               \/ KeyStep(r) \/ LeadStep(r) \/ BookStep(r) \/ CancelStep(r) \/ OtherStep(r)
         \/ TokenEnds /\ Elsewhere
         \/ KeyChanges
BY DEF Next, CrmNext, ConnectStep, SyncStep, KeyStep, LeadStep, BookStep, CancelStep, OtherStep,
   Elsewhere

\* Each part of the state has its own steps; the others leave it alone.
LEMMA Parts ==
  ASSUME Next
  PROVE  /\ UNCHANGED grants \/ TokenEnds \/ \E r \in Requests : TokenStep(r)
         /\ UNCHANGED calendar \/ \E r \in Requests : CalendarStep(r)
         /\ UNCHANGED tables \/ \E r \in Requests : TableStep(r)
         /\ \/ announced' = announced
            \/ \E r \in Requests : InsertLead(r) \/ UpdateStatus(r) \/ FireBooked(r)
<1> USE DEF TokenStep, CalendarStep, TableStep
<1>1. ASSUME NEW r \in Requests, ConnectStep(r) \/ SyncStep(r)
      PROVE  UNCHANGED grants \/ TokenStep(r)
  BY <1>1 DEF ConnectStep, SyncStep, IssueState, StateExpires, TakeState, SyncNow, Dispatch,
     SendLead, grants, syncing, connection
<1>2. Elsewhere => UNCHANGED <<calendar, tables, announced>>
  BY DEF Elsewhere, rows, tables
<1>3. ASSUME NEW r \in Requests, KeyStep(r) \/ \E k \in Kinds : Arrive(r, k)
      PROVE  UNCHANGED <<grants, calendar, tables, announced>>
  BY <1>3 DEF KeyStep, ValidateKey, TouchLastUsed, CallTool, Arrive, Others, grants, connection,
     syncing, rows, tables
<1>4. ASSUME NEW r \in Requests, LeadStep(r)
      PROVE  /\ UNCHANGED <<grants, calendar>>
             /\ announced' = announced \/ InsertLead(r) \/ UpdateStatus(r)
  BY <1>4 DEF LeadStep, InsertLead, UpdateLead, UpdateStatus, DeleteLead, Others, grants,
     connection
<1>5. ASSUME NEW r \in Requests, BookStep(r)
      PROVE  /\ UNCHANGED grants /\ (UNCHANGED calendar \/ CalendarStep(r))
             /\ UNCHANGED tables \/ TableStep(r)
             /\ announced' = announced \/ FireBooked(r)
  BY <1>5 DEF BookStep, CheckLead, CreateEvent, InsertAppointment, MarkLead, FireBooked, Others,
     grants, connection, rows, tables
<1>6. ASSUME NEW r \in Requests, CancelStep(r)
      PROVE  /\ UNCHANGED <<grants, announced>> /\ (UNCHANGED calendar \/ CalendarStep(r))
             /\ UNCHANGED tables \/ TableStep(r)
  BY <1>6 DEF CancelStep, ReadAppointment, DeleteEvent, DeleteAppointment, Others, grants,
     connection, rows, tables
<1>7. ASSUME NEW r \in Requests, OtherStep(r)
      PROVE  UNCHANGED <<grants, tables, announced>> /\ (UNCHANGED calendar \/ CalendarStep(r))
  BY <1>7 DEF OtherStep, MoveAppointment, ReadTokens, ConnectCalendar, Die, Others, grants,
     connection, rows, tables
<1>8. KeyChanges => UNCHANGED <<grants, calendar, tables, announced>>
  BY DEF KeyChanges, crm, connection, syncing, grants, rows, tables
<1> HIDE DEF TokenStep, CalendarStep, TableStep
<1>9. \A r : LeadStep(r) => TableStep(r)
  BY DEF TableStep
<1> QED
  BY <1>1, <1>2, <1>3, <1>4, <1>5, <1>6, <1>7, <1>8, <1>9, NextSteps

\* A step is that of one request, which arrives, goes on, or is synchronised.
Still(r)   == UNCHANGED <<kind[r], step[r], appt[r]>>
Arrives(r) == /\ kind[r] = "none" /\ kind'[r] \in Kinds /\ step'[r] = "begin"
              /\ \/ kind'[r] # "cancel" /\ appt'[r] = appt[r]
                 \/ kind'[r] \in {"move", "cancel"} /\ appt'[r] \in appts
GoesOn(r)  == /\ step[r] \notin {"idle", "done", "failed", "refused"}
              /\ step'[r] \notin {"idle", "begin"}
              /\ UNCHANGED <<kind[r], appt[r]>> /\ Fits(kind[r], step'[r])
              /\ step[r] \in {"mark", "fire"} => step'[r] \in {"fire", "done", "failed"}
              /\ step[r] \in {"upsert", "upsert nameless"} => UpsertConnection(r)
              /\ step'[r] \in {"upsert", "upsert nameless"} => ExchangeCode(r)
              /\ step[r] \in {"event", "insert"} /\ kind[r] = "appointment" =>
                    BookStep(r) \/ Die(r)
              /\ step'[r] \in {"event", "unevent"} => ReadTokens(r)
              /\ step'[r] = "uncalendar" => ReadAppointment(r)
              /\ step'[r] = "delete" => CancelStep(r) \/ ReadTokens(r)
              /\ step'[r] = "done" => \/ kind[r] \notin {"lead", "api", "status", "appointment"}
                                      \/ InsertLead(r) \/ UpdateStatus(r) \/ FireBooked(r)
              /\ step[r] = "fire" => FireBooked(r) \/ Die(r)
              /\ step[r] = "mark" => MarkLead(r) \/ Die(r)
              /\ step[r] = "delete" => DeleteAppointment(r) \/ Die(r)

\* Its appointment was inserted.
Booked(r) == step[r] = "insert" /\ step'[r] = "mark"

\* Where its sync gets.
Waits(r) == UNCHANGED sync[r] \/ (sync[r] = "none" /\ sync'[r] = "dispatch" /\ LeadStep(r))

LEMMA Progress ==
  ASSUME TypeOK, Flow, Next
  PROVE  /\ kind' \in [Requests -> Kinds \cup {"none"}] /\ step' \in [Requests -> Labels]
         /\ sync' \in [Requests -> Stages]
         /\ \A r \in Requests : Still(r) \/ Arrives(r) \/ GoesOn(r)
         /\ \A r \in Requests : Waits(r) \/ SyncStep(r)
         /\ \A r \in Requests : sync[r] = "none" /\ sync'[r] # "none" =>
               kind[r] \in {"sync", "lead", "api", "status"} /\ step'[r] = "done"
         /\ \A q, r \in Requests : q = r \/ Still(q) \/ Still(r)
<1>t. /\ kind \in [Requests -> Kinds \cup {"none"}] /\ step \in [Requests -> Labels]
      /\ sync \in [Requests -> Stages]
      /\ appt \in [Requests -> Requests \cup {0}]
      /\ \A r \in Requests : /\ Fits(kind[r], step[r])
                             /\ sync[r] # "none" => step[r] = "done"
  BY DEF TypeOK, CrmTypeOK, Flow
<1> USE <1>t DEF Labels, Stages, Fits, Goto, SyncTo, At, Still, GoesOn
<1> DEFINE Calm(r) ==
             /\ kind' \in [Requests -> Kinds \cup {"none"}] /\ step' \in [Requests -> Labels]
             /\ \A q \in Requests \ {r} : Still(q)
           Only(r) == Calm(r) /\ sync' = sync
           Fires(r) == /\ Calm(r) /\ \A q \in Requests \ {r} : sync'[q] = sync[q]
                       /\ \/ sync' = sync
                          \/ sync[r] = "none" /\ sync' = [sync EXCEPT ![r] = "dispatch"]
                             /\ kind[r] \in {"lead", "api", "status"} /\ step'[r] = "done"
<1>1. ASSUME NEW r \in Requests, ConnectStep(r), Elsewhere
      PROVE  Only(r) /\ (Still(r) \/ GoesOn(r))
  <2> USE <1>1 DEF Elsewhere, rows, syncing
  <2>1. CASE IssueState(r)
    BY <2>1 DEF IssueState
  <2>2. CASE StateExpires(r)
    BY <2>2 DEF StateExpires
  <2>3. CASE TakeState(r)
    BY <2>3 DEF TakeState
  <2>4. CASE ExchangeCode(r)
    BY <2>4 DEF ExchangeCode
  <2>5. CASE UpsertConnection(r)
    BY <2>5 DEF UpsertConnection
  <2>6. CASE Disconnect(r)
    BY <2>6 DEF Disconnect
  <2> QED
    BY <2>1, <2>2, <2>3, <2>4, <2>5, <2>6 DEF ConnectStep
<1>2. ASSUME NEW r \in Requests, SyncStep(r), Elsewhere
      PROVE  /\ Calm(r) /\ (Still(r) \/ GoesOn(r))
             /\ sync' \in [Requests -> Stages]
             /\ \A q \in Requests \ {r} : sync'[q] = sync[q]
             /\ sync[r] # "none" \/ (kind[r] = "sync" /\ step'[r] = "done")
  <2> USE <1>2 DEF Elsewhere, rows
  <2>1. CASE SyncNow(r)
    BY <2>1 DEF SyncNow
  <2>2. CASE Dispatch(r)
    BY <2>2 DEF Dispatch
  <2>3. CASE ReadConnection(r)
    BY <2>3 DEF ReadConnection
  <2>4. CASE Refresh(r)
    <3>1. /\ sync[r] = "refresh" /\ UNCHANGED <<kind, step>>
          /\ sync' \in {[sync EXCEPT ![r] = "store"], [sync EXCEPT ![r] = "over"]}
      BY <2>4 DEF Refresh
    <3> QED
      BY <3>1
  <2>5. CASE StoreTokens(r)
    BY <2>5 DEF StoreTokens
  <2>6. CASE SendLead(r)
    BY <2>6 DEF SendLead
  <2> QED
    BY <2>1, <2>2, <2>3, <2>4, <2>5, <2>6 DEF SyncStep
<1>3. ASSUME NEW r \in Requests, NEW k \in Kinds, Arrive(r, k)
      PROVE  Only(r) /\ Arrives(r)
  BY <1>3 DEF Arrive, Ask, Arrives, syncing
<1>4. ASSUME NEW r \in Requests, KeyStep(r)
      PROVE  Only(r) /\ GoesOn(r)
  <2>1. CASE ValidateKey(r)
    <3>1. /\ At(r, "api", "begin") /\ UNCHANGED <<kind, sync, appt>>
          /\ Goto(r, "refused") \/ Goto(r, "scope") \/ Goto(r, "touch") \/ Goto(r, "failed")
      BY <2>1 DEF ValidateKey, Fail, Others, rows
    <3> QED
      BY <3>1
  <2>2. CASE TouchLastUsed(r) \/ CallTool(r)
    BY <2>2 DEF TouchLastUsed, CallTool, Others, rows
  <2> QED
    BY <1>4, <2>1, <2>2 DEF KeyStep
<1>5. ASSUME NEW r \in Requests, LeadStep(r)
      PROVE  Fires(r) /\ GoesOn(r)
  <2>1. CASE InsertLead(r)
    BY <2>1 DEF InsertLead, Fire, Fail, Others
  <2>2. CASE UpdateStatus(r)
    <3>1. /\ At(r, "status", "begin") /\ UNCHANGED <<kind, appt>>
          /\ \/ Goto(r, "done") /\ SyncTo(r, "dispatch")
             \/ (Goto(r, "refused") \/ Goto(r, "failed")) /\ sync' = sync
      BY <2>2 DEF UpdateStatus, Fire, Fail, Others
    <3> QED
      BY <2>2, <3>1
  <2>3. CASE UpdateLead(r)
    BY <2>3 DEF UpdateLead, Others
  <2>4. CASE DeleteLead(r)
    BY <2>4 DEF DeleteLead, Others
  <2> QED
    BY <1>5, <2>1, <2>2, <2>3, <2>4 DEF LeadStep
<1>6. ASSUME NEW r \in Requests, BookStep(r)
      PROVE  Only(r) /\ GoesOn(r)
  <2>1. CASE CheckLead(r)
    BY <2>1 DEF CheckLead, Others, rows
  <2>2. CASE CreateEvent(r)
    <3>1. step[r] = "event" /\ Goto(r, "insert") /\ UNCHANGED <<kind, appt, sync>>
      BY <2>2 DEF CreateEvent, Others, rows
    <3> QED
      BY <2>2, <3>1 DEF BookStep
  <2>3. CASE InsertAppointment(r)
    BY <2>3 DEF InsertAppointment, Fail, Others, BookStep
  <2>4. CASE MarkLead(r)
    BY <2>4 DEF MarkLead, Fail, Others
  <2>5. CASE FireBooked(r)
    BY <2>5 DEF FireBooked, Fire, Others, rows
  <2> QED
    BY <1>6, <2>1, <2>2, <2>3, <2>4, <2>5 DEF BookStep
<1>7. ASSUME NEW r \in Requests, CancelStep(r)
      PROVE  Only(r) /\ GoesOn(r)
  <2>1. CASE ReadAppointment(r)
    BY <2>1 DEF ReadAppointment, CancelStep, Others, rows
  <2>2. CASE DeleteEvent(r)
    <3>1. step[r] = "unevent" /\ Goto(r, "delete") /\ UNCHANGED <<kind, appt, sync>>
      BY <2>2 DEF DeleteEvent, Others, rows
    <3> QED
      BY <2>2, <3>1 DEF CancelStep
  <2>3. CASE DeleteAppointment(r)
    BY <2>3 DEF DeleteAppointment, Fail, Others
  <2> QED
    BY <1>7, <2>1, <2>2, <2>3 DEF CancelStep
<1>8. ASSUME NEW r \in Requests, OtherStep(r)
      PROVE  Only(r) /\ GoesOn(r)
  <2>1. CASE MoveAppointment(r)
    BY <2>1 DEF MoveAppointment, Others, rows
  <2>2. CASE ReadTokens(r)
    <3>1. /\ step[r] \in {"calendar", "uncalendar"} /\ UNCHANGED <<kind, appt, sync>>
          /\ \/ Goto(r, "failed")
             \/ step[r] = "calendar" /\ (Goto(r, "insert") \/ Goto(r, "event"))
             \/ step[r] = "uncalendar" /\ (Goto(r, "delete") \/ Goto(r, "unevent"))
      BY <2>2 DEF ReadTokens, Fail, Others, rows
    <3>2. CASE step[r] = "calendar"
      BY <2>2, <3>1, <3>2
    <3>3. CASE step[r] = "uncalendar"
      BY <2>2, <3>1, <3>3
    <3> QED
      BY <3>1, <3>2, <3>3
  <2>3. CASE ConnectCalendar(r)
    BY <2>3 DEF ConnectCalendar, Others, rows
  <2>4. CASE Die(r)
    BY <2>4 DEF Die, Fail, Others, rows
  <2> QED
    BY <1>8, <2>1, <2>2, <2>3, <2>4 DEF OtherStep
<1>9. (TokenEnds /\ Elsewhere) \/ KeyChanges => UNCHANGED <<kind, step, appt, sync>>
  BY DEF TokenEnds, Elsewhere, KeyChanges, crm, syncing, rows
<1>10. UNCHANGED <<kind, step, appt, sync>> => \A r \in Requests : Still(r) /\ Waits(r)
  BY DEF Waits
<1>11. sync \in [Requests -> Stages]
  OBVIOUS
<1> HIDE DEF Labels, Fits, Goto, SyncTo, At, Still, GoesOn
<1> QED
  BY <1>1, <1>2, <1>3, <1>4, <1>5, <1>6, <1>7, <1>8, <1>9, <1>10, <1>11, NextSteps DEF Waits

\* Who adds a row, and who takes one away.
LEMMA Appointments ==
  ASSUME TypeOK, Next
  PROVE  /\ \A a \in appts' : a \in appts \/ (a \in Requests /\ InsertAppointment(a) /\ Booked(a))
         /\ \A a \in appts \ appts' :
               \/ a \in cascaded'
               \/ \E r \in Requests : step[r] = "delete" /\ appt[r] = a
         /\ cascaded \subseteq cascaded'
         /\ \A l \in leads' : l \in leads \/ (l \in Requests /\ InsertLead(l))
<1>t. /\ step \in [Requests -> Labels] /\ appts \subseteq Requests
  BY DEF TypeOK
<1> DEFINE Goal ==
         /\ \A a \in appts' : a \in appts \/ (a \in Requests /\ InsertAppointment(a) /\ Booked(a))
         /\ \A a \in appts \ appts' :
               \/ a \in cascaded'
               \/ \E r \in Requests : step[r] = "delete" /\ appt[r] = a
         /\ cascaded \subseteq cascaded'
         /\ \A l \in leads' : l \in leads \/ (l \in Requests /\ InsertLead(l))
<1>1. ASSUME NEW r \in Requests, LeadStep(r)
      PROVE  Goal
  <2>1. CASE InsertLead(r)
    <3>1. leads' \subseteq leads \cup {r} /\ appts' = appts /\ cascaded' = cascaded
      BY <2>1 DEF InsertLead
    <3> QED
      BY <2>1, <3>1
  <2>2. CASE UpdateLead(r) \/ UpdateStatus(r)
    BY <2>2 DEF UpdateLead, UpdateStatus
  <2>3. CASE DeleteLead(r)
    BY <2>3 DEF DeleteLead
  <2> QED
    BY <1>1, <2>1, <2>2, <2>3 DEF LeadStep
<1>2. ASSUME NEW r \in Requests, InsertAppointment(r)
      PROVE  Goal
  <2>1. /\ UNCHANGED <<leads, cascaded>> /\ step[r] = "insert"
        /\ appts' = appts \/ (appts' = appts \cup {r} /\ step' = [step EXCEPT ![r] = "mark"])
    BY <1>2 DEF InsertAppointment, Goto
  <2> QED
    BY <1>2, <2>1, <1>t DEF Booked
<1>3. ASSUME NEW r \in Requests, MarkLead(r)
      PROVE  Goal
  BY <1>3 DEF MarkLead
<1>4. ASSUME NEW r \in Requests, DeleteAppointment(r)
      PROVE  Goal
  BY <1>4 DEF DeleteAppointment
<1>5. CASE UNCHANGED tables
  BY <1>5 DEF tables
<1> QED
  BY <1>1, <1>2, <1>3, <1>4, <1>5, Parts DEF TableStep

LEMMA FlowStep ==
  ASSUME IInv, Next
  PROVE  Flow'
<1>a. 0 \notin Requests /\ appt \in [Requests -> Requests \cup {0}] /\ appts \subseteq Requests
  BY CrmAssumption DEF IInv, TypeOK
<1>b. Flow /\ TypeOK
  BY DEF IInv
<1> USE <1>a, <1>b
<1>1. ASSUME NEW r \in Requests
      PROVE  Fits(kind[r], step[r])' /\ (kind'[r] = "cancel" => appt'[r] # 0)
  <2>1. CASE Still(r)
    BY <2>1 DEF Still, Flow
  <2>2. CASE Arrives(r)
    BY <2>2 DEF Arrives, Fits, Kinds
  <2>3. CASE GoesOn(r)
    BY <2>3 DEF GoesOn, Flow
  <2> QED
    BY <2>1, <2>2, <2>3, Progress
<1>2. ASSUME NEW r \in Requests, sync'[r] # "none"
      PROVE  kind'[r] \in {"sync", "lead", "api", "status"} /\ step'[r] = "done"
  <2>1. CASE sync[r] = "none"
    <3>1. kind[r] \in {"sync", "lead", "api", "status"} /\ step'[r] = "done"
      BY <1>2, <2>1, Progress
    <3>2. kind'[r] = kind[r]
      BY <3>1, Progress DEF Still, Arrives, GoesOn
    <3> QED
      BY <3>1, <3>2
  <2>2. CASE sync[r] # "none"
    <3>1. Still(r)
      BY <2>2, Progress DEF Flow, Arrives, GoesOn
    <3> QED
      BY <2>2, <3>1 DEF Flow, Still
  <2> QED
    BY <2>1, <2>2
<1>3. \A r \in Requests : Tried(r) => Tried(r)'
  BY Progress DEF Tried, Still, Arrives, GoesOn
<1>4. ASSUME NEW r \in Requests, appt'[r] # 0
      PROVE  appt'[r] \in Requests /\ Tried(appt'[r])
  <2>1. appt'[r] = appt[r] \/ appt'[r] \in appts
    BY Progress DEF Still, Arrives, GoesOn
  <2> QED
    BY <1>4, <2>1 DEF Flow
<1>5. ASSUME NEW r \in appts'
      PROVE  r \in Requests /\ Tried(r)'
  <2>1. r \in appts \/ (r \in Requests /\ InsertAppointment(r) /\ step'[r] = "mark")
    BY <1>5, Appointments DEF Booked
  <2>2. InsertAppointment(r) /\ r \in Requests => kind'[r] = "appointment"
    BY DEF InsertAppointment, Others
  <2> QED
    BY <1>3, <1>5, <2>1, <2>2, Appointments DEF Flow, Tried, Booked
<1> QED
  BY <1>1, <1>2, <1>3, <1>4, <1>5 DEF Flow, Tried

\* Who fails on the way stays so.
LEMMA Breaks ==
  ASSUME Next
  PROVE  broke' = broke \/ \E r \in Requests : broke' = broke \cup {r}
<1> USE DEF Fail
<1>1. ASSUME NEW r \in Requests, KeyStep(r) \/ LeadStep(r) \/ \E k \in Kinds : Arrive(r, k)
      PROVE  broke' = broke \/ broke' = broke \cup {r}
  BY <1>1 DEF KeyStep, ValidateKey, TouchLastUsed, CallTool, LeadStep, InsertLead, UpdateLead,
     UpdateStatus, DeleteLead, Arrive
<1>2. ASSUME NEW r \in Requests, BookStep(r)
      PROVE  broke' = broke \/ broke' = broke \cup {r}
  BY <1>2 DEF BookStep, CheckLead, CreateEvent, InsertAppointment, MarkLead, FireBooked
<1>3. ASSUME NEW r \in Requests, CancelStep(r) \/ OtherStep(r)
      PROVE  broke' = broke \/ broke' = broke \cup {r}
  BY <1>3 DEF CancelStep, ReadAppointment, DeleteEvent, DeleteAppointment, OtherStep,
     MoveAppointment, ReadTokens, ConnectCalendar, Die
<1>4. Elsewhere \/ KeyChanges => broke' = broke
  BY DEF Elsewhere, KeyChanges
<1> QED
  BY <1>1, <1>2, <1>3, <1>4, NextSteps

\* Failures are counted, and what was told stays told.
LEMMA Faults ==
  ASSUME TypeOK, Next
  PROVE  /\ plan' = plan /\ faults' \in {faults, faults + 1}
         /\ faults' # faults => faults < MaxFaults
         /\ states' \subseteq Requests /\ told' \subseteq Requests /\ told \subseteq told'
<1> DEFINE Goal == /\ plan' = plan /\ faults' \in {faults, faults + 1}
                   /\ faults' # faults => faults < MaxFaults
                   /\ states' \subseteq Requests
                   /\ told' \subseteq Requests /\ told \subseteq told'
<1>t. /\ plan \in Plans /\ faults \in 0..MaxFaults /\ MaxFaults \in Nat
      /\ states \subseteq Requests /\ told \subseteq Requests
  BY CrmAssumption DEF TypeOK, CrmTypeOK
<1> USE <1>t DEF Fails, connection, syncing
<1>1. ASSUME NEW r \in Requests, ConnectStep(r)
      PROVE  Goal
  BY <1>1 DEF ConnectStep, IssueState, StateExpires, TakeState, ExchangeCode, UpsertConnection,
     Disconnect
<1>2. ASSUME NEW r \in Requests, SyncStep(r)
      PROVE  Goal
  BY <1>2 DEF SyncStep, SyncNow, Dispatch, ReadConnection, Refresh, StoreTokens, SendLead
<1>3. ASSUME NEW r \in Requests, NEW k \in Kinds, Arrive(r, k)
      PROVE  Goal
  BY <1>3 DEF Arrive
<1>4. ASSUME NEW r \in Requests, KeyStep(r) \/ LeadStep(r)
      PROVE  Goal
  BY <1>4 DEF KeyStep, ValidateKey, TouchLastUsed, CallTool, LeadStep, InsertLead, UpdateLead,
     UpdateStatus, DeleteLead, Others, Fail
<1>5. ASSUME NEW r \in Requests, BookStep(r)
      PROVE  Goal
  BY <1>5 DEF BookStep, CheckLead, CreateEvent, InsertAppointment, MarkLead, FireBooked, Others,
     Fail
<1>6. ASSUME NEW r \in Requests, CancelStep(r) \/ OtherStep(r)
      PROVE  Goal
  BY <1>6 DEF CancelStep, ReadAppointment, DeleteEvent, DeleteAppointment, OtherStep,
     MoveAppointment, ReadTokens, ConnectCalendar, Die, Others, Fail
<1>7. TokenEnds \/ KeyChanges => Goal
  BY DEF TokenEnds, KeyChanges, crm
<1> HIDE DEF Goal
<1>8. Goal
  BY <1>1, <1>2, <1>3, <1>4, <1>5, <1>6, <1>7, NextSteps
<1> QED
  BY <1>8 DEF Goal

LEMMA TypeOKStep ==
  ASSUME IInv, Next
  PROVE  TypeOK'
<1>a. TypeOK /\ CrmTypeOK /\ Flow
  BY DEF IInv, TypeOK
<1>1. /\ kind' \in [Requests -> Kinds \cup {"none"}] /\ step' \in [Requests -> Labels]
      /\ sync' \in [Requests -> Stages]
  BY <1>a, Progress
<1>2. conn' \in Rows /\ live' \subseteq Grants /\ issued' \in Nat
      /\ held' \in [Requests -> Rows] /\ got' \in [Requests -> Grants]
  <2>t. /\ conn \in Rows /\ live \subseteq Grants /\ issued \in Nat
        /\ held \in [Requests -> Rows] /\ got \in [Requests -> Grants]
    BY <1>a DEF CrmTypeOK
  <2> USE <2>t
  <2> DEFINE Goal == /\ conn' \in Rows /\ live' \subseteq Grants /\ issued' \in Nat
                     /\ held' \in [Requests -> Rows] /\ got' \in [Requests -> Grants]
  <2>a. \A b \in CrmAccounts \cup {0} : Grant(b, issued + 1) \in Grants
    BY DEF Grant, Grants
  <2>b. \A g \in Grants : g.account \in CrmAccounts \cup {0}
    BY DEF Grants
  <2>1. ASSUME NEW r \in Requests, ExchangeCode(r)
        PROVE  Goal
    <3>1. \/ \E b \in CrmAccounts : /\ issued' = issued + 1
                                    /\ live' = live \cup {Grant(b, issued + 1)}
                                    /\ got' = [got EXCEPT ![r] = Grant(b, issued + 1)]
          \/ UNCHANGED <<live, issued, got>>
      BY <2>1 DEF ExchangeCode
    <3>2. UNCHANGED <<conn, held>>
      BY <2>1 DEF ExchangeCode
    <3> QED
      BY <2>a, <3>1, <3>2
  <2>2. ASSUME NEW r \in Requests, UpsertConnection(r)
        PROVE  Goal
    <3>1. /\ got[r] \in Grants /\ got[r].account \in CrmAccounts \cup {0}
          /\ conn.id \in Requests \cup {0}
      BY <2>b DEF Rows
    <3>2. [id |-> IF conn.id = 0 THEN r ELSE conn.id,
           account |-> IF step[r] = "upsert" THEN got[r].account ELSE 0,
           grant |-> got[r], expiring |-> FALSE] \in Rows
      BY <3>1 DEF Rows
    <3> QED
      BY <2>2, <3>2 DEF UpsertConnection, syncing
  <2>3. ASSUME NEW r \in Requests, Disconnect(r)
        PROVE  Goal
    <3>1. NoRow \in Rows
      BY DEF NoRow, Rows, NoGrant, Grant, Grants
    <3> QED
      BY <2>3, <3>1 DEF Disconnect, syncing
  <2>4. ASSUME NEW r \in Requests, ReadConnection(r)
        PROVE  Goal
    BY <2>4 DEF ReadConnection, connection
  <2>5. ASSUME NEW r \in Requests, Refresh(r)
        PROVE  Goal
    <3>1. held[r].grant \in Grants
      BY DEF Rows
    <3> QED
      BY <2>a, <2>b, <2>5, <3>1 DEF Refresh, Renew
  <2>6. ASSUME NEW r \in Requests, StoreTokens(r)
        PROVE  Goal
    <3>1. Renewed(r) \in Rows
      BY DEF Renewed, Rows
    <3> QED
      BY <2>6, <3>1 DEF StoreTokens
  <2>7. CASE TokenEnds
    BY <2>7 DEF TokenEnds, Rows, syncing
  <2>8. CASE UNCHANGED grants
    BY <2>8 DEF grants
  <2> QED
    BY <2>1, <2>2, <2>3, <2>4, <2>5, <2>6, <2>7, <2>8, Parts DEF TokenStep
<1>3. stale' \in BOOLEAN /\ lost' \in BOOLEAN
  <2>1. stale \in BOOLEAN /\ lost \in BOOLEAN
    BY <1>a DEF CrmTypeOK
  <2>2. CASE UNCHANGED grants \/ TokenEnds
    BY <2>1, <2>2, Zenon DEF grants, TokenEnds
  <2>3. ASSUME NEW r \in Requests, TokenStep(r)
        PROVE  stale' \in BOOLEAN /\ lost' \in BOOLEAN
    BY <2>1, <2>3, Zenon DEF TokenStep, ExchangeCode, UpsertConnection, Disconnect,
       ReadConnection, connection, Refresh, StoreTokens
  <2> QED
    BY <2>2, <2>3, Parts
<1>4. /\ plan' \in Plans /\ faults' \in 0..MaxFaults
      /\ states' \subseteq Requests /\ told' \subseteq Requests
  <2>1. plan \in Plans /\ faults \in 0..MaxFaults /\ MaxFaults \in Nat
    BY <1>a, CrmAssumption DEF CrmTypeOK
  <2> QED
    BY <1>a, <2>1, Faults
<1>5. /\ leads' \subseteq Requests \cup {OldLead} /\ booked' \subseteq leads'
      /\ appts' \subseteq Requests /\ cascaded' \subseteq Requests
  <2> DEFINE Goal == /\ leads' \subseteq Requests \cup {OldLead} /\ booked' \subseteq leads'
                     /\ appts' \subseteq Requests /\ cascaded' \subseteq Requests
  <2>t. /\ leads \subseteq Requests \cup {OldLead} /\ booked \subseteq leads
        /\ appts \subseteq Requests /\ cascaded \subseteq Requests
    BY <1>a DEF TypeOK
  <2> USE <2>t
  <2>1. ASSUME NEW r \in Requests, LeadStep(r)
        PROVE  Goal
    BY <2>1 DEF LeadStep, InsertLead, UpdateLead, UpdateStatus, DeleteLead, AnyStatus
  <2>2. ASSUME NEW r \in Requests, InsertAppointment(r) \/ MarkLead(r) \/ DeleteAppointment(r)
        PROVE  Goal
    BY <2>2 DEF InsertAppointment, MarkLead, DeleteAppointment
  <2>3. CASE UNCHANGED tables
    BY <2>3 DEF tables
  <2> QED
    BY <2>1, <2>2, <2>3, Parts DEF TableStep
<1>6. lead' \in [Requests -> Requests \cup {OldLead}] /\ appt' \in [Requests -> Requests \cup {0}]
  <2>t. /\ lead \in [Requests -> Requests \cup {OldLead}]
        /\ appt \in [Requests -> Requests \cup {0}]
        /\ leads \subseteq Requests \cup {OldLead} /\ appts \subseteq Requests
    BY <1>a DEF TypeOK
  <2>1. ASSUME NEW r \in Requests, NEW k \in Kinds, Arrive(r, k)
        PROVE  /\ lead' \in [Requests -> Requests \cup {OldLead}]
               /\ appt' \in [Requests -> Requests \cup {0}]
    BY <2>t, <2>1 DEF Arrive
  <2>2. Elsewhere \/ KeyChanges => UNCHANGED <<lead, appt>>
    BY DEF Elsewhere, KeyChanges, rows
  <2>3. ASSUME NEW r \in Requests, KeyStep(r) \/ LeadStep(r)
        PROVE  UNCHANGED <<lead, appt>>
    BY <2>3 DEF KeyStep, ValidateKey, TouchLastUsed, CallTool, LeadStep, InsertLead, UpdateLead,
       UpdateStatus, DeleteLead, rows
  <2>4. ASSUME NEW r \in Requests, BookStep(r)
        PROVE  UNCHANGED <<lead, appt>>
    BY <2>4 DEF BookStep, CheckLead, CreateEvent, InsertAppointment, MarkLead, FireBooked, rows
  <2>5. ASSUME NEW r \in Requests, CancelStep(r) \/ OtherStep(r)
        PROVE  UNCHANGED <<lead, appt>>
    BY <2>5 DEF CancelStep, ReadAppointment, DeleteEvent, DeleteAppointment, OtherStep,
       MoveAppointment, ReadTokens, ConnectCalendar, Die, rows
  <2> QED
    BY <2>t, <2>1, <2>2, <2>3, <2>4, <2>5, NextSteps
<1>7. /\ tokens' \in Calendars \cup {0} /\ account' \in [Requests -> Calendars \cup {0}]
      /\ eventId' \in [Requests -> Events] /\ google' \subseteq Events
      /\ orphaned' \subseteq Requests
  <2> DEFINE Goal == /\ tokens' \in Calendars \cup {0}
                     /\ account' \in [Requests -> Calendars \cup {0}]
                     /\ eventId' \in [Requests -> Events] /\ google' \subseteq Events
                     /\ orphaned' \subseteq Requests
  <2>t. /\ tokens \in Calendars \cup {0} /\ account \in [Requests -> Calendars \cup {0}]
        /\ eventId \in [Requests -> Events] /\ google \subseteq Events
        /\ orphaned \subseteq Requests /\ appt \in [Requests -> Requests \cup {0}]
    BY <1>a DEF TypeOK
  <2> USE <2>t
  <2>1. ASSUME NEW r \in Requests, ReadTokens(r) \/ InsertAppointment(r)
        PROVE  Goal
    BY <2>1 DEF ReadTokens, InsertAppointment
  <2>2. ASSUME NEW r \in Requests, CreateEvent(r)
        PROVE  Goal
    <3>1. Event(r) \in Events
      BY DEF Event, Events
    <3> QED
      BY <2>2, <3>1 DEF CreateEvent
  <2>3. ASSUME NEW r \in Requests, DeleteEvent(r)
        PROVE  Goal
    <3>1. appt[r] \in Requests
      BY <1>a, <2>3 DEF DeleteEvent, Flow, Fits
    <3> QED
      BY <2>3, <3>1 DEF DeleteEvent
  <2>4. ASSUME NEW r \in Requests, ConnectCalendar(r) \/ Die(r)
        PROVE  Goal
    BY <2>4 DEF ConnectCalendar, Die
  <2>5. CASE UNCHANGED calendar
    BY <2>5 DEF calendar
  <2> QED
    BY <2>1, <2>2, <2>3, <2>4, <2>5, Parts DEF CalendarStep
<1>8. /\ keyValid' \in BOOLEAN /\ mayWrite' \in BOOLEAN /\ touched' \in BOOLEAN
      /\ reconnected' \in BOOLEAN
  <2>t. /\ keyValid \in BOOLEAN /\ mayWrite \in BOOLEAN /\ touched \in BOOLEAN
        /\ reconnected \in BOOLEAN
    BY <1>a DEF TypeOK
  <2>1. reconnected' \in BOOLEAN
    <3>1. ASSUME NEW r \in Requests, CalendarStep(r)
          PROVE  reconnected' \in BOOLEAN
      BY <2>t, <3>1, Zenon DEF CalendarStep, ReadTokens, CreateEvent, InsertAppointment,
         DeleteEvent, ConnectCalendar, Die
    <3> QED
      BY <2>t, <3>1, Parts DEF calendar
  <2>2. ASSUME NEW r \in Requests, ValidateKey(r)
        PROVE  UNCHANGED <<keyValid, mayWrite>> /\ touched' \in BOOLEAN
    BY <2>t, <2>2, Zenon DEF ValidateKey
  <2>3. KeyChanges => /\ keyValid' \in BOOLEAN /\ mayWrite' = mayWrite /\ touched' \in BOOLEAN
    BY <2>t, Zenon DEF KeyChanges
  <2>4. ASSUME NEW r \in Requests,
               \/ TouchLastUsed(r) \/ CallTool(r) \/ LeadStep(r) \/ BookStep(r) \/ CancelStep(r)
               \/ OtherStep(r) \/ \E k \in Kinds : Arrive(r, k)
        PROVE  UNCHANGED apikey
    BY <2>4 DEF TouchLastUsed, CallTool, LeadStep, InsertLead, UpdateLead, UpdateStatus,
       DeleteLead, BookStep, CheckLead, CreateEvent, InsertAppointment, MarkLead, FireBooked,
       CancelStep, ReadAppointment, DeleteEvent, DeleteAppointment, OtherStep, MoveAppointment,
       ReadTokens, ConnectCalendar, Die, Arrive
  <2>5. Elsewhere => UNCHANGED apikey
    BY DEF Elsewhere
  <2>6. \/ UNCHANGED apikey \/ KeyChanges
        \/ \E r \in Requests : ValidateKey(r)
    BY <2>4, <2>5, NextSteps DEF KeyStep
  <2> QED
    BY <2>t, <2>1, <2>2, <2>3, <2>6 DEF apikey
<1>9. announced' \subseteq Requests /\ broke' \subseteq Requests
  <2>t. announced \subseteq Requests /\ broke \subseteq Requests
    BY <1>a DEF TypeOK
  <2>1. announced' \subseteq Requests
    BY <2>t, Parts DEF InsertLead, UpdateStatus, FireBooked, Fire
  <2>2. broke' \subseteq Requests
    BY <2>t, Breaks
  <2> QED
    BY <2>1, <2>2
<1> QED
  BY <1>1, <1>2, <1>3, <1>4, <1>5, <1>6, <1>7, <1>8, <1>9 DEF TypeOK, CrmTypeOK

-----------------------------------------------------------------------------
(* Refresh tokens *)

Tokens == Numbered /\ Distinct /\ OneRow /\ Renewing /\ Usable

\* What the following proofs need of the types, and of a request that waits for
\* the consent of the user or whose sync has begun.
LEMMA TokenTypes ==
  ASSUME IInv
  PROVE  /\ conn.grant \in Grants /\ live \subseteq Grants /\ issued \in Nat /\ 0 \notin Requests
         /\ held \in [Requests -> Rows] /\ got \in [Requests -> Grants]
         /\ sync \in [Requests -> Stages]
         /\ step \in [Requests -> Labels]
         /\ conn \in Rows
         /\ \A r \in Requests : held[r].grant \in Grants
         /\ \A r \in Requests : sync[r] # "none" => step[r] = "done"
         /\ \A g \in Grants : g.n \in Nat
         /\ \A a, g : g.n <= issued => g # Grant(a, issued + 1)
         /\ \A a : Grant(a, issued + 1) # NoGrant /\ Grant(a, issued + 1).n = issued + 1
         /\ \A g \in live : g # NoGrant
<1>1. /\ conn \in Rows /\ live \subseteq Grants /\ issued \in Nat /\ 0 \notin Requests
      /\ held \in [Requests -> Rows] /\ got \in [Requests -> Grants]
      /\ sync \in [Requests -> Stages]
      /\ step \in [Requests -> Labels]
  BY CrmAssumption DEF IInv, TypeOK, CrmTypeOK
<1>2. \A x \in Rows : x.grant \in Grants
  BY DEF Rows
<1>3. \A g \in Grants : g.n \in Nat
  BY DEF Grants
<1>4. \A a, g : g.n <= issued => g # Grant(a, issued + 1)
  BY <1>1 DEF Grant
<1>5. \A a : Grant(a, issued + 1) # NoGrant /\ Grant(a, issued + 1).n = issued + 1
  BY <1>1 DEF Grant, NoGrant
<1>6. \A g \in live : g # NoGrant
  BY DEF IInv, Numbered, NoGrant, Grant
<1>7. \A r \in Requests : sync[r] # "none" => step[r] = "done"
  BY DEF IInv, Flow
<1> QED
  BY <1>1, <1>2, <1>3, <1>4, <1>5, <1>6, <1>7

\* A token of a new number is that of nobody else.
LEMMA ExchangeCodeStep ==
  ASSUME IInv, NEW r \in Requests, ExchangeCode(r)
  PROVE  Tokens'
<1> USE TokenTypes
<1>1. /\ UNCHANGED <<conn, stale, lost, sync, held>> /\ step[r] = "exchange"
      /\ \/ \E a \in CrmAccounts :
               /\ issued' = issued + 1 /\ live' = live \cup {Grant(a, issued + 1)}
               /\ got' = [got EXCEPT ![r] = Grant(a, issued + 1)]
               /\ Goto(r, "upsert") \/ Goto(r, "upsert nameless")
         \/ Goto(r, "failed") /\ UNCHANGED <<live, issued, got>>
  BY DEF ExchangeCode
<1>2. Numbered /\ Distinct /\ OneRow /\ Renewing /\ Usable
  BY DEF IInv
<1>3. CASE Goto(r, "failed") /\ UNCHANGED <<live, issued, got>>
  <2>1. \A q \in Requests : Unstored(q)' => Unstored(q)
    BY <1>1, <1>3 DEF Unstored, Goto
  <2> QED
    BY <1>1, <1>2, <1>3, <2>1 DEF Tokens, Numbered, Distinct, OneRow, Renewing, Usable
<1>4. ASSUME NEW a \in CrmAccounts,
             issued' = issued + 1, live' = live \cup {Grant(a, issued + 1)},
             got' = [got EXCEPT ![r] = Grant(a, issued + 1)],
             Goto(r, "upsert") \/ Goto(r, "upsert nameless")
      PROVE  Tokens'
  <2> DEFINE g == Grant(a, issued + 1)
  <2>1. /\ g.n = issued + 1 /\ g # conn.grant
        /\ \A q \in Requests : g # held[q].grant /\ g # got[q]
    BY <1>2 DEF Numbered
  <2>2. got'[r] = g /\ \A q \in Requests \ {r} : got'[q] = got[q]
    BY <1>4
  <2>3. live' = live \cup {g}
    BY <1>4
  <2>4. \A q \in Requests \ {r} : Unstored(q)' => Unstored(q)
    BY <1>1, <1>4, <2>2 DEF Unstored, Goto
  <2> HIDE DEF g
  <2>5. Numbered'
    <3>0. issued \in Nat /\ issued' = issued + 1 /\ g.n = issued + 1
      BY <1>4, <2>1, Zenon
    <3>1. issued' = issued + 1 /\ g.n \in 1..issued' /\ conn' = conn /\ held' = held
      <4>1. issued' = issued + 1 /\ g.n \in 1..issued'
        BY ONLY <3>0
      <4> QED
        BY <1>1, <4>1
    <3>2. \A h \in live' : h.n \in 1..issued'
      BY <1>2, <2>3, <3>1 DEF Numbered
    <3>3. \A q \in Requests : got'[q].n <= issued'
      <4>1. \A q \in Requests : got[q] \in Grants
        OBVIOUS
      <4> QED
        BY <1>2, <2>1, <2>2, <3>1, <4>1 DEF Numbered
    <3> QED
      BY <1>2, <3>1, <3>2, <3>3 DEF Numbered
  <2>6. Distinct'
    <3>1. ASSUME NEW q \in Requests, Unstored(q)'
          PROVE  /\ got'[q] \in live' /\ got'[q] # conn.grant
                 /\ \A p \in Requests : got'[q] # held[p].grant
                 /\ \A p \in Requests : p # q /\ Unstored(p)' => got'[p] # got'[q]
      BY <1>2, <2>1, <2>2, <2>3, <2>4, <3>1 DEF Distinct
    <3> QED
      BY <1>1, <3>1 DEF Distinct
  <2>7. OneRow'
    BY <1>1, <1>2 DEF OneRow
  <2>8. Renewing' /\ Usable'
    <3>1. sync[r] # "store"
      BY <1>1
    <3> QED
      BY <1>1, <1>2, <2>2, <2>3, <3>1 DEF Renewing, Usable
  <2> QED
    BY <2>5, <2>6, <2>7, <2>8 DEF Tokens
<1> QED
  BY <1>1, <1>3, <1>4

\* The token that is stored was nobody's.
LEMMA UpsertConnectionStep ==
  ASSUME IInv, NEW r \in Requests, UpsertConnection(r)
  PROVE  Tokens'
<1> USE TokenTypes
<1>1. /\ UNCHANGED <<live, issued, sync, held, got>> /\ step[r] \in {"upsert", "upsert nameless"}
      /\ Goto(r, "done") \/ Goto(r, "failed")
  BY DEF UpsertConnection, syncing
<1>2. \/ UNCHANGED <<conn, stale, lost>>
      \/ /\ conn'.id = (IF conn.id = 0 THEN r ELSE conn.id)
         /\ conn'.account \in {0, got[r].account} /\ conn'.grant = got[r]
  <2>1. \/ UNCHANGED <<conn, stale, lost>>
        \/ conn' = [id       |-> IF conn.id = 0 THEN r ELSE conn.id,
                    account  |-> IF step[r] = "upsert" THEN got[r].account ELSE 0,
                    grant    |-> got[r],
                    expiring |-> FALSE]
    BY Zenon DEF UpsertConnection
  <2> QED
    BY <2>1
<1>3. Numbered /\ Distinct /\ OneRow /\ Renewing /\ Usable /\ Unstored(r)
  BY <1>1 DEF IInv, Unstored
<1>4. ~Unstored(r)' /\ \A q \in Requests : Unstored(q)' => Unstored(q)
  BY <1>1 DEF Unstored, Goto
<1>5. CASE UNCHANGED <<conn, stale, lost>>
  BY <1>1, <1>3, <1>4, <1>5 DEF Tokens, Numbered, Distinct, OneRow, Renewing, Usable
<1>6. CASE /\ conn'.id = (IF conn.id = 0 THEN r ELSE conn.id)
           /\ conn'.account \in {0, got[r].account} /\ conn'.grant = got[r]
  <2>1. conn'.id # 0 /\ got[r] \in live /\ got[r] # NoGrant
    BY <1>3, <1>6 DEF Distinct
  <2>2. \A q \in Requests : got[r] # held[q].grant /\ (q # r /\ Unstored(q) => got[q] # got[r])
    BY <1>3 DEF Distinct
  <2>3. Numbered'
    BY <1>1, <1>3, <1>6 DEF Numbered
  <2>4. Distinct'
    BY <1>1, <1>3, <1>4, <1>6, <2>2 DEF Distinct
  <2>5. OneRow'
    BY <1>1, <1>3, <1>6, <2>1, <2>2 DEF OneRow
  <2>6. Renewing' /\ Usable'
    BY <1>1, <1>3, <1>6, <2>1 DEF Renewing, Usable
  <2> QED
    BY <2>3, <2>4, <2>5, <2>6 DEF Tokens
<1> QED
  BY <1>2, <1>5, <1>6

LEMMA DisconnectStep ==
  ASSUME IInv, NEW r \in Requests, Disconnect(r)
  PROVE  Tokens'
<1> USE TokenTypes
<1>1. /\ UNCHANGED <<live, issued, sync, held, got>>
      /\ At(r, "disconnect", "begin") /\ Goto(r, "done") /\ conn' = NoRow
  BY DEF Disconnect, syncing
<1>2. NoRow.id = 0 /\ NoRow.grant = NoGrant /\ NoGrant.n = 0
  BY DEF NoRow, NoGrant, Grant
<1>3. Numbered /\ Distinct /\ OneRow /\ Renewing
  BY DEF IInv
<1>4. \A q \in Requests : Unstored(q)' => Unstored(q)
  BY <1>1 DEF Unstored, Goto
<1>5. Numbered'
  BY <1>1, <1>2, <1>3 DEF Numbered
<1>6. Distinct'
  BY <1>1, <1>2, <1>3, <1>4 DEF Distinct
<1>7. OneRow' /\ Renewing' /\ Usable'
  BY <1>1, <1>2, <1>3 DEF OneRow, Renewing, Usable
<1> QED
  BY <1>5, <1>6, <1>7 DEF Tokens

LEMMA ReadConnectionStep ==
  ASSUME IInv, NEW r \in Requests, ReadConnection(r)
  PROVE  Tokens'
<1> USE TokenTypes
<1>1. /\ UNCHANGED <<step, conn, live, issued, stale, lost, got>>
      /\ sync[r] = "read" /\ held' = [held EXCEPT ![r] = conn]
      /\ sync' = [sync EXCEPT ![r] = IF conn.id = 0 THEN "over"
                                     ELSE IF conn.expiring THEN "refresh" ELSE "send"]
  BY DEF ReadConnection, SyncTo, connection
<1>2. Numbered /\ Distinct /\ OneRow /\ Renewing /\ Usable
  BY DEF IInv
<1>3. /\ held'[r] = conn /\ sync'[r] \in {"over", "refresh", "send"}
      /\ sync'[r] = "refresh" => conn.id # 0
      /\ \A q \in Requests \ {r} : held'[q] = held[q] /\ sync'[q] = sync[q]
  BY <1>1
<1>4. \A q \in Requests : Unstored(q)' => Unstored(q)
  BY <1>1, <1>3 DEF Unstored
<1>5. Numbered'
  BY <1>1, <1>2, <1>3 DEF Numbered
<1>6. Distinct'
  BY <1>1, <1>2, <1>3, <1>4 DEF Distinct
<1>7. OneRow'
  BY <1>1, <1>2, <1>3 DEF OneRow
<1>8. Renewing' /\ Usable'
  BY <1>1, <1>2, <1>3 DEF Renewing, Usable
<1> QED
  BY <1>5, <1>6, <1>7, <1>8 DEF Tokens

\* The provider's answer to a refresh: the same token, or a new one in its stead.
LEMMA RefreshStep ==
  ASSUME IInv, NEW r \in Requests, Refresh(r)
  PROVE  Tokens'
<1> USE TokenTypes
<1> DEFINE h == held[r].grant
           g == Grant(h.account, issued + 1)
<1>1. /\ UNCHANGED <<step, conn, stale, held>> /\ sync[r] = "refresh"
      /\ \E s \in {"store", "over"} :
            /\ sync' = [sync EXCEPT ![r] = s]
            /\ \/ UNCHANGED <<live, issued, got, lost>> /\ s = "over"
               \/ got' = [got EXCEPT ![r] = h] /\ UNCHANGED <<live, issued>> /\ (lost => lost')
               \/ /\ got' = [got EXCEPT ![r] = g] /\ issued' = issued + 1 /\ h \in live
                  /\ live' = (live \ {h}) \cup {g} /\ (lost => lost')
                  /\ s = "over" /\ conn.grant = h /\ live' # live => lost'
  <2>1. /\ UNCHANGED <<step, conn, stale, held>> /\ sync[r] = "refresh"
    BY DEF Refresh
  <2>2. CASE SyncTo(r, "over") /\ UNCHANGED <<live, issued, got, lost>>
    BY <2>1, <2>2 DEF SyncTo
  <2>3. CASE h \in live /\ Renew(r, h) /\ SyncTo(r, "store") /\ UNCHANGED lost
    BY <2>1, <2>3 DEF SyncTo, Renew
  <2>4. CASE /\ h \in live /\ Renew(r, h) /\ SyncTo(r, "over")
             /\ lost' = (lost \/ (live' # live /\ conn.grant = h))
    <3>1. (lost => lost') /\ (live' # live /\ conn.grant = h => lost')
      BY <2>4, Zenon
    <3> QED
      BY <2>1, <2>4, <3>1 DEF SyncTo, Renew
  <2> QED
    BY <2>2, <2>3, <2>4 DEF Refresh
<1>2. Numbered /\ Distinct /\ OneRow /\ Renewing /\ Usable
  BY DEF IInv
<1>3. /\ g.n = issued + 1 /\ g.account = h.account /\ g # conn.grant /\ g \notin live
      /\ \A q \in Requests : g # held[q].grant /\ g # got[q]
  BY <1>2 DEF Numbered, Grant
<1>4. step[r] = "done" /\ held[r].id # 0 /\ \A q \in Requests : got[q] \in Grants
  BY <1>1, <1>2 DEF Renewing
<1>5. \A q \in Requests \ {r} : sync'[q] = sync[q] /\ got'[q] = got[q]
  BY <1>1
<1>6. \A q \in Requests \ {r} : Unstored(q)' => Unstored(q)
  BY <1>1, <1>5 DEF Unstored
<1>7. OneRow'
  BY <1>1, <1>2 DEF OneRow
<1>8. ASSUME UNCHANGED <<live, issued>>, got'[r] = h \/ sync'[r] = "over", lost => lost'
      PROVE  Tokens'
  <2>1. ~Unstored(r)'
    BY <1>1, <1>4, <1>8 DEF Unstored
  <2>2. got'[r] \in {got[r], h}
    BY <1>1, <1>3, <1>8
  <2>3. Numbered'
    BY <1>1, <1>2, <1>5, <1>8, <2>2 DEF Numbered
  <2>4. Distinct'
    BY <1>1, <1>2, <1>5, <1>6, <1>8, <2>1 DEF Distinct
  <2>5. Renewing'
    BY <1>1, <1>2, <1>4, <1>5, <1>8 DEF Renewing
  <2>6. Usable'
    BY <1>1, <1>2, <1>5, <1>8 DEF Usable
  <2> QED
    BY <1>7, <2>3, <2>4, <2>5, <2>6 DEF Tokens
<1>9. ASSUME got'[r] = g, issued' = issued + 1, h \in live, live' = (live \ {h}) \cup {g},
             lost => lost', sync'[r] \in {"store", "over"},
             sync'[r] = "over" /\ conn.grant = h => lost'
      PROVE  Tokens'
  <2> HIDE DEF h, g
  <2>1. Numbered'
    <3>0. issued \in Nat /\ issued' = issued + 1
      BY <1>9, Zenon
    <3>1. issued \in Nat /\ issued' \in Nat /\ \A n : n \in 1..issued => n \in 1..issued'
      BY ONLY <3>0
    <3>2. \A n \in Nat : n <= issued => n <= issued'
      BY ONLY <3>1, <1>9
    <3>3. g.n \in 1..issued' /\ g.n <= issued'
      BY ONLY <1>3, <1>9, <3>1
    <3> QED
      BY <1>1, <1>2, <1>4, <1>5, <1>9, <3>1, <3>2, <3>3 DEF Numbered
  <2>2. Distinct'
    <3>1. ASSUME NEW q \in Requests, Unstored(q)'
          PROVE  /\ got'[q] \in live' /\ got'[q] # conn.grant
                 /\ \A p \in Requests : got'[q] # held[p].grant
                 /\ \A p \in Requests : p # q /\ Unstored(p)' => got'[p] # got'[q]
      <4>1. CASE q = r
        BY <1>3, <1>5, <1>9, <4>1
      <4>2. CASE q # r
        BY <1>2, <1>3, <1>5, <1>6, <1>9, <3>1, <4>2 DEF Distinct, h
      <4> QED
        BY <4>1, <4>2
    <3> QED
      BY <1>1, <3>1 DEF Distinct
  <2>3. Renewing'
    BY <1>1, <1>2, <1>3, <1>4, <1>5, <1>9 DEF Renewing, h
  <2>4. Usable'
    <3>1. CASE conn.grant = h
      <4>1. sync'[r] = "store" => held'[r].grant = conn'.grant /\ got'[r] # conn'.grant
        BY <1>1, <1>3, <1>9, <3>1 DEF h
      <4> QED
        BY <1>1, <1>2, <1>9, <3>1, <4>1 DEF Usable
    <3>2. CASE conn.grant # h
      BY <1>1, <1>2, <1>5, <1>9, <3>2 DEF Usable
    <3> QED
      BY <3>1, <3>2
  <2> QED
    BY <1>7, <2>1, <2>2, <2>3, <2>4 DEF Tokens
<1>10. CASE UNCHANGED <<live, issued>>
  <2>1. got'[r] = h \/ sync'[r] = "over"
    BY <1>1, <1>3, <1>10
  <2>2. lost => lost'
    BY <1>1
  <2> QED
    BY <1>8, <1>10, <2>1, <2>2
<1>11. CASE /\ got' = [got EXCEPT ![r] = g] /\ issued' = issued + 1 /\ h \in live
            /\ live' = (live \ {h}) \cup {g} /\ (lost => lost')
            /\ sync'[r] = "over" /\ conn.grant = h /\ live' # live => lost'
  <2>1. live' # live
    BY <1>3, <1>11
  <2> QED
    BY <1>1, <1>9, <1>11, <2>1
<1> QED
  BY <1>1, <1>10, <1>11

\* A row takes what its own sync was given; a sync that read another row, or an
\* older token, leaves the row alone or is known as stale.
LEMMA StoreTokensStep ==
  ASSUME IInv, NEW r \in Requests, StoreTokens(r)
  PROVE  Tokens'
<1> USE TokenTypes
<1> DEFINE h == held[r].grant
<1>1. /\ UNCHANGED <<step, live, issued, held, got>> /\ sync[r] = "store"
      /\ SyncTo(r, "send") \/ SyncTo(r, "over")
  BY DEF StoreTokens
<1>2. Numbered /\ Distinct /\ OneRow /\ Renewing /\ Usable
  BY DEF IInv
<1>3. /\ step[r] = "done" /\ held[r].id # 0 /\ got[r].account = h.account
      /\ Unstored(r) \/ got[r] = h
  BY <1>1, <1>2 DEF Renewing, Unstored
<1>4. /\ sync'[r] \in {"send", "over"} /\ \A q \in Requests \ {r} : sync'[q] = sync[q]
      /\ ~Unstored(r)' /\ \A q \in Requests : Unstored(q)' => Unstored(q)
  BY <1>1, <1>3 DEF Unstored, SyncTo
<1>5. Renewing'
  BY <1>1, <1>2, <1>4 DEF Renewing
<1>6. ASSUME UNCHANGED conn, stale' = stale, lost => lost', conn.grant = h => lost'
      PROVE  Tokens'
  <2>1. Numbered'
    BY <1>1, <1>2, <1>6 DEF Numbered
  <2>2. Distinct'
    BY <1>1, <1>2, <1>4, <1>6 DEF Distinct
  <2>3. OneRow'
    BY <1>1, <1>2, <1>6 DEF OneRow
  <2>4. Usable'
    BY <1>1, <1>2, <1>4, <1>6 DEF Usable
  <2> QED
    BY <1>5, <2>1, <2>2, <2>3, <2>4 DEF Tokens
<1>7. ASSUME UNCHANGED <<conn, stale, lost>>, conn.id # held[r].id
      PROVE  Tokens'
  <2>1. conn.grant # h
    BY <1>2, <1>7 DEF OneRow
  <2> QED
    BY <1>6, <1>7, <2>1
<1>8. ASSUME conn'.id = conn.id, conn.id = held[r].id, conn'.account = conn.account,
             conn'.grant = got[r], UNCHANGED lost, stale \/ conn.grant # h => stale'
      PROVE  Tokens'
  <2>1. Numbered'
    BY <1>1, <1>2, <1>8 DEF Numbered
  <2>2. Distinct'
    <3>1. \A q \in Requests : q # r /\ Unstored(q) => got[q] # got[r]
      BY <1>2, <1>3 DEF Distinct
    <3> QED
      BY <1>1, <1>2, <1>4, <1>8, <3>1 DEF Distinct
  <2>3. OneRow'
    <3>1. got[r] # NoGrant
      BY <1>2, <1>3 DEF Distinct, OneRow
    <3>2. \A q \in Requests : held[q].grant = got[r] => held[q].id = held[r].id
      BY <1>2, <1>3 DEF Distinct, OneRow
    <3> QED
      BY <1>1, <1>2, <1>3, <1>8, <3>1, <3>2 DEF OneRow
  <2>4. Usable'
    <3>1. CASE ~stale /\ conn.grant = h
      <4>1. conn'.account \in {0, conn'.grant.account}
        BY <1>2, <1>3, <1>8, <3>1 DEF Usable
      <4>2. CASE Unstored(r)
        BY <1>1, <1>2, <1>8, <4>1, <4>2 DEF Usable, Distinct
      <4>3. CASE got[r] = h
        BY <1>1, <1>2, <1>3, <1>4, <1>8, <3>1, <4>1, <4>3 DEF Usable
      <4> QED
        BY <1>3, <4>2, <4>3
    <3> QED
      BY <1>8, <3>1 DEF Usable
  <2> QED
    BY <1>5, <2>1, <2>2, <2>3, <2>4 DEF Tokens
<1>9. CASE SyncTo(r, "over") /\ UNCHANGED <<conn, stale>> /\ lost' = (lost \/ conn.grant = h)
  <2>1. (lost => lost') /\ (conn.grant = h => lost')
    BY <1>9, Zenon
  <2> QED
    BY <1>6, <1>9, <2>1
<1>10. CASE conn.id # held[r].id /\ UNCHANGED <<conn, stale, lost>>
  BY <1>7, <1>10
<1>11. CASE /\ conn.id = held[r].id /\ UNCHANGED lost
            /\ conn' = Renewed(r) /\ stale' = (stale \/ conn.grant # h)
  <2>1. stale \/ conn.grant # h => stale'
    BY <1>11, Zenon
  <2>2. /\ conn'.id = conn.id /\ conn'.account = conn.account /\ conn'.grant = got[r]
    BY <1>11 DEF Renewed, Rows
  <2> QED
    BY <1>8, <1>11, <2>1, <2>2
<1> QED
  BY <1>9, <1>10, <1>11 DEF StoreTokens

LEMMA TokensStep ==
  ASSUME IInv, Next
  PROVE  Tokens'
<1>1. ASSUME NEW r \in Requests, TokenStep(r)
      PROVE  Tokens'
  BY <1>1, ExchangeCodeStep, UpsertConnectionStep, DisconnectStep, ReadConnectionStep,
     RefreshStep, StoreTokensStep DEF TokenStep
<1>2. Numbered /\ Distinct /\ OneRow /\ Renewing /\ Usable /\ TypeOK /\ Flow
  BY DEF IInv
<1>3. CASE TokenEnds
  <2>1. /\ UNCHANGED <<step, live, issued, got, held, sync, stale, lost>>
        /\ conn'.id = conn.id /\ conn'.account = conn.account /\ conn'.grant = conn.grant
    BY <1>3, TokenTypes DEF TokenEnds, syncing, Rows
  <2>2. \A q \in Requests : Unstored(q)' => Unstored(q)
    BY <2>1 DEF Unstored
  <2> QED
    BY <1>2, <2>1, <2>2 DEF Tokens, Numbered, Distinct, OneRow, Renewing, Usable
<1>4. ASSUME UNCHANGED grants, ~\E r \in Requests : TokenStep(r)
      PROVE  Tokens'
  <2>1. ASSUME NEW r \in Requests
        PROVE  \/ sync'[r] = sync[r]
               \/ sync[r] \notin {"refresh", "store"} /\ sync'[r] \notin {"refresh", "store"}
    <3>1. ~ReadConnection(r) /\ ~Refresh(r) /\ ~StoreTokens(r)
      BY <1>4 DEF TokenStep
    <3>2. CASE Waits(r)
      BY <3>2 DEF Waits
    <3>3. CASE SyncNow(r)
      BY <3>3, TokenTypes DEF SyncNow, SyncTo, At, IInv, Flow
    <3>4. CASE Dispatch(r)
      BY <3>4, TokenTypes DEF Dispatch, SyncTo
    <3>5. CASE SendLead(r)
      BY <3>5, TokenTypes DEF SendLead, SyncTo
    <3> QED
      BY <1>2, <3>1, <3>2, <3>3, <3>4, <3>5, Progress DEF SyncStep
  <2>2. ASSUME NEW r \in Requests
        PROVE  step'[r] \in {"upsert", "upsert nameless"} => step'[r] = step[r]
    <3>1. ~ExchangeCode(r) /\ ~UpsertConnection(r)
      BY <1>4 DEF TokenStep
    <3> QED
      BY <1>2, <3>1, Progress DEF Still, Arrives, GoesOn
  <2>3. \A r \in Requests : Unstored(r)' => Unstored(r)
    BY <1>4, <2>1, <2>2 DEF Unstored, grants
  <2>4. Numbered'
    BY <1>2, <1>4 DEF Numbered, grants
  <2>5. Distinct'
    BY <1>2, <1>4, <2>3 DEF Distinct, grants
  <2>6. OneRow' /\ Renewing' /\ Usable'
    BY <1>2, <1>4, <2>1 DEF OneRow, Renewing, Usable, grants
  <2> QED
    BY <2>4, <2>5, <2>6 DEF Tokens
<1> QED
  BY <1>1, <1>3, <1>4, Parts

\* A refresh token that was void stays so, and who has ended its sync reads no
\* row any more.
LEMMA Past ==
  ASSUME IInv, Next
  PROVE  /\ \A g \in live' : g.n <= issued => g \in live
         /\ \A r \in Requests : sync[r] = "over" => held'[r] = held[r]
<1> USE TokenTypes
<1>1. ASSUME NEW r \in Requests, TokenStep(r)
      PROVE  /\ \A g \in live' : g.n <= issued => g \in live
             /\ \A q \in Requests : sync[q] = "over" => held'[q] = held[q]
  <2>1. CASE ExchangeCode(r)
    BY <2>1 DEF ExchangeCode
  <2>2. CASE UpsertConnection(r) \/ Disconnect(r) \/ StoreTokens(r)
    BY <2>2 DEF UpsertConnection, Disconnect, StoreTokens, syncing
  <2>3. CASE ReadConnection(r)
    BY <2>3 DEF ReadConnection, connection
  <2>4. CASE Refresh(r)
    BY <2>4 DEF Refresh, Renew
  <2> QED
    BY <1>1, <2>1, <2>2, <2>3, <2>4 DEF TokenStep
<1>2. UNCHANGED grants \/ TokenEnds => UNCHANGED <<live, held>>
  BY DEF grants, TokenEnds, syncing
<1> QED
  BY <1>1, <1>2, Parts

LEMMA ToldStep ==
  ASSUME IInv, Next
  PROVE  Told'
<1>t. /\ TypeOK /\ Flow /\ Told /\ faults \in Nat
      /\ \A r \in Requests : held[r].grant.n <= issued
  BY CrmAssumption DEF IInv, TypeOK, CrmTypeOK, Numbered
<1>f. faults' \in Nat /\ (faults > 0 => faults' > 0) /\ (Fails => faults' > 0)
  BY <1>t, Faults DEF Fails
<1> SUFFICES ASSUME NEW r \in Requests, sync'[r] = "over"
             PROVE  r \in told' \/ held'[r].id = 0 \/ faults' > 0 \/ held'[r].grant \notin live'
  BY DEF Told
<1>1. CASE sync[r] = "over"
  <2>1. /\ held'[r] = held[r] /\ told \subseteq told'
        /\ held[r].grant \in live' => held[r].grant \in live
    BY <1>t, <1>1, Past, Faults
  <2> QED
    BY <1>t, <1>f, <1>1, <2>1 DEF Told
<1>2. CASE sync[r] # "over"
  <2>1. SyncStep(r)
    BY <1>t, <1>2, Progress DEF Waits
  <2>2. CASE SyncNow(r)
    BY <2>2, TokenTypes DEF SyncNow, SyncTo
  <2>3. CASE Dispatch(r)
    BY <1>f, <2>3, TokenTypes DEF Dispatch, SyncTo
  <2>4. CASE ReadConnection(r)
    BY <2>4, TokenTypes DEF ReadConnection, SyncTo
  <2>5. CASE Refresh(r)
    <3>1. CASE held[r].grant \in live
      BY <1>f, <2>5, <3>1, TokenTypes DEF Refresh, SyncTo
    <3>2. CASE held[r].grant \notin live
      BY <2>5, <3>2 DEF Refresh
    <3> QED
      BY <3>1, <3>2
  <2>6. CASE StoreTokens(r)
    BY <1>f, <2>6, TokenTypes DEF StoreTokens, SyncTo
  <2>7. CASE SendLead(r)
    BY <1>f, <2>7, TokenTypes DEF SendLead, SyncTo
  <2> QED
    BY <2>1, <2>2, <2>3, <2>4, <2>5, <2>6, <2>7 DEF SyncStep
<1> QED
  BY <1>1, <1>2

-----------------------------------------------------------------------------
(* What is announced *)

\* An event is fired by the last step of its request.
LEMMA FireSteps ==
  ASSUME TypeOK, Next
  PROVE  \/ announced' = announced
         \/ \E r \in Requests :
               /\ announced' = announced \cup {r} /\ step[r] # "done" /\ step'[r] = "done"
               /\ kind[r] \in {"lead", "api", "status"} \/ step[r] = "fire"
<1>t. step \in [Requests -> Labels]
  BY DEF TypeOK
<1>1. ASSUME NEW r \in Requests, InsertLead(r) \/ UpdateStatus(r) \/ FireBooked(r)
      PROVE  \/ announced' = announced
             \/ /\ announced' = announced \cup {r} /\ step[r] # "done" /\ step'[r] = "done"
                /\ kind[r] \in {"lead", "api", "status"} \/ step[r] = "fire"
  BY <1>t, <1>1 DEF InsertLead, UpdateStatus, FireBooked, Fire, Goto, At
<1> QED
  BY <1>1, Parts

LEMMA AnnouncedStep ==
  ASSUME IInv, Next
  PROVE  Announced'
<1>t. /\ TypeOK /\ Flow /\ Announced
      /\ step \in [Requests -> Labels] /\ announced \subseteq Requests
      /\ appts \subseteq Requests /\ leads \subseteq Requests \cup {OldLead}
      /\ \A r \in Requests : Fits(kind[r], step[r])
  BY DEF IInv, TypeOK, Flow
<1>k. step' \in [Requests -> Labels]
  BY <1>t, Progress
<1>1. /\ announced \subseteq announced'
      /\ \A r \in announced' : r \in announced \/
            (/\ r \in Requests /\ step[r] # "done" /\ step'[r] = "done"
             /\ kind[r] \in {"lead", "api", "status", "appointment"})
  <2>1. \A r \in Requests : step[r] = "fire" => kind[r] = "appointment"
    BY <1>t DEF Fits
  <2> QED
    BY <1>t, <2>1, FireSteps
<1>2. \A r \in Requests : step[r] = "done" => Still(r)
  BY <1>t, Progress DEF Arrives, GoesOn, Fits
<1>3. ASSUME NEW r \in announced'
      PROVE  step'[r] = "done"
  BY <1>t, <1>1, <1>2, <1>3 DEF Announced, Still
<1>4. ASSUME NEW r \in Requests, step'[r] = "done"
      PROVE  r \in announced' <=> kind'[r] \in {"lead", "api", "status", "appointment"}
  <2>1. CASE step[r] = "done"
    BY <1>t, <1>1, <1>2, <2>1 DEF Announced, Still
  <2>2. CASE step[r] # "done"
    <3>1. GoesOn(r) /\ kind'[r] = kind[r]
      BY <1>t, <1>4, <2>2, Progress DEF Still, Arrives, GoesOn
    <3>2. r \in announced' => kind[r] \in {"lead", "api", "status", "appointment"}
      BY <1>t, <1>1, <2>2 DEF Announced
    <3>3. ASSUME kind[r] \in {"lead", "api", "status", "appointment"}
          PROVE  r \in announced'
      <4>1. InsertLead(r) \/ UpdateStatus(r) \/ FireBooked(r)
        BY <1>4, <3>1, <3>3 DEF GoesOn
      <4> QED
        BY <1>t, <1>4, <4>1 DEF InsertLead, UpdateStatus, FireBooked, Fire, Fail, Goto
    <3> QED
      BY <3>1, <3>2, <3>3
  <2> QED
    BY <2>1, <2>2
<1>b. broke \subseteq broke'
  BY Breaks
<1>5. ASSUME NEW r \in Requests, r \in announced \/ r \in broke \/ step[r] \in {"mark", "fire"}
      PROVE  r \in announced' \/ r \in broke' \/ step'[r] \in {"mark", "fire"}
  <2>1. CASE r \in announced \/ r \in broke
    BY <1>1, <1>b, <2>1
  <2>2. CASE step[r] \in {"mark", "fire"}
    <3>1. Still(r) \/ GoesOn(r)
      BY <1>t, <2>2, Progress DEF Arrives, Fits
    <3>2. GoesOn(r) => Die(r) \/ (step[r] = "mark" /\ MarkLead(r)) \/ FireBooked(r)
      BY <2>2 DEF GoesOn
    <3> QED
      BY <1>t, <2>2, <3>1, <3>2 DEF Still, Die, MarkLead, FireBooked, Fire, Fail, Goto
  <2> QED
    BY <1>5, <2>1, <2>2
<1>6. ASSUME NEW r \in appts' \cup (leads' \ {OldLead})
      PROVE  r \in announced' \/ r \in broke' \/ step'[r] \in {"mark", "fire"}
  <2>1. CASE r \in appts \cup (leads \ {OldLead})
    BY <1>t, <1>5, <2>1 DEF Announced
  <2>2. CASE r \in Requests /\ Booked(r)
    BY <2>2 DEF Booked
  <2>3. CASE r \in Requests /\ InsertLead(r)
    BY <1>t, <2>3 DEF InsertLead, Fire, Fail
  <2> QED
    BY <1>t, <1>6, <2>1, <2>2, <2>3, Appointments
<1>7. Told'
  BY ToldStep
<1> QED
  BY <1>1, <1>3, <1>4, <1>6, <1>7, <1>t DEF Announced, Told

-----------------------------------------------------------------------------
(* The calendar *)

\* What the calendar's steps change, request by request and event by event.
LEMMA EventSteps ==
  ASSUME TypeOK, Next
  PROVE  /\ reconnected => reconnected'
         /\ orphaned \subseteq orphaned'
         /\ tokens' = tokens \/ (tokens' # 0 /\ (tokens # 0 => reconnected'))
         /\ \A r \in Requests :
               \/ account'[r] = account[r]
               \/ ReadTokens(r) /\ account'[r] = tokens /\ tokens' = tokens
         /\ \A r \in Requests :
               eventId'[r] = eventId[r] \/ (CreateEvent(r) /\ eventId'[r] = Event(r))
         /\ \A e \in google' :
               \/ e \in google
               \/ \E q \in Requests : /\ CreateEvent(q) /\ e = Event(q)
                                      /\ eventId'[q] = e \/ q \in orphaned'
         /\ \A e \in google :
               \/ e \in google'
               \/ \E q \in Requests : DeleteEvent(q) /\ e.appt = appt[q]
<1>t. /\ account \in [Requests -> Calendars \cup {0}] /\ eventId \in [Requests -> Events]
      /\ reconnected \in BOOLEAN /\ Calendars \subseteq Nat \ {0}
  BY LeadAssumption DEF TypeOK
<1> USE <1>t
<1> DEFINE Marks == (reconnected => reconnected') /\ orphaned \subseteq orphaned'
           TokensKept == UNCHANGED tokens /\ UNCHANGED account
           EventsKept == UNCHANGED eventId /\ UNCHANGED google
           Goal ==
             /\ reconnected => reconnected'
             /\ orphaned \subseteq orphaned'
             /\ tokens' = tokens \/ (tokens' # 0 /\ (tokens # 0 => reconnected'))
             /\ \A r \in Requests : \/ account'[r] = account[r]
                                    \/ ReadTokens(r) /\ account'[r] = tokens /\ tokens' = tokens
             /\ \A r \in Requests :
                   eventId'[r] = eventId[r] \/ (CreateEvent(r) /\ eventId'[r] = Event(r))
             /\ \A e \in google' :
                   \/ e \in google
                   \/ \E q \in Requests : /\ CreateEvent(q) /\ e = Event(q)
                                          /\ eventId'[q] = e \/ q \in orphaned'
             /\ \A e \in google :
                   \/ e \in google'
                   \/ \E q \in Requests : DeleteEvent(q) /\ e.appt = appt[q]
<1>1. ASSUME NEW r \in Requests, ReadTokens(r)
      PROVE  Goal
  <2>1. /\ Marks /\ EventsKept /\ UNCHANGED tokens
        /\ account' = [account EXCEPT ![r] = tokens] \/ account' = account
    BY <1>1 DEF ReadTokens
  <2> QED
    BY <1>1, <2>1
<1>2. ASSUME NEW r \in Requests, CreateEvent(r)
      PROVE  Goal
  <2>1. Marks /\ TokensKept
    BY <1>2 DEF CreateEvent
  <2>2. \/ google' = google \cup {Event(r)} /\ eventId' = [eventId EXCEPT ![r] = Event(r)]
        \/ EventsKept
        \/ google' = google \cup {Event(r)} /\ r \in orphaned' /\ UNCHANGED eventId
    BY <1>2 DEF CreateEvent
  <2> QED
    BY <1>2, <2>1, <2>2
<1>3. ASSUME NEW r \in Requests, DeleteEvent(r)
      PROVE  Goal
  <2>1. Marks /\ TokensKept /\ UNCHANGED eventId
    BY <1>3 DEF DeleteEvent
  <2>2. \/ google' = google \ {[account |-> account[r], appt |-> appt[r]]}
        \/ UNCHANGED google
    BY <1>3 DEF DeleteEvent
  <2> QED
    BY <1>3, <2>1, <2>2
<1>4. ASSUME NEW r \in Requests, InsertAppointment(r) \/ Die(r)
      PROVE  Goal
  <2>1. Marks /\ TokensKept /\ EventsKept
    BY <1>4 DEF InsertAppointment, Die
  <2> QED
    BY <2>1
<1>5. ASSUME NEW r \in Requests, ConnectCalendar(r)
      PROVE  Goal
  <2>1. UNCHANGED <<account, orphaned>> /\ EventsKept
    BY <1>5 DEF ConnectCalendar
  <2>2. /\ reconnected => reconnected'
        /\ tokens' = tokens \/ (tokens' \in Calendars /\ (tokens # 0 => reconnected'))
    <3>1. \/ UNCHANGED <<tokens, reconnected>>
          \/ tokens' \in Calendars /\ reconnected' = (reconnected \/ tokens # 0)
      BY <1>5 DEF ConnectCalendar
    <3>2. CASE UNCHANGED <<tokens, reconnected>>
      BY <3>2
    <3>3. CASE tokens' \in Calendars /\ reconnected' = (reconnected \/ tokens # 0)
      BY <3>3, Zenon
    <3> QED
      BY <3>1, <3>2, <3>3
  <2> QED
    BY <2>1, <2>2
<1>6. UNCHANGED calendar => Goal
  BY DEF calendar
<1> HIDE DEF Goal
<1>7. Goal
  BY <1>1, <1>2, <1>3, <1>4, <1>5, <1>6, Parts DEF CalendarStep
<1> QED
  BY <1>7 DEF Goal

\* An appointment that was tried stays so; one whose insert is due is inserted,
\* or its event is left to itself.
LEMMA Lasting ==
  ASSUME IInv, Next
  PROVE  /\ \A r \in Requests : Tried(r) => Tried(r)'
         /\ \A r \in Requests : kind[r] = "appointment" /\ step[r] = "insert" =>
               /\ kind'[r] = "appointment"
               /\ \/ step'[r] = "insert"
                  \/ step'[r] = "mark" /\ r \in appts'
                  \/ step'[r] = "failed" /\ r \in orphaned'
<1>t. TypeOK /\ Flow /\ step \in [Requests -> Labels]
  BY DEF IInv, TypeOK
<1>1. \A r \in Requests : Tried(r) => Tried(r)'
  BY <1>t, Progress DEF Tried, Still, Arrives, GoesOn
<1>2. ASSUME NEW r \in Requests, kind[r] = "appointment", step[r] = "insert"
      PROVE  /\ kind'[r] = "appointment"
             /\ \/ step'[r] = "insert"
                \/ step'[r] = "mark" /\ r \in appts'
                \/ step'[r] = "failed" /\ r \in orphaned'
  <2>1. CASE Still(r)
    BY <1>2, <2>1 DEF Still
  <2>2. CASE GoesOn(r)
    <3>1. InsertAppointment(r) \/ Die(r)
      BY <1>2, <2>2 DEF GoesOn, BookStep, CheckLead, CreateEvent, MarkLead, FireBooked, At
    <3>2. kind'[r] = "appointment"
      BY <1>2, <2>2 DEF GoesOn
    <3> QED
      BY <1>t, <1>2, <3>1, <3>2 DEF InsertAppointment, Die, Fail, Goto
  <2> QED
    BY <1>t, <1>2, <2>1, <2>2, Progress DEF Arrives
<1> QED
  BY <1>1, <1>2

\* The steps of a cancellation.
LEMMA Cancelling ==
  ASSUME IInv, Next, NEW r \in Requests
  PROVE  /\ step'[r] = "event" =>
               Still(r) \/ (ReadTokens(r) /\ account'[r] = tokens /\ tokens # 0)
         /\ step'[r] = "unevent" =>
               \/ Still(r)
               \/ /\ ReadTokens(r) /\ account'[r] = tokens /\ tokens # 0
                  /\ step[r] = "uncalendar" /\ appt'[r] = appt[r]
         /\ step'[r] = "uncalendar" => Still(r) \/ (ReadAppointment(r) /\ appt'[r] = appt[r])
         /\ step'[r] = "delete" =>
               /\ appt'[r] = appt[r]
               /\ \/ Still(r) \/ ReadAppointment(r) \/ DeleteEvent(r)
                  \/ step[r] = "uncalendar" /\ tokens = 0
<1>t. /\ TypeOK /\ Flow /\ step \in [Requests -> Labels]
      /\ account \in [Requests -> Calendars \cup {0}]
  BY DEF IInv, TypeOK
<1>1. step'[r] # "begin" => (Still(r) \/ GoesOn(r)) /\ appt'[r] = appt[r]
  BY <1>t, Progress DEF Still, Arrives, GoesOn
<1>2. ASSUME ReadTokens(r), step'[r] # "failed"
      PROVE  /\ account'[r] = tokens
             /\ step'[r] \in {"event", "unevent"} => tokens # 0
             /\ step'[r] = "delete" => tokens = 0
             /\ step'[r] \in {"unevent", "delete"} => step[r] = "uncalendar"
             /\ step'[r] \in {"event", "insert"} => step[r] = "calendar"
  BY <1>t, <1>2 DEF ReadTokens, Fail, Goto
<1>3. DeleteAppointment(r) => step'[r] # "delete"
  BY <1>t DEF DeleteAppointment, Fail, Goto
<1> QED
  BY <1>1, <1>2, <1>3 DEF GoesOn, CancelStep

\* What the proofs about the calendar need of the state.
LEMMA CalendarTypes ==
  ASSUME IInv, Next
  PROVE  /\ TypeOK /\ Flow /\ Eventful /\ Cancelled /\ CalendarAgrees
         /\ step \in [Requests -> Labels] /\ 0 \notin Requests
         /\ appts \subseteq Requests /\ appt \in [Requests -> Requests \cup {0}]
         /\ \A r \in Requests : Fits(kind[r], step[r]) /\ Fits(kind'[r], step'[r])
         /\ \A r \in Requests : /\ Event(r).appt = r /\ Event(r) # NoEvent
                                /\ Event(r).account = account[r]
         /\ NoEvent.appt = 0
         /\ \A r \in Requests : Tried(r) => step[r] # "insert" /\ step[r] # "event"
         /\ \A r \in Requests : appt[r] # 0 => appt[r] \in Requests /\ Tried(appt[r])
<1>1. /\ TypeOK /\ Flow /\ Eventful /\ Cancelled /\ CalendarAgrees
      /\ step \in [Requests -> Labels] /\ 0 \notin Requests
      /\ appts \subseteq Requests /\ appt \in [Requests -> Requests \cup {0}]
  BY CrmAssumption DEF IInv, TypeOK
<1>2. \A r \in Requests : Fits(kind[r], step[r]) /\ Fits(kind'[r], step'[r])
  BY FlowStep DEF IInv, Flow
<1>3. \A r \in Requests : Event(r).appt = r /\ Event(r) # NoEvent /\ Event(r).account = account[r]
  BY <1>1 DEF Event, NoEvent
<1> QED
  BY <1>1, <1>2, <1>3 DEF NoEvent, Tried, Flow

LEMMA EventfulStep ==
  ASSUME IInv, Next
  PROVE  Eventful'
<1> USE CalendarTypes
<1>1. ASSUME NEW r \in Requests
      PROVE  /\ account'[r] = account[r] \/ step[r] \in {"calendar", "uncalendar"}
             /\ eventId'[r] = eventId[r] \/ step[r] = "event"
  BY EventSteps DEF ReadTokens, CreateEvent
<1>2. ASSUME NEW r \in Requests, eventId'[r] # NoEvent
      PROVE  /\ (eventId[r] = Event(r))' /\ account'[r] # 0
             /\ kind'[r] = "appointment" /\ (Tried(r)' \/ step'[r] = "insert")
             /\ step'[r] = "insert" => eventId'[r] \in google'
  <2>1. CASE eventId'[r] = eventId[r]
    <3>1. /\ eventId[r] = Event(r) /\ account[r] # 0
          /\ kind[r] = "appointment" /\ (Tried(r) \/ step[r] = "insert")
          /\ step[r] = "insert" => eventId[r] \in google
      BY <1>2, <2>1 DEF Eventful
    <3>2. account'[r] = account[r]
      BY <1>1, <3>1 DEF Tried
    <3>3. (eventId[r] = Event(r))'
      BY <2>1, <3>1, <3>2 DEF Event
    <3>4. CASE Tried(r)
      BY <3>1, <3>2, <3>3, <3>4, Lasting DEF Tried
    <3>5. CASE step[r] = "insert"
      <4>1. kind'[r] = "appointment" /\ (Tried(r)' \/ step'[r] = "insert")
        BY <3>1, <3>5, Lasting DEF Tried
      <4>2. \A q \in Requests : DeleteEvent(q) => appt[q] # r
        BY <3>5 DEF DeleteEvent
      <4>3. eventId[r] \in google'
        BY <3>1, <3>5, <4>2, EventSteps
      <4> QED
        BY <2>1, <3>1, <3>2, <3>3, <4>1, <4>3
    <3> QED
      BY <3>1, <3>4, <3>5
  <2>2. CASE eventId'[r] # eventId[r]
    <3>1. CreateEvent(r) /\ eventId'[r] = Event(r)
      BY <2>2, EventSteps
    <3>2. /\ step[r] = "event" /\ step'[r] = "insert" /\ account' = account /\ kind' = kind
          /\ eventId' # eventId => google' = google \cup {Event(r)}
      BY <3>1 DEF CreateEvent, Goto, Others
    <3>3. account[r] # 0 /\ kind[r] = "appointment"
      BY <3>2 DEF Eventful, Fits
    <3>4. (eventId[r] = Event(r))' /\ eventId'[r] \in google'
      BY <2>2, <3>1, <3>2 DEF Event
    <3> QED
      BY <3>2, <3>3, <3>4
  <2> QED
    BY <2>1, <2>2
<1>3. ASSUME NEW r \in Requests, step'[r] \in {"event", "unevent"}
      PROVE  account'[r] # 0
  <2>1. CASE Still(r)
    BY <1>1, <1>3, <2>1 DEF Still, Eventful
  <2>2. CASE ~Still(r)
    BY <1>3, <2>2, Cancelling
  <2> QED
    BY <2>1, <2>2
<1>4. ASSUME NEW r \in Requests, account'[r] # 0
      PROVE  tokens' # 0 /\ (account'[r] = tokens' \/ reconnected')
  BY <1>4, EventSteps DEF Eventful
<1>5. \A a \in Requests : eventId[a] # NoEvent => eventId'[a] # NoEvent
  BY EventSteps
<1>6. ASSUME NEW r \in Requests, step'[r] \in {"uncalendar", "unevent"}
      PROVE  eventId'[appt'[r]] # NoEvent
  <2>1. CASE Still(r)
    <3>1. appt'[r] = appt[r] /\ eventId[appt[r]] # NoEvent /\ kind[r] = "cancel"
      BY <1>6, <2>1 DEF Still, Eventful, Fits
    <3> QED
      BY <1>5, <3>1 DEF Flow
  <2>2. CASE ~Still(r)
    <3>1. appt'[r] = appt[r] /\ (ReadAppointment(r) \/ step[r] = "uncalendar")
      BY <1>6, <2>2, Cancelling
    <3>2. CASE ReadAppointment(r)
      <4>1. appt[r] \in appts /\ eventId[appt[r]] # NoEvent
        BY <1>6, <3>2 DEF ReadAppointment, Goto, At
      <4> QED
        BY <1>5, <3>1, <4>1
    <3>3. CASE step[r] = "uncalendar"
      <4>1. eventId[appt[r]] # NoEvent /\ kind[r] = "cancel"
        BY <3>3 DEF Eventful, Fits
      <4> QED
        BY <1>5, <3>1, <4>1 DEF Flow
    <3> QED
      BY <3>1, <3>2, <3>3
  <2> QED
    BY <2>1, <2>2
<1>7. ASSUME NEW e \in google'
      PROVE  /\ e.appt \in Requests /\ kind'[e.appt] = "appointment"
             /\ Tried(e.appt)' \/ step'[e.appt] = "insert"
             /\ eventId'[e.appt] = e \/ e.appt \in orphaned'
  <2>1. CASE e \in google
    <3>1. /\ e.appt \in Requests /\ kind[e.appt] = "appointment"
          /\ Tried(e.appt) \/ step[e.appt] = "insert"
          /\ eventId[e.appt] = e \/ e.appt \in orphaned
      BY <2>1 DEF Eventful
    <3>2. eventId'[e.appt] = eventId[e.appt]
      BY <1>1, <3>1
    <3>3. kind'[e.appt] = "appointment" /\ (Tried(e.appt)' \/ step'[e.appt] = "insert")
      BY <3>1, Lasting DEF Tried
    <3> QED
      BY <3>1, <3>2, <3>3, EventSteps
  <2>2. ASSUME NEW q \in Requests, CreateEvent(q), e = Event(q),
               eventId'[q] = e \/ q \in orphaned'
        PROVE  /\ e.appt \in Requests /\ kind'[e.appt] = "appointment"
               /\ Tried(e.appt)' \/ step'[e.appt] = "insert"
               /\ eventId'[e.appt] = e \/ e.appt \in orphaned'
    <3>1. step[q] = "event" /\ step'[q] = "insert" /\ kind' = kind
      BY <2>2 DEF CreateEvent, Goto, Others
    <3>2. kind[q] = "appointment" /\ e.appt = q
      BY <2>2, <3>1 DEF Fits
    <3> QED
      BY <2>2, <3>1, <3>2
  <2> QED
    BY <2>1, <2>2, EventSteps
<1> QED
  BY <1>2, <1>3, <1>4, <1>6, <1>7 DEF Eventful

\* When a row is about to go, its event is gone or left to itself.
LEMMA CancelledStep ==
  ASSUME IInv, Next
  PROVE  Cancelled'
<1> USE CalendarTypes
<1> SUFFICES ASSUME NEW r \in Requests, step'[r] = "delete"
             PROVE  \/ appt'[r] \notin appts' \/ appt'[r] \in orphaned' \/ reconnected'
                    \/ \A e \in google' : e.appt # appt'[r]
  BY DEF Cancelled
<1>a. appt'[r] = appt[r] /\ appt[r] \in Requests /\ Tried(appt[r])
  <2>1. appt'[r] = appt[r] /\ kind'[r] = "cancel"
    BY Cancelling DEF Fits
  <2>2. appt'[r] # 0
    BY <2>1, FlowStep DEF Flow
  <2> QED
    BY <2>1, <2>2
<1>1. appt[r] \notin appts => appt[r] \notin appts'
  BY <1>a, Appointments DEF Booked
<1>2. \A e \in google' : e.appt = appt[r] => e \in google
  BY <1>a, EventSteps DEF CreateEvent
<1>3. (reconnected => reconnected') /\ (appt[r] \in orphaned => appt[r] \in orphaned')
  BY EventSteps
<1>4. CASE Still(r)
  BY <1>1, <1>2, <1>3, <1>4, <1>a DEF Still, Cancelled
<1>5. CASE ReadAppointment(r)
  <2>1. appt[r] \notin appts \/ eventId[appt[r]] = NoEvent
    BY <1>5 DEF ReadAppointment, Goto, At
  <2>2. CASE eventId[appt[r]] = NoEvent
    <3>1. \A e \in google : e.appt = appt[r] => appt[r] \in orphaned
      BY <1>a, <2>2 DEF Eventful
    <3> QED
      BY <1>2, <1>3, <1>a, <3>1
  <2> QED
    BY <1>1, <1>a, <2>1, <2>2
<1>6. CASE DeleteEvent(r)
  <2>1. /\ step[r] = "unevent" /\ account[r] # 0 /\ eventId[appt[r]] # NoEvent
        /\ \/ appt[r] \in orphaned'
           \/ google' = google \ {[account |-> account[r], appt |-> appt[r]]}
    BY <1>6 DEF DeleteEvent, Eventful
  <2>2. eventId[appt[r]] = Event(appt[r]) /\ account[appt[r]] # 0
    BY <1>a, <2>1 DEF Eventful
  <2>3. account[appt[r]] = account[r] \/ reconnected
    BY <1>a, <2>1, <2>2 DEF Eventful
  <2>4. ASSUME google' = google \ {[account |-> account[r], appt |-> appt[r]]},
               account[appt[r]] = account[r], NEW e \in google', e.appt = appt[r]
        PROVE  appt[r] \in orphaned
    <3>1. e # Event(appt[r])
      BY <2>4 DEF Event
    <3> QED
      BY <1>a, <2>2, <2>4, <3>1 DEF Eventful
  <2> QED
    BY <1>3, <1>a, <2>1, <2>3, <2>4
<1>7. CASE step[r] = "uncalendar" /\ tokens = 0
  <2>1. eventId[appt[r]] # NoEvent
    BY <1>7 DEF Eventful
  <2> QED
    BY <1>7, <1>a, <2>1 DEF Eventful
<1> QED
  BY <1>4, <1>5, <1>6, <1>7, Cancelling

LEMMA CalendarAgreesStep ==
  ASSUME IInv, Next
  PROVE  CalendarAgrees'
<1> USE CalendarTypes
<1>m. /\ reconnected => reconnected'
      /\ orphaned \subseteq orphaned' /\ cascaded \subseteq cascaded'
  BY EventSteps, Appointments
<1>1. ASSUME NEW e \in google'
      PROVE  \/ e.appt \in appts' \/ step'[e.appt] = "insert"
             \/ e.appt \in orphaned' \/ e.appt \in cascaded' \/ reconnected'
  <2>1. CASE e \notin google
    BY <2>1, EventSteps DEF CreateEvent, Goto
  <2>2. CASE e \in google /\ e.appt \in appts
    <3>1. ASSUME NEW r \in Requests, step[r] = "delete", appt[r] = e.appt
          PROVE  e.appt \in orphaned \/ reconnected
      BY <2>2, <3>1 DEF Cancelled
    <3> QED
      BY <1>m, <2>2, <3>1, Appointments
  <2>3. CASE e \in google /\ step[e.appt] = "insert"
    BY <2>3, Lasting DEF Eventful
  <2> QED
    BY <1>m, <2>1, <2>2, <2>3 DEF CalendarAgrees
<1>b. broke \subseteq broke'
  BY Breaks
<1>2. ASSUME NEW a \in appts', eventId'[a] # NoEvent
      PROVE  \/ eventId'[a] \in google'
             \/ \E r \in Requests : /\ kind'[r] = "cancel" /\ appt'[r] = a
                                    /\ step'[r] = "delete" \/ r \in broke'
  <2>1. CASE a \in appts
    <3>1. eventId'[a] = eventId[a] /\ Tried(a)
      BY <2>1, EventSteps DEF CreateEvent, Flow
    <3>2. CASE eventId[a] \in google
      <4>1. ASSUME NEW q \in Requests, DeleteEvent(q), eventId[a].appt = appt[q]
            PROVE  kind'[q] = "cancel" /\ appt'[q] = a /\ step'[q] = "delete"
        <5>1. step[q] = "unevent" /\ step'[q] = "delete" /\ kind' = kind /\ appt' = appt
          BY <4>1 DEF DeleteEvent, Goto, Others, rows
        <5>2. kind[q] = "cancel"
          BY <5>1 DEF Fits
        <5>3. eventId[a].appt = a
          BY <1>2, <2>1, <3>1 DEF Eventful
        <5> QED
          BY <4>1, <5>1, <5>2, <5>3
      <4> QED
        BY <3>1, <3>2, <4>1, EventSteps
    <3>3. ASSUME NEW r \in Requests, kind[r] = "cancel", appt[r] = a,
                 step[r] = "delete" \/ r \in broke
          PROVE  /\ kind'[r] = "cancel" /\ appt'[r] = a
                 /\ step'[r] = "delete" \/ r \in broke'
      <4>1. kind'[r] = "cancel" /\ appt'[r] = a /\ (Still(r) \/ GoesOn(r))
        BY <3>3, Progress DEF Still, Arrives, GoesOn
      <4>2. GoesOn(r) /\ step[r] = "delete" => r \in broke'
        BY <1>2, <3>3 DEF GoesOn, DeleteAppointment, Die, Fail
      <4> QED
        BY <1>b, <3>3, <4>1, <4>2 DEF Still
    <3> QED
      BY <1>2, <2>1, <3>1, <3>2, <3>3 DEF CalendarAgrees
  <2>2. CASE a \notin appts
    <3>1. a \in Requests /\ InsertAppointment(a) /\ step[a] = "insert"
      BY <2>2, Appointments DEF Booked
    <3>2. UNCHANGED <<eventId, google>>
      BY <3>1 DEF InsertAppointment
    <3> QED
      BY <1>2, <3>1, <3>2 DEF Eventful
  <2> QED
    BY <2>1, <2>2
<1> QED
  BY <1>1, <1>2 DEF CalendarAgrees

-----------------------------------------------------------------------------
(* The theorems *)

LEMMA Initially ==
  ASSUME Init
  PROVE  IInv
<1> USE CrmAssumption, LeadAssumption DEF Init, CrmInit
<1>1. TypeOK
  <2>1. /\ NoGrant \in Grants /\ NoRow \in Rows /\ NoEvent \in Events
    BY DEF NoGrant, Grant, Grants, NoRow, Rows, NoEvent, Events
  <2>2. CrmTypeOK
    <3>1. /\ plan \in Plans /\ kind \in [Requests -> Kinds \cup {"none"}]
          /\ faults \in 0..MaxFaults
          /\ states \subseteq Requests /\ live \subseteq Grants /\ issued \in Nat
          /\ sync \in [Requests -> Stages]
      BY DEF Stages
    <3>2. /\ conn \in Rows /\ held \in [Requests -> Rows] /\ got \in [Requests -> Grants]
          /\ told \subseteq Requests
      BY <2>1
    <3>3. stale \in BOOLEAN /\ lost \in BOOLEAN
      OBVIOUS
    <3> QED
      BY <3>1, <3>2, <3>3, Zenon DEF CrmTypeOK
  <2>3. /\ tokens \in Calendars \cup {0}
        /\ keyValid \in BOOLEAN /\ mayWrite \in BOOLEAN /\ touched \in BOOLEAN
    OBVIOUS
  <2>4. step \in [Requests -> Labels]
    BY DEF Labels
  <2> QED
    BY <2>1, <2>2, <2>3, <2>4 DEF TypeOK, OldLead
<1>2. Flow
  BY DEF Flow, Fits
<1>3. Numbered /\ OneRow
  BY DEF Numbered, OneRow, NoRow, NoGrant, Grant
<1>4. Distinct /\ Renewing /\ Usable
  BY DEF Distinct, Unstored, Renewing, Usable, NoRow
<1>5. Eventful /\ Cancelled
  BY DEF Eventful, Cancelled
<1>6. CalendarAgrees /\ Told /\ Announced
  BY DEF CalendarAgrees, Told, Announced
<1> QED
  BY <1>1, <1>2, <1>3, <1>4, <1>5, <1>6 DEF IInv

LEMMA Stutters ==
  ASSUME IInv, UNCHANGED vars
  PROVE  IInv'
<1> USE DEF vars, crm, calendar, rows, apikey, connection, syncing
<1>1. IInv
  OBVIOUS
<1>2. TypeOK'
  BY <1>1 DEF IInv, TypeOK, CrmTypeOK
<1>3. Flow'
  BY <1>1 DEF IInv, Flow, Tried
<1>4. Numbered' /\ Distinct' /\ OneRow' /\ Renewing' /\ Usable'
  BY <1>1 DEF IInv, Numbered, Distinct, Unstored, OneRow, Renewing, Usable
<1>5. Eventful' /\ Cancelled' /\ CalendarAgrees'
  BY <1>1 DEF IInv, Eventful, Cancelled, CalendarAgrees, Tried, Event
<1>6. Told' /\ Announced'
  BY <1>1 DEF IInv, Told, Announced
<1> QED
  BY <1>2, <1>3, <1>4, <1>5, <1>6 DEF IInv

\* The invariant holds in every state of a behaviour of Spec.
THEOREM Inductive == Spec => []IInv
<1>1. Init => IInv
  BY Initially
<1>2. ASSUME IInv, [Next]_vars
      PROVE  IInv'
  <2>1. CASE Next
    BY <1>2, <2>1, TypeOKStep, FlowStep, TokensStep, EventfulStep, CancelledStep,
       CalendarAgreesStep, ToldStep, AnnouncedStep DEF IInv, Tokens
  <2> QED
    BY <1>2, <2>1, Stutters
<1> QED
  BY <1>1, <1>2, PTL DEF Spec

\* Every variable keeps the values its column, its key or its handler can hold.
THEOREM TypeCorrect == Spec => []TypeOK
<1>1. IInv => TypeOK
  BY DEF IInv
<1> QED
  BY <1>1, Inductive, PTL

\* However syncs, reconnections and disconnections interleave, the refresh token
\* of a row is one the provider honours and the row names its account, unless two
\* of them overlapped or an answer was lost.
THEOREM ConnectionsAreUsable == Spec => []ConnectionUsable
<1>1. IInv => ConnectionUsable
  BY DEF IInv, Usable, ConnectionUsable
<1> QED
  BY <1>1, Inductive, PTL

\* However bookings, cancellations and deletions of leads interleave, an event at
\* Google stands for a row and a row's event is there, up to the failures named.
THEOREM CalendarsAgree == Spec => []CalendarAgrees
<1>1. IInv => CalendarAgrees
  BY DEF IInv
<1> QED
  BY <1>1, Inductive, PTL

\* An event is fired when all of its request is stored and never before, and none
\* is left out unless the request failed; the CRM has the leads it was told of.
THEOREM EventsAreTrue == Spec => []Announced
<1>1. IInv => Announced
  BY DEF IInv
<1> QED
  BY <1>1, Inductive, PTL
=============================================================================
