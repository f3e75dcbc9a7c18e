------------------------------- MODULE Leads --------------------------------
(***************************************************************************)
(* Leads and appointments (app/leads/router.py), the company's Google      *)
(* calendar (app/leads/calendar.py), leads that come through an API key    *)
(* (app/v1/router.py, app/mcp/server.py), and the events they fire, which  *)
(* Webhooks and Crm carry on.  One company.                                *)
(*                                                                         *)
(* An appointment is a row here and an event at Google, written one after  *)
(* the other with no transaction around them.  A handler does not await    *)
(* between the two, but several workers serve the company.                 *)
(***************************************************************************)
EXTENDS Crm

CONSTANT Calendars  \* Google accounts, numbers from 1

ASSUME LeadAssumption == Calendars \subseteq Nat \ {0}

OldLead == 0  \* a lead that is there; the others are named by their request

VARIABLES
    leads,      \* rows
    booked,     \* leads with status "appointment"
    appts,      \* rows of appointments, named by their request
    lead,       \* the lead a request names
    appt,       \* the appointment a request names
    tokens,     \* companies.calendar_tokens: the account, or 0
    account,    \* the account whose tokens a request read
    eventId,    \* google_event_id of a request's appointment: an account's event
    google,     \* the events there are, by account and appointment
    keyValid,   \* the API key is not revoked
    mayWrite,   \* and has the scope leads:write
    touched,    \* _last_used_seen: less than 300 s ago
    announced   \* requests whose event was fired

\* History.
VARIABLES
    orphaned,   \* appointments whose event was left to itself by a failure
    cascaded,   \* appointments deleted with their lead
    reconnected, \* the calendar was connected again
    broke       \* requests that failed on the way

calendar == <<tokens, account, eventId, google, orphaned, reconnected>>
rows     == <<leads, booked, appts, lead, appt, cascaded>>
apikey   == <<keyValid, mayWrite, touched>>
vars     == <<crm, calendar, rows, apikey, announced, broke>>
Others   == <<plan, kind, connection, held, got, told>>

Event(r)  == [account |-> account[r], appt |-> r]
NoEvent   == [account |-> 0, appt |-> 0]
Fail(r)   == Fails /\ Goto(r, "failed") /\ broke' = broke \cup {r}

\* fire_event: a task is spawned.  Only lead events go to the CRM.
Fire(r, forCrm) ==
    /\ announced' = announced \cup {r}
    /\ IF forCrm THEN SyncTo(r, "dispatch") ELSE UNCHANGED sync

Arrive(r, k) ==
    /\ Ask(r, k)
    /\ \/ /\ k \in {"update", "status", "droplead", "appointment"}
          /\ \E l \in leads : lead' = [lead EXCEPT ![r] = l]
          /\ UNCHANGED appt
       \/ /\ k \in {"move", "cancel"}
          /\ \E a \in appts : appt' = [appt EXCEPT ![r] = a]
          /\ UNCHANGED lead
       \/ k \notin {"update", "status", "droplead", "appointment", "move", "cancel"}
          /\ UNCHANGED <<lead, appt>>
    /\ UNCHANGED <<plan, faults, connection, syncing, calendar, leads, booked, appts, cascaded,
                   apikey, announced, broke>>

-----------------------------------------------------------------------------
(* Leads *)

\* create_lead, v1_create_lead and the tool create_lead: the insert, and the event.
InsertLead(r) ==
    /\ At(r, "lead", "begin") \/ At(r, "api", "insert")
    /\ \/ /\ leads' = leads \cup {r} /\ Fire(r, TRUE) /\ Goto(r, "done")
          /\ UNCHANGED <<faults, broke>>
       \/ leads' \in {leads, leads \cup {r}} /\ Fail(r) /\ UNCHANGED <<sync, announced>>
    /\ UNCHANGED <<Others, calendar, booked, appts, lead, appt, cascaded, apikey>>

\* _validate_api_key and _auth, up to the scopes: 401 and 403, or -32001 and
\* -32003; a failed lookup is a 500 there and -32001 here.
ValidateKey(r) ==
    /\ At(r, "api", "begin")
    /\ \/ Goto(r, IF ~keyValid THEN "refused" ELSE IF touched THEN "scope" ELSE "touch")
          /\ touched' = (touched \/ keyValid) /\ UNCHANGED <<faults, broke>>
       \/ Fail(r) /\ UNCHANGED touched
    /\ UNCHANGED <<Others, sync, calendar, rows, keyValid, mayWrite, announced>>

\* The write of last_used; a failure is passed over.
TouchLastUsed(r) ==
    /\ step[r] = "touch" /\ Goto(r, "scope")
    /\ UNCHANGED <<Others, faults, sync, calendar, rows, apikey, announced, broke>>

CallTool(r) ==
    /\ step[r] = "scope" /\ Goto(r, IF mayWrite THEN "insert" ELSE "refused")
    /\ UNCHANGED <<Others, faults, sync, calendar, rows, apikey, announced, broke>>

KeyChanges ==
    /\ \E r \in Requests : "api" \in plan[r]
    /\ \/ keyValid /\ keyValid' = FALSE /\ UNCHANGED touched
       \/ touched  /\ touched'  = FALSE /\ UNCHANGED keyValid
    /\ UNCHANGED <<crm, calendar, rows, mayWrite, announced, broke>>

\* The status of the lead that is named becomes another, or stays.
AnyStatus(r) == booked' \in {booked \ {lead[r]}, booked \cup ({lead[r]} \cap leads)}

\* update_lead: a status in it is not announced as a change of status.
UpdateLead(r) ==
    /\ At(r, "update", "begin") /\ Goto(r, IF lead[r] \in leads THEN "done" ELSE "refused")
    /\ AnyStatus(r)
    /\ UNCHANGED <<Others, faults, sync, calendar, leads, appts, lead, appt, cascaded, apikey,
                   announced, broke>>

\* update_lead_status: 404 for a row that is gone.
UpdateStatus(r) ==
    /\ At(r, "status", "begin")
    /\ \/ /\ lead[r] \in leads
          /\ AnyStatus(r) /\ Fire(r, TRUE) /\ Goto(r, "done")
          /\ UNCHANGED <<faults, broke>>
       \/ /\ lead[r] \notin leads /\ Goto(r, "refused")
          /\ UNCHANGED <<faults, broke, booked, sync, announced>>
       \/ AnyStatus(r) /\ Fail(r) /\ UNCHANGED <<sync, announced>>
    /\ UNCHANGED <<Others, calendar, leads, appts, lead, appt, cascaded, apikey>>

\* delete_lead: its appointments go with it (ON DELETE CASCADE).
DeleteLead(r) ==
    LET gone == {a \in appts : lead[a] = lead[r]} IN
    /\ At(r, "droplead", "begin") /\ Goto(r, "done")
    /\ leads' = leads \ {lead[r]} /\ booked' = booked \ {lead[r]}
    /\ appts' = appts \ gone
    /\ cascaded' = cascaded \cup gone
    /\ UNCHANGED <<Others, faults, sync, calendar, lead, appt, apikey, announced, broke>>

-----------------------------------------------------------------------------
(* Appointments *)

\* create_appointment, to create_event: the lead must be there.
CheckLead(r) ==
    /\ At(r, "appointment", "begin")
    /\ Goto(r, IF lead[r] \in leads THEN "calendar" ELSE "refused")
    /\ UNCHANGED <<Others, faults, sync, calendar, rows, apikey, announced, broke>>

\* The company's tokens, for an event to be made or to be deleted.
ReadTokens(r) ==
    /\ step[r] \in {"calendar", "uncalendar"}
    /\ \/ /\ account' = [account EXCEPT ![r] = tokens]
          /\ Goto(r, IF step[r] = "calendar" THEN IF tokens = 0 THEN "insert" ELSE "event"
                     ELSE IF tokens = 0 THEN "delete" ELSE "unevent")
          /\ UNCHANGED <<faults, broke, orphaned>>
       \/ Fail(r) /\ UNCHANGED <<account, orphaned>>
    /\ UNCHANGED <<Others, sync, tokens, eventId, google, reconnected, rows, apikey, announced>>

\* create_event: any exception is None, that of a lost answer too.
CreateEvent(r) ==
    /\ step[r] = "event" /\ Goto(r, "insert")
    /\ \/ /\ google'  = google \cup {Event(r)}
          /\ eventId' = [eventId EXCEPT ![r] = Event(r)]
          /\ UNCHANGED <<faults, orphaned>>
       \/ Fails /\ UNCHANGED <<google, eventId, orphaned>>
       \/ Fails /\ google' = google \cup {Event(r)} /\ orphaned' = orphaned \cup {r}
          /\ UNCHANGED eventId
    /\ UNCHANGED <<Others, sync, tokens, account, reconnected, rows, apikey, announced, broke>>

\* The insert needs the lead to be there still.
InsertAppointment(r) ==
    /\ step[r] = "insert" /\ kind[r] = "appointment"
    /\ \/ /\ lead[r] \in leads /\ appts' = appts \cup {r} /\ Goto(r, "mark")
          /\ UNCHANGED <<faults, orphaned, broke>>
       \/ /\ lead[r] \notin leads /\ Goto(r, "failed") /\ broke' = broke \cup {r}
          /\ orphaned' = orphaned \cup {r} /\ UNCHANGED <<faults, appts>>
       \/ Fail(r) /\ orphaned' = orphaned \cup {r} /\ UNCHANGED appts
    /\ UNCHANGED <<Others, sync, tokens, account, eventId, google, reconnected, leads, booked,
                   lead, appt, cascaded, apikey, announced>>

\* Mutant of MarkLead: the handler ends without its event.
MarkAndReturn(r) ==
    /\ step[r] = "mark" /\ Goto(r, "done")
    /\ booked' = booked \cup ({lead[r]} \cap leads)
    /\ UNCHANGED <<Others, faults, sync, calendar, leads, appts, lead, appt, cascaded, apikey,
                   announced, broke>>

MarkLead(r) ==
    /\ step[r] = "mark"
    /\ \/ booked' = booked \cup ({lead[r]} \cap leads) /\ Goto(r, "fire")
          /\ UNCHANGED <<faults, broke>>
       \/ Fail(r) /\ UNCHANGED booked
    /\ UNCHANGED <<Others, sync, calendar, leads, appts, lead, appt, cascaded, apikey, announced>>

FireBooked(r) ==
    /\ step[r] = "fire" /\ Goto(r, "done") /\ Fire(r, FALSE)
    /\ UNCHANGED <<Others, faults, calendar, rows, apikey, broke>>

\* update_appointment: the row's time or status alone, which the model does not
\* keep.  The event keeps its time and nothing is announced.
MoveAppointment(r) ==
    /\ At(r, "move", "begin") /\ Goto(r, IF appt[r] \in appts THEN "done" ELSE "refused")
    /\ UNCHANGED <<Others, faults, sync, calendar, rows, apikey, announced, broke>>

\* delete_appointment: without an event of its own the row is deleted at once.
ReadAppointment(r) ==
    /\ At(r, "cancel", "begin")
    /\ Goto(r, IF appt[r] \in appts /\ eventId[appt[r]] # NoEvent THEN "uncalendar"
               ELSE "delete")
    /\ UNCHANGED <<Others, faults, sync, calendar, rows, apikey, announced, broke>>

\* Mutant of DeleteEvent: Google is not asked.
KeepEvent(r) ==
    /\ step[r] = "unevent" /\ Goto(r, "delete")
    /\ UNCHANGED <<Others, faults, sync, calendar, rows, apikey, announced, broke>>

\* delete_event under the tokens that were read; its result is not looked at.
DeleteEvent(r) ==
    /\ step[r] = "unevent" /\ Goto(r, "delete")
    /\ \/ google' = google \ {[account |-> account[r], appt |-> appt[r]]}
          /\ UNCHANGED <<faults, orphaned>>
       \/ Fails /\ orphaned' = orphaned \cup {appt[r]} /\ UNCHANGED google
    /\ UNCHANGED <<Others, sync, tokens, account, eventId, reconnected, rows, apikey, announced,
                   broke>>

DeleteAppointment(r) ==
    /\ step[r] = "delete"
    /\ \/ appts' = appts \ {appt[r]} /\ Goto(r, "done") /\ UNCHANGED <<faults, broke>>
       \/ Fail(r) /\ UNCHANGED appts
    /\ UNCHANGED <<Others, sync, calendar, leads, booked, lead, appt, cascaded, apikey,
                   announced>>

\* calendar_callback: exchange_code stores the tokens of an account, or fails.
ConnectCalendar(r) ==
    /\ At(r, "calendar", "begin")
    /\ \/ /\ Goto(r, "done") /\ tokens' \in Calendars
          /\ reconnected' = (reconnected \/ tokens # 0)
       \/ Goto(r, "failed") /\ UNCHANGED <<tokens, reconnected>>
    /\ UNCHANGED <<Others, faults, sync, account, eventId, google, orphaned, rows, apikey,
                   announced, broke>>

-----------------------------------------------------------------------------
\* The worker dies with a handler that is between two calls.
Die(r) ==
    /\ step[r] \in {"event", "insert", "mark", "fire", "unevent", "delete"} /\ Fail(r)
    /\ orphaned' = IF step[r] = "insert" THEN orphaned \cup {r} ELSE orphaned
    /\ UNCHANGED <<Others, sync, tokens, account, eventId, google, reconnected, rows, apikey,
                   announced>>

Init ==
    /\ CrmInit
    /\ leads = {OldLead} /\ booked = {} /\ appts = {} /\ cascaded = {}
    /\ lead = [r \in Requests |-> OldLead] /\ appt = [r \in Requests |-> 0]
    /\ tokens \in IF \E r \in Requests : {"appointment", "cancel"} \cap plan[r] # {}
                  THEN Calendars \cup {0} ELSE {0}
    /\ account = [r \in Requests |-> 0] /\ eventId = [r \in Requests |-> NoEvent]
    /\ google = {} /\ orphaned = {} /\ reconnected = FALSE
    /\ keyValid = TRUE /\ touched = FALSE
    /\ mayWrite \in IF \E r \in Requests : "api" \in plan[r] THEN BOOLEAN ELSE {TRUE}
    /\ announced = {} /\ broke = {}

Next ==
    \/ CrmNext /\ UNCHANGED <<calendar, rows, apikey, announced, broke>>
    \/ \E r \in Requests :
          \/ \E k \in Kinds : Arrive(r, k)
          \/ InsertLead(r) \/ ValidateKey(r) \/ TouchLastUsed(r) \/ CallTool(r)
          \/ UpdateLead(r) \/ UpdateStatus(r) \/ DeleteLead(r)
          \/ CheckLead(r) \/ ReadTokens(r) \/ CreateEvent(r) \/ InsertAppointment(r)
          \/ MarkLead(r) \/ FireBooked(r) \/ MoveAppointment(r) \/ ReadAppointment(r)
          \/ DeleteEvent(r) \/ DeleteAppointment(r) \/ ConnectCalendar(r) \/ Die(r)
    \/ KeyChanges

Spec == Init /\ [][Next]_vars

Labels == {"idle", "begin", "consent", "exchange", "upsert", "upsert nameless", "touch", "scope",
           "insert", "calendar", "uncalendar", "event", "unevent", "mark", "fire", "delete",
           "done", "failed", "refused"}
Events == [account : Calendars \cup {0}, appt : Requests \cup {0}]

TypeOK ==
    /\ CrmTypeOK
    /\ step \in [Requests -> Labels]
    /\ leads \subseteq Requests \cup {OldLead} /\ booked \subseteq leads
    /\ appts \subseteq Requests /\ cascaded \subseteq Requests
    /\ lead \in [Requests -> Requests \cup {OldLead}] /\ appt \in [Requests -> Requests \cup {0}]
    /\ tokens \in Calendars \cup {0} /\ account \in [Requests -> Calendars \cup {0}]
    /\ eventId \in [Requests -> Events] /\ google \subseteq Events
    /\ orphaned \subseteq Requests /\ reconnected \in BOOLEAN
    /\ keyValid \in BOOLEAN /\ mayWrite \in BOOLEAN /\ touched \in BOOLEAN
    /\ announced \subseteq Requests /\ broke \subseteq Requests

-----------------------------------------------------------------------------
(* Google's calendar and the appointments agree: an event stands for a row, or  *)
(* its request is still at work; it is left behind only by a call that failed,  *)
(* a lead deleted with its appointments, or a calendar that was connected anew. *)
(* And a row's event is there, unless the row is just being deleted or that     *)
(* failed.                                                                      *)
CalendarAgrees ==
    /\ \A e \in google :
          \/ e.appt \in appts \/ step[e.appt] = "insert"
          \/ e.appt \in orphaned \/ e.appt \in cascaded \/ reconnected
    /\ \A a \in appts : eventId[a] # NoEvent =>
          \/ eventId[a] \in google
          \/ \E r \in Requests : /\ kind[r] = "cancel" /\ appt[r] = a
                                 /\ step[r] = "delete" \/ r \in broke

(* Who subscribes to events hears the truth: an event is fired last, when all    *)
(* of its request is stored, and nothing that was stored goes unannounced unless *)
(* its request failed.  A lead that was announced is in the CRM when its sync is *)
(* over, unless there was no CRM or a call failed.                               *)
Announced ==
    /\ \A r \in Requests : step[r] = "done" =>
          (r \in announced <=> kind[r] \in {"lead", "api", "status", "appointment"})
    /\ \A r \in announced : step[r] = "done"
    /\ \A r \in appts \cup (leads \ {OldLead}) :
          r \in announced \/ r \in broke \/ step[r] \in {"mark", "fire"}
    /\ \A r \in announced : sync[r] = "over" =>
          r \in told \/ held[r].id = 0 \/ faults > 0 \/ held[r].grant \notin live
=============================================================================
