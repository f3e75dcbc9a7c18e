------------------------------ MODULE ChatSession ------------------------------
(****************************************************************************)
(* The chat of one visitor: requests to POST /chat/message for one session  *)
(* (app/chat/router.py, app/chat/engine.py, app/agents).                    *)
(*                                                                          *)
(* Every request reads the history, talks to the model, captures what the   *)
(* visitor said of themselves as a lead, adds its turn to the conversation  *)
(* row, writes the history back, and links a lead to the conversation.      *)
(* None of it is serialised: requests of a session may overlap anywhere,    *)
(* and the client decides which lead_id it sends along.                     *)
(*                                                                          *)
(* Data abstraction: a turn is the request that made it, a lead is known by *)
(* how it came about and by the request that inserted it.  Scores are left  *)
(* out but for the sign that decides about a placeholder lead.  Whether a   *)
(* message says something of the visitor is a choice made when the model    *)
(* answers.  A local variable is forgotten once it is not read any more.    *)
(****************************************************************************)
EXTENDS Naturals, Sequences, FiniteSets

CONSTANTS
    Requests,   \* messages posted for the session
    Keep,       \* turns the cached history holds (20 messages)
    Forgetful,  \* the client may leave out a lead_id it was told
    MaxFailures, \* bound: requests to which a failure happens
    Absent,     \* no cached history, no conversation row
    None        \* no lead

ASSUME KeepAssumption      == Keep \in Nat \ {0}
ASSUME ForgetfulAssumption == Forgetful \in BOOLEAN
ASSUME FailuresAssumption  == MaxFailures \in Nat
ASSUME AbsentAssumption    == Absent \notin Seq(Requests)

Captured    == {"captured"} \X Requests      \* capture_lead_fields
Placeholder == {"placeholder"} \X Requests   \* _get_or_create_session_lead
Leads       == Captured \cup Placeholder

ASSUME NoneAssumption == None \notin Leads

VARIABLES
    cache,      \* Redis: chat:session:{company}:{session}
    row,        \* conversations: the transcript
    rowLead,    \* its lead_id
    leads,      \* lead rows of the session
    pc,         \* where each request is
    hist,       \* the history it read
    lead,       \* the lead_id it knows: its body's, then what it links
    effective,  \* effective_lead_id
    engaged,    \* its score_delta is above zero
    snap        \* the transcript it read to append to

\* History variables.
VARIABLES
    told,       \* leads the client was told of
    overlapped, \* two requests have been in flight at one time
    clash,      \* requests that read the transcript beside a pending write
    race,       \* requests that looked for a lead beside a pending link
    failed      \* requests some call of which raised, or that died

database == <<row, rowLead, leads>>
own      == <<hist, lead, effective, engaged, snap>>
history  == <<told, overlapped, clash, race, failed>>
vars     == <<cache, database, pc, own, history>>

Range(s)    == {s[i] : i \in DOMAIN s}
LastTurns(s) == IF Len(s) <= Keep THEN s ELSE SubSeq(s, Len(s) - Keep + 1, Len(s))
Transcript  == IF row = Absent THEN <<>> ELSE row
At(label)   == {q \in Requests : pc[q] = label}
InFlight    == {q \in Requests : pc[q] \notin {"idle", "done"}}

Goes(r, label) == pc' = [pc EXCEPT ![r] = label]

\* Some call of r raises, or the process that runs r dies.
Failure(r) ==
    /\ Cardinality(failed \cup {r}) <= MaxFailures
    /\ failed' = failed \cup {r}

-----------------------------------------------------------------------------
\* POST /chat/message, with the lead_id the client chooses to send.
Send(r, l) ==
    /\ pc[r] = "idle"
    /\ l \in told \/ (l = None /\ (Forgetful \/ told = {}))
    /\ Goes(r, "read")
    /\ lead' = [lead EXCEPT ![r] = l]
    /\ overlapped' = (overlapped \/ InFlight # {})
    /\ UNCHANGED <<cache, database, hist, effective, engaged, snap, told,
                   clash, race, failed>>

ReadCache(r) ==
    /\ pc[r] = "read" /\ cache # Absent
    /\ hist' = [hist EXCEPT ![r] = cache]
    /\ Goes(r, "turn")
    /\ UNCHANGED <<cache, database, lead, effective, engaged, snap, history>>

CacheMiss(r) ==
    /\ pc[r] = "read" /\ cache = Absent
    /\ Goes(r, "load")
    /\ UNCHANGED <<cache, database, own, history>>

\* Mutant of LoadHistory: the first turns of the transcript.
LoadFirstTurns(r) ==
    /\ pc[r] = "load"
    /\ hist' = [hist EXCEPT ![r] = SelectSeq(Transcript, LAMBDA q : q = Head(Transcript))]
    /\ Goes(r, "turn")
    /\ UNCHANGED <<cache, database, lead, effective, engaged, snap, history>>

\* _load_history_from_db; no row raises, and is no history.
LoadHistory(r) ==
    /\ pc[r] = "load"
    /\ hist' = [hist EXCEPT ![r] = LastTurns(Transcript)]
    /\ Goes(r, "turn")
    /\ UNCHANGED <<cache, database, lead, effective, engaged, snap, history>>

\* So is a database that does not answer.
LoadFails(r) ==
    /\ pc[r] = "load"
    /\ hist' = [hist EXCEPT ![r] = <<>>]
    /\ Goes(r, "turn")
    /\ Failure(r)
    /\ UNCHANGED <<cache, database, lead, effective, engaged, snap, told,
                   overlapped, clash, race>>

\* orchestrator.run and the rule-based score; the message says nothing of the
\* visitor, or updates the lead the client named.
Answer(r, g) ==
    /\ pc[r] = "turn"
    /\ effective' = [effective EXCEPT ![r] = lead[r]]
    /\ engaged' = [engaged EXCEPT ![r] = g]
    /\ Goes(r, "find")
    /\ UNCHANGED <<cache, database, hist, lead, snap, history>>

\* capture_lead_fields with no lead_id: a new lead.
AnswerCaptures(r, g) ==
    /\ pc[r] = "turn" /\ lead[r] = None
    /\ leads' = leads \cup {<<"captured", r>>}
    /\ effective' = [effective EXCEPT ![r] = <<"captured", r>>]
    /\ engaged' = [engaged EXCEPT ![r] = g]
    /\ Goes(r, "find")
    /\ UNCHANGED <<cache, row, rowLead, hist, lead, snap, history>>

\* The insert raised (its answer may be what was lost): logged, no lead.
CaptureFails(r, g) ==
    /\ pc[r] = "turn" /\ lead[r] = None
    /\ leads' \in {leads, leads \cup {<<"captured", r>>}}
    /\ effective' = [effective EXCEPT ![r] = None]
    /\ engaged' = [engaged EXCEPT ![r] = g]
    /\ Goes(r, "find")
    /\ Failure(r)
    /\ UNCHANGED <<cache, row, rowLead, hist, lead, snap, told,
                   overlapped, clash, race>>

-----------------------------------------------------------------------------
(* _persist_turn: a read, a write, and the increment of a score *)

FindRow(r) ==
    /\ pc[r] = "find"
    /\ snap' = [snap EXCEPT ![r] = row]
    /\ clash' = IF At("write") = {} THEN clash ELSE clash \cup At("write") \cup {r}
    /\ Goes(r, "write")
    /\ UNCHANGED <<cache, database, hist, lead, effective, engaged, told,
                   overlapped, race, failed>>

\* Persisting is over, well or not.
Persisted(r) ==
    /\ Goes(r, "keep")
    /\ snap'      = [snap EXCEPT ![r] = Absent]
    /\ effective' = [effective EXCEPT ![r] = None]
    /\ UNCHANGED <<cache, leads, hist, lead, engaged, told, overlapped, clash,
                   race>>

\* Update of the transcript as read, or insert of a row linked to the lead:
\* conversations.session_id is UNIQUE.
Writes(r) ==
    /\ snap[r] = Absent => row = Absent
    /\ row' = Append(IF snap[r] = Absent THEN <<>> ELSE snap[r], r)
    /\ rowLead' = IF snap[r] = Absent THEN effective[r] ELSE rowLead

\* Mutant of WriteTurn: the row gets this turn instead of the transcript with it.
WriteOnlyTurn(r) ==
    /\ pc[r] = "write"
    /\ row' = <<r>>
    /\ rowLead' = IF snap[r] = Absent THEN effective[r] ELSE rowLead
    /\ Persisted(r)
    /\ UNCHANGED failed

WriteTurn(r) ==
    /\ pc[r] = "write"
    /\ Writes(r)
    /\ Persisted(r)
    /\ UNCHANGED failed

\* A call raises, before or after the write: the lost turn is logged.
PersistFails(r) ==
    /\ pc[r] \in {"find", "write"}
    /\ \/ UNCHANGED <<row, rowLead>>
       \/ pc[r] = "write" /\ Writes(r)
    /\ Persisted(r)
    /\ Failure(r)

\* The second insert of the session's row is refused, which is such a failure
\* but none of the database.
InsertRefused(r) ==
    /\ pc[r] = "write" /\ snap[r] = Absent /\ row # Absent
    /\ Persisted(r)
    /\ UNCHANGED <<row, rowLead, failed>>

-----------------------------------------------------------------------------
\* The turn is over for this request but for the lead it may still need.
Kept(r) ==
    /\ pc[r] = "keep"
    /\ hist' = [hist EXCEPT ![r] = <<>>]
    /\ engaged' = [engaged EXCEPT ![r] = FALSE]
    /\ Goes(r, IF lead[r] = None /\ engaged[r] THEN "look" ELSE "reply")
    /\ UNCHANGED <<database, lead, effective, snap, history>>

\* The history as this request read it, with its own turn, trimmed.
SaveHistory(r) == cache' = LastTurns(Append(hist[r], r)) /\ Kept(r)

\* _get_or_create_session_lead: the conversation's lead, if it has one.
LookForLead(r) ==
    /\ pc[r] = "look"
    /\ IF rowLead # None
       THEN lead' = [lead EXCEPT ![r] = rowLead] /\ Goes(r, "reply") /\ UNCHANGED race
       ELSE /\ Goes(r, "place")
            /\ LET others == At("place") \cup At("link")
               IN race' = IF others = {} THEN race ELSE race \cup others \cup {r}
            /\ UNCHANGED lead
    /\ UNCHANGED <<cache, database, hist, effective, engaged, snap, told,
                   overlapped, clash, failed>>

InsertPlaceholder(r) ==
    /\ pc[r] = "place"
    /\ leads' = leads \cup {<<"placeholder", r>>}
    /\ lead' = [lead EXCEPT ![r] = <<"placeholder", r>>]
    /\ Goes(r, "link")
    /\ UNCHANGED <<cache, row, rowLead, hist, effective, engaged, snap, history>>

\* Mutant of LinkLead: the new lead is returned and not linked.
LinkForgotten(r) ==
    /\ pc[r] = "link"
    /\ Goes(r, "reply")
    /\ UNCHANGED <<cache, database, own, history>>

\* The update matches no row when the turn could not be written.
LinkLead(r) ==
    /\ pc[r] = "link"
    /\ rowLead' = IF row = Absent THEN rowLead ELSE lead[r]
    /\ Goes(r, "reply")
    /\ UNCHANGED <<cache, row, leads, own, history>>

Forget(r) ==
    /\ Goes(r, "done")
    /\ hist' = [hist EXCEPT ![r] = <<>>]
    /\ lead' = [lead EXCEPT ![r] = None]
    /\ effective' = [effective EXCEPT ![r] = None]
    /\ engaged' = [engaged EXCEPT ![r] = FALSE]
    /\ snap' = [snap EXCEPT ![r] = Absent]
    /\ UNCHANGED <<cache, database, overlapped, clash, race>>

Reply(r) ==
    /\ pc[r] = "reply"
    /\ told' = IF lead[r] = None THEN told ELSE told \cup {lead[r]}
    /\ Forget(r)
    /\ UNCHANGED failed

\* The model, Redis or the database raises outside _persist_turn, or the worker
\* dies: the visitor gets an error, and what was written stays.
RequestDies(r) ==
    /\ pc[r] \notin {"idle", "done"}
    /\ Forget(r)
    /\ Failure(r)
    /\ UNCHANGED told

\* The cached history lives half an hour.
Expire ==
    /\ cache # Absent
    /\ cache' = Absent
    /\ UNCHANGED <<database, pc, own, history>>

-----------------------------------------------------------------------------
Init ==
    /\ cache = Absent /\ row = Absent /\ rowLead = None
    /\ leads = {}
    /\ pc        = [r \in Requests |-> "idle"]
    /\ hist      = [r \in Requests |-> <<>>]
    /\ lead      = [r \in Requests |-> None]
    /\ effective = [r \in Requests |-> None]
    /\ engaged   = [r \in Requests |-> FALSE]
    /\ snap      = [r \in Requests |-> Absent]
    /\ told = {} /\ overlapped = FALSE /\ clash = {} /\ race = {} /\ failed = {}

Turn(r) == \E g \in BOOLEAN : Answer(r, g) \/ AnswerCaptures(r, g) \/ CaptureFails(r, g)

Persist(r) == FindRow(r) \/ WriteTurn(r) \/ PersistFails(r) \/ InsertRefused(r)

Link(r) == LookForLead(r) \/ InsertPlaceholder(r) \/ LinkLead(r)

Next ==
    \/ \E r \in Requests :
          \/ \E l \in Leads \cup {None} : Send(r, l)
          \/ ReadCache(r) \/ CacheMiss(r) \/ LoadHistory(r) \/ LoadFails(r)
          \/ Turn(r)
          \/ Persist(r)
          \/ SaveHistory(r)
          \/ Link(r)
          \/ Reply(r)
          \/ RequestDies(r)
    \/ Expire

Spec == Init /\ [][Next]_vars

-----------------------------------------------------------------------------
Turns  == Seq(Requests)
Labels == {"idle", "read", "load", "turn", "find", "write", "keep",
           "look", "place", "link", "reply", "done"}

TypeOK ==
    /\ cache = Absent \/ (cache \in Turns /\ Len(cache) <= Keep)
    /\ row = Absent \/ row \in Turns
    /\ rowLead \in leads \cup {None}
    /\ leads \in SUBSET Leads /\ told \in SUBSET leads
    /\ pc \in [Requests -> Labels]
    /\ hist \in [Requests -> Turns] /\ \A r \in Requests : Len(hist[r]) <= Keep
    /\ snap \in [Requests -> {Absent} \cup Turns]
    /\ lead \in [Requests -> leads \cup {None}]
    /\ effective \in [Requests -> leads \cup {None}]
    /\ engaged \in [Requests -> BOOLEAN] /\ overlapped \in BOOLEAN
    /\ clash \subseteq Requests /\ race \subseteq Requests /\ failed \subseteq Requests

Answered(r) == pc[r] \in {"keep", "look", "place", "link", "reply", "done"}

\* A turn is missing from the transcript only if saving it failed, or if two
\* requests were between reading the transcript and writing it at one time:
\* then the later write takes the earlier turn away, or the second insert of
\* the session's row is refused.
NoTurnLost ==
    \A r \in Requests :
        Answered(r) /\ r \notin failed \cup clash => r \in Range(Transcript)

\* The model is told the session as it was: in a session whose requests come
\* one after the other and do not fail, the history a turn is answered with is
\* the end of the transcript, be it read from the cache or, when the cache has
\* expired, from the row.
RemembersSession ==
    ~overlapped /\ failed = {}
    => \A r \in At("turn") : hist[r] = LastTurns(Transcript)

\* A conversation gets a second placeholder lead only when two requests looked
\* for the first at one time, or something failed on the way.
OnePlaceholder ==
    \A q, r \in Requests :
        /\ q # r
        /\ {<<"placeholder", q>>, <<"placeholder", r>>} \subseteq leads
        => {q, r} \cap (race \cup clash \cup failed) # {}
=============================================================================
