---------------------------- MODULE CallLifecycle ----------------------------
(****************************************************************************)
(* One phone call from the inbound webhook to the rows it leaves behind.    *)
(*                                                                          *)
(* Three handlers of app/voice/router.py share the Redis session of a call: *)
(* inbound_call creates it, the media_stream WebSocket loads it ONCE, works *)
(* on its own copy and writes that copy back, and call_status loads it,     *)
(* turns it into a lead and a conversation, and deletes it.  Nothing orders *)
(* the end of the stream with the status callback, and Twilio may deliver a *)
(* callback more than once, so `Hooks' is a set of deliveries.              *)
(*                                                                          *)
(* Data abstraction: a session is the number of turns in its transcript (a  *)
(* transcript only ever grows at its end), a lead or a conversation is      *)
(* known by the delivery that inserted it.  Awaits whose failure is caught  *)
(* or which only read (company look-up, LLM summary) are folded into the    *)
(* step that follows them.                                                  *)
(****************************************************************************)
EXTENDS Naturals

CONSTANTS
    Calls,      \* call SIDs
    Hooks,      \* deliveries of a terminal status callback
    MaxTurns,   \* bound: turns a call records
    Absent      \* what Redis answers for a key that is not there

ASSUME BoundAssumption  == MaxTurns \in Nat
ASSUME AbsentAssumption == Absent \notin Nat

VARIABLES
    phase,      \* Twilio's view of each call
    stored,     \* Redis: call_session:{sid}
    ws,         \* the media_stream handler of each call
    pump,       \* its _pump_turns task
    live,       \* its in-memory copy of the session
    step,       \* where each status delivery is in call_status
    target,     \* the call a delivery is about
    snap,       \* the session it loaded
    lead,       \* deliveries whose lead row is in the database
    saved       \* the transcript of the conversation row a delivery inserted

\* History variables: no handler reads them.
VARIABLES
    seen,       \* what the stream was doing when a delivery loaded the session
    beside,     \* deliveries of the same call that were under way at that time
    failed,     \* deliveries that raised, or died with the process
    noId,       \* deliveries whose lead insert returned no row
    rewritten,  \* calls whose session was saved again after it was gone
    unsaved,    \* calls whose stream ended without its last save
    expired     \* calls whose session reached its TTL

callVars   == <<phase, ws, pump, live>>
hookVars   == <<step, target, snap, lead, saved, seen, beside, failed, noId>>
streamHist == <<rewritten, unsaved>>
vars == <<callVars, stored, hookVars, streamHist, expired>>

Session == 0..MaxTurns
Busy    == {"lead", "row", "drop"}     \* steps of a delivery that holds a session

-----------------------------------------------------------------------------
(* Twilio and the inbound webhook *)

\* The dialled number belongs to a company: create_session, then stream TwiML.
Inbound(c) ==
    /\ phase[c] = "idle"
    /\ phase'  = [phase EXCEPT ![c] = "live"]
    /\ stored' = [stored EXCEPT ![c] = 0]
    /\ UNCHANGED <<ws, pump, live, hookVars, streamHist, expired>>

\* Nobody owns the number: fallback TwiML, no session.
InboundRefused(c) ==
    /\ phase[c] = "idle"
    /\ phase' = [phase EXCEPT ![c] = "refused"]
    /\ UNCHANGED <<ws, pump, live, stored, hookVars, streamHist, expired>>

\* The caller hangs up, or Twilio (or _hard_close through it) ends the call.
CallEnds(c) ==
    /\ phase[c] = "live"
    /\ phase' = [phase EXCEPT ![c] = "ended"]
    /\ UNCHANGED <<ws, pump, live, stored, hookVars, streamHist, expired>>

-----------------------------------------------------------------------------
(* media_stream *)

\* accept, load_session; without a session the socket is closed at once.
Connect(c) ==
    /\ phase[c] = "live"
    /\ ws[c] = "none"
    /\ \/ /\ stored[c] = Absent
          /\ ws' = [ws EXCEPT ![c] = "closed"]
          /\ UNCHANGED <<pump, live>>
       \/ /\ stored[c] # Absent
          /\ ws'   = [ws EXCEPT ![c] = "open"]
          /\ pump' = [pump EXCEPT ![c] = "waiting"]
          /\ live' = [live EXCEPT ![c] = stored[c]]
    /\ UNCHANGED <<phase, stored, hookVars, streamHist, expired>>

\* collect_turn returned an utterance, also one flushed while the stream drains.
TurnStarts(c) ==
    /\ ws[c] \in {"open", "drain"}
    /\ pump[c] = "waiting"
    /\ pump' = [pump EXCEPT ![c] = "turn"]
    /\ UNCHANGED <<phase, ws, live, stored, hookVars, streamHist, expired>>

\* The reply was streamed to its end: stream_voice_turn appends the turn.
TurnRecorded(c) ==
    /\ pump[c] = "turn"
    /\ live[c] < MaxTurns
    /\ live' = [live EXCEPT ![c] = @ + 1]
    /\ pump' = [pump EXCEPT ![c] = "save"]
    /\ UNCHANGED <<phase, ws, stored, hookVars, streamHist, expired>>

\* Barge-in closed the token stream early, or there was no streamSid: nothing
\* is appended, and the session is saved all the same.
TurnDropped(c) ==
    /\ pump[c] = "turn"
    /\ pump' = [pump EXCEPT ![c] = "save"]
    /\ UNCHANGED <<phase, ws, live, stored, hookVars, streamHist, expired>>

\* save_session writes the whole in-memory copy under the key, present or not.
WriteBack(c) ==
    /\ stored' = [stored EXCEPT ![c] = live[c]]
    /\ rewritten' = IF stored[c] = Absent THEN rewritten \cup {c} ELSE rewritten

TurnSaved(c) ==
    /\ pump[c] = "save"
    /\ pump' = [pump EXCEPT ![c] = "waiting"]
    /\ WriteBack(c)
    /\ UNCHANGED <<phase, ws, live, hookVars, unsaved, expired>>

\* The pump returns (end of transcripts, caller silent) or dies of an exception.
PumpEnds(c) ==
    /\ pump[c] \in {"waiting", "turn", "save"}
    /\ pump' = [pump EXCEPT ![c] = "off"]
    /\ UNCHANGED <<phase, ws, live, stored, hookVars, streamHist, expired>>

\* `stop', a disconnect, or 30 s without a message: leave the receive loop.
StreamStops(c) ==
    /\ ws[c] = "open"
    /\ ws' = [ws EXCEPT ![c] = "drain"]
    /\ UNCHANGED <<phase, pump, live, stored, hookVars, streamHist, expired>>

\* wait_for(turn_task, 10): the pump is over, or it is cancelled where it stands.
DrainEnds(c) ==
    /\ ws[c] = "drain"
    /\ ws'   = [ws EXCEPT ![c] = "save"]
    /\ pump' = [pump EXCEPT ![c] = "off"]
    /\ UNCHANGED <<phase, live, stored, hookVars, streamHist, expired>>

\* Mutants of FinalSave: no save, and a save of the session as it was loaded.
FinalSaveForgotten(c) ==
    /\ ws[c] = "save"
    /\ ws' = [ws EXCEPT ![c] = "closed"]
    /\ UNCHANGED <<phase, pump, live, stored, hookVars, streamHist, expired>>

FinalSaveAsLoaded(c) ==
    /\ ws[c] = "save"
    /\ ws' = [ws EXCEPT ![c] = "closed"]
    /\ stored' = [stored EXCEPT ![c] = 0]
    /\ UNCHANGED <<phase, pump, live, hookVars, streamHist, expired>>

\* The outer finally: save_session, whatever has become of the key meanwhile.
FinalSave(c) ==
    /\ ws[c] = "save"
    /\ ws' = [ws EXCEPT ![c] = "closed"]
    /\ WriteBack(c)
    /\ UNCHANGED <<phase, pump, live, hookVars, unsaved, expired>>

\* The last save raises, an exception ends the handler before it, or the worker
\* dies.  A worker that dies is one of these for every stream it held, and a
\* Raises for every delivery.
StreamDies(c) ==
    /\ ws[c] \in {"open", "drain", "save"}
    /\ ws'   = [ws EXCEPT ![c] = "closed"]
    /\ pump' = [pump EXCEPT ![c] = "off"]
    /\ unsaved' = unsaved \cup {c}
    /\ UNCHANGED <<phase, live, stored, hookVars, rewritten, expired>>

-----------------------------------------------------------------------------
(* call_status and _finalize_call, one delivery at a time *)

Deliver(h, c) ==
    /\ step[h] = "idle"
    /\ phase[c] \in {"ended", "refused"}
    /\ step'   = [step EXCEPT ![h] = "load"]
    /\ target' = [target EXCEPT ![h] = c]
    /\ UNCHANGED <<callVars, stored, snap, lead, saved, seen, beside, failed,
                   noId, streamHist, expired>>

LoadMissing(h) ==
    /\ step[h] = "load"
    /\ stored[target[h]] = Absent
    /\ step' = [step EXCEPT ![h] = "done"]
    /\ UNCHANGED <<callVars, stored, target, snap, lead, saved, seen, beside,
                   failed, noId, streamHist, expired>>

\* Mutant of LoadSession: the session is taken out of Redis, as with GETDEL.
LoadTakes(h) ==
    /\ step[h] = "load"
    /\ stored[target[h]] # Absent
    /\ step'   = [step EXCEPT ![h] = "lead"]
    /\ snap'   = [snap EXCEPT ![h] = stored[target[h]]]
    /\ stored' = [stored EXCEPT ![target[h]] = Absent]
    /\ seen'   = [seen EXCEPT ![h] = ws[target[h]]]
    /\ UNCHANGED <<callVars, target, lead, saved, beside, failed, noId,
                   streamHist, expired>>

LoadSession(h) ==
    /\ step[h] = "load"
    /\ stored[target[h]] # Absent
    /\ step'   = [step EXCEPT ![h] = "lead"]
    /\ snap'   = [snap EXCEPT ![h] = stored[target[h]]]
    /\ seen'   = [seen EXCEPT ![h] = ws[target[h]]]
    /\ beside' = [beside EXCEPT ![h] =
                    {g \in Hooks : step[g] \in Busy /\ target[g] = target[h]}]
    /\ UNCHANGED <<callVars, stored, target, lead, saved, failed, noId,
                   streamHist, expired>>

\* session.lead_id is never set on a call, so the insert branch is always taken.
InsertLead(h) ==
    /\ step[h] = "lead"
    /\ lead' = lead \cup {h}
    /\ step' = [step EXCEPT ![h] = "row"]
    /\ UNCHANGED <<callVars, stored, target, snap, saved, seen, beside, failed,
                   noId, streamHist, expired>>

\* `lead_result.data' is empty: no conversation is written, nothing raises.
InsertLeadEmpty(h) ==
    /\ step[h] = "lead"
    /\ noId' = noId \cup {h}
    /\ step' = [step EXCEPT ![h] = "drop"]
    /\ UNCHANGED <<callVars, stored, target, snap, lead, saved, seen, beside,
                   failed, streamHist, expired>>

\* conversations.session_id is UNIQUE, and holds the call SID.
Written(c) == \E g \in Hooks : target[g] = c /\ saved[g] # Absent

\* The conversation row, and with it the e-mail an ai_studio call sends.  A
\* second row for the call is refused by the database, which Raises.
InsertConversation(h) ==
    /\ step[h] = "row" /\ ~Written(target[h])
    /\ saved' = [saved EXCEPT ![h] = snap[h]]
    /\ step'  = [step EXCEPT ![h] = "drop"]
    /\ UNCHANGED <<callVars, stored, target, snap, lead, seen, beside, failed,
                   noId, streamHist, expired>>

\* Mutant of DeleteSession: the session is left to its TTL.
SessionKept(h) ==
    /\ step[h] = "drop"
    /\ step' = [step EXCEPT ![h] = "done"]
    /\ UNCHANGED <<callVars, stored, target, snap, lead, saved, seen, beside,
                   failed, noId, streamHist, expired>>

DeleteSession(h) ==
    /\ step[h] = "drop"
    /\ stored' = [stored EXCEPT ![target[h]] = Absent]
    /\ step'   = [step EXCEPT ![h] = "done"]
    /\ UNCHANGED <<callVars, target, snap, lead, saved, seen, beside, failed,
                   noId, streamHist, expired>>

\* Mutant of Raises: the session is deleted also when finalising it failed.
DeletesAnyway(h) ==
    /\ step[h] \in Busy
    /\ step'   = [step EXCEPT ![h] = "drop"]
    /\ failed' = failed \cup {h}
    /\ UNCHANGED <<callVars, stored, target, snap, lead, saved, seen, beside,
                   noId, streamHist, expired>>

\* Any await raises, or the process dies: the session is kept.  An insert whose
\* answer was lost has happened.
Raises(h) ==
    /\ step[h] \in Busy \cup {"load"}
    /\ step'   = [step EXCEPT ![h] = "done"]
    /\ failed' = failed \cup {h}
    /\ \/ UNCHANGED <<lead, saved>>
       \/ /\ step[h] = "lead"
          /\ lead' = lead \cup {h}
          /\ UNCHANGED saved
       \/ /\ step[h] = "row" /\ ~Written(target[h])
          /\ saved' = [saved EXCEPT ![h] = snap[h]]
          /\ UNCHANGED lead
    /\ UNCHANGED <<callVars, stored, target, snap, seen, beside, noId,
                   streamHist, expired>>

-----------------------------------------------------------------------------
(* Redis *)

\* Mutant of Expire: a save without an expiry time, as SET leaves it.
ExpiresUnlessSaved(c) ==
    /\ stored[c] = 0
    /\ stored'  = [stored EXCEPT ![c] = Absent]
    /\ expired' = expired \cup {c}
    /\ UNCHANGED <<callVars, hookVars, streamHist>>

\* SESSION_TTL is an hour since the last save, whatever still uses the session.
Expire(c) ==
    /\ stored[c] # Absent
    /\ stored'  = [stored EXCEPT ![c] = Absent]
    /\ expired' = expired \cup {c}
    /\ UNCHANGED <<callVars, hookVars, streamHist>>

-----------------------------------------------------------------------------
Init ==
    /\ phase  = [c \in Calls |-> "idle"]
    /\ stored = [c \in Calls |-> Absent]
    /\ ws     = [c \in Calls |-> "none"]
    /\ pump   = [c \in Calls |-> "off"]
    /\ live   = [c \in Calls |-> 0]
    /\ step   = [h \in Hooks |-> "idle"]
    /\ target \in [Hooks -> Calls]
    /\ snap   = [h \in Hooks |-> Absent]
    /\ lead   = {}
    /\ saved  = [h \in Hooks |-> Absent]
    /\ seen   = [h \in Hooks |-> "none"]
    /\ beside = [h \in Hooks |-> {}]
    /\ failed = {} /\ noId = {} /\ rewritten = {} /\ unsaved = {} /\ expired = {}

Stream(c) ==
    \/ Connect(c)
    \/ TurnStarts(c)
    \/ TurnRecorded(c)
    \/ TurnDropped(c)
    \/ TurnSaved(c)
    \/ PumpEnds(c)
    \/ StreamStops(c)
    \/ DrainEnds(c)
    \/ FinalSave(c)
    \/ StreamDies(c)

Finalize(h) ==
    \/ LoadMissing(h)
    \/ LoadSession(h)
    \/ InsertLead(h)
    \/ InsertLeadEmpty(h)
    \/ InsertConversation(h)
    \/ DeleteSession(h)
    \/ Raises(h)

Next ==
    \/ \E c \in Calls : \/ Inbound(c)
                        \/ InboundRefused(c)
                        \/ CallEnds(c)
                        \/ Stream(c)
                        \/ Expire(c)
    \/ \E h \in Hooks : \/ \E c \in Calls : Deliver(h, c)
                        \/ Finalize(h)

Spec == Init /\ [][Next]_vars

\* Twilio ends every call and closes its stream; asyncio runs every ready task
\* and bounds every wait (the 10 s drain, client timeouts); Redis expires keys.
\* Nothing obliges a call to arrive, a callback to be delivered, or a crash.
FairSpec ==
    /\ Spec
    /\ \A c \in Calls : /\ WF_vars(CallEnds(c))
                        /\ WF_vars(StreamStops(c))
                        /\ WF_vars(DrainEnds(c))
                        /\ WF_vars(FinalSave(c) \/ StreamDies(c))
                        /\ WF_vars(Expire(c))
    /\ \A h \in Hooks : WF_vars(Finalize(h))

-----------------------------------------------------------------------------
(* Properties *)

\* Types, and the shape of the history variables.
TypeOK ==
    /\ phase  \in [Calls -> {"idle", "live", "ended", "refused"}]
    /\ stored \in [Calls -> Session \cup {Absent}]
    /\ ws     \in [Calls -> {"none", "open", "drain", "save", "closed"}]
    /\ pump   \in [Calls -> {"off", "waiting", "turn", "save"}]
    /\ live   \in [Calls -> Session]
    /\ step   \in [Hooks -> Busy \cup {"idle", "load", "done"}]
    /\ target \in [Hooks -> Calls]
    /\ snap   \in [Hooks -> Session \cup {Absent}]
    /\ lead   \in SUBSET Hooks
    /\ saved  \in [Hooks -> Session \cup {Absent}]
    /\ seen   \in [Hooks -> {"none", "open", "drain", "save", "closed"}]
    /\ beside \in [Hooks -> SUBSET Hooks]
    /\ failed \in SUBSET Hooks
    /\ noId   \in SUBSET Hooks
    /\ rewritten \in SUBSET Calls
    /\ unsaved   \in SUBSET Calls
    /\ expired   \in SUBSET Calls

Created(c) == phase[c] \in {"live", "ended"}

\* A call that got as far as a session is never lost by the two handlers that
\* race for it: either Redis still holds the session, or its hour is over, or
\* a delivery wrote the conversation (or was told by the database that its
\* lead insert produced no row).  call_status deletes only after
\* _finalize_call returned.
NothingLost ==
    \A c \in Calls :
        Created(c) /\ stored[c] = Absent /\ c \notin expired
        => \E h \in Hooks : target[h] = c /\ (saved[h] # Absent \/ h \in noId)

\* One call becomes two leads only in the three ways the code leaves open: two
\* deliveries overlapped (both loaded the session before either deleted it), a
\* finalisation failed after it had begun and the callback was tried again, or
\* the stream's save brought the session back after it had been deleted.
DuplicateLeadExplained ==
    \A g, h \in Hooks :
        /\ g # h
        /\ target[g] = target[h]
        /\ {g, h} \subseteq lead
        => \/ g \in beside[h] \/ h \in beside[g]
           \/ g \in failed \/ h \in failed
           \/ target[h] \in rewritten

\* A delivery that found the stream already over, its last save done, writes
\* down every turn the call recorded: the drain of media_stream and the save
\* in its outer finally are what makes the stored copy complete.
CompleteOnceClosed ==
    \A h \in Hooks :
        saved[h] # Absent /\ seen[h] = "closed" /\ target[h] \notin unsaved
        => saved[h] = live[target[h]]

\* Saves never take a turn away from a session that is there: the turn pump's
\* save and the save on the way out write ever longer transcripts, in order.
TranscriptNeverShrinks ==
    [][\A c \in Calls :
        stored[c] # Absent /\ stored'[c] # Absent => stored'[c] >= stored[c]]_vars

\* No session outlives its call for good: whatever brings one back after it
\* was deleted, the TTL every save sets ends it (call_session.py, "TTL: 1 hour
\* (auto-expires orphaned sessions)").
SessionGone == \A c \in Calls : <>[](stored[c] = Absent)

\* What of a call the ledger keeps: the conversations its deliveries wrote, and
\* whether its hour was over or a delivery was told there is no lead.
Rows(c)  == {saved[h] : h \in {g \in Hooks : target[g] = c /\ saved[g] # Absent}}
Begun    == {c \in Calls : Created(c)}
RowsOf   == [c \in Calls |-> Rows(c)]
Excused  == expired \cup {c \in Calls : \E h \in noId : target[h] = c}

Ledger == INSTANCE CallLedger WITH
    begun   <- Begun,
    said    <- live,
    session <- stored,
    rows    <- RowsOf,
    excused <- Excused

\* The handlers that race for a session keep the ledger's promise: whatever the
\* order of saves, deliveries, failures and expiry, the session only gains turns
\* while it is there, the call becomes one conversation at most, and the session
\* is deleted behind it only.
KeepsLedger == Ledger!Spec

\* router.py 636-638 has the e-mail go out "transcript included, now that the
\* transcript actually exists": the conversation holds every turn the call
\* records.  It does not: the callback does not wait for the stream.
TranscriptComplete ==
    \A h \in Hooks :
        LET c == target[h]
        IN saved[h] # Absent /\ ws[c] = "closed" /\ c \notin unsaved
           => saved[h] = live[c]
=============================================================================
