--------------------------- MODULE VoiceCallProofs ---------------------------
(****************************************************************************)
(* Proofs about a voice call: what is left of it (CallLifecycle), what the  *)
(* caller says (SttStream) and what the caller is told (Synthesis).  The    *)
(* three share no variable, and a part of this module is about each.        *)
(*                                                                          *)
(* Part one: CallLifecycle, for any set of calls, any set of deliveries and *)
(* any bound on the turns of a call.                                        *)
(*                                                                          *)
(* The inductive invariant says who may be where (Placement), what a        *)
(* delivery has in hand at each step (InHand), how the stream's copy and    *)
(* Redis are related (Copies), and when a session is gone (Released,        *)
(* Explained, NothingLost).  Then CallLifecycle is shown to implement       *)
(* CallLedger: every step of a handler is a step of the ledger or none.     *)
(****************************************************************************)
EXTENDS CallLifecycle, SttStream, Synthesis, FiniteSetTheorems, SequenceTheorems,
        WellFoundedInduction, TLAPS

\* A stream exists only for a call that was answered, its pump only while it
\* reads or drains, and a delivery is about a call that is over.
Placement ==
    /\ \A c \in Calls :
        /\ ws[c] # "none" => phase[c] \in {"live", "ended"}
        /\ pump[c] # "off" => ws[c] \in {"open", "drain"}
        /\ phase[c] \in {"idle", "refused"} => stored[c] = Absent
    /\ \A h \in Hooks : step[h] # "idle" => phase[target[h]] \in {"ended", "refused"}

\* What a delivery has loaded and written by the time it reaches a step.
InHand ==
    \A h \in Hooks :
        /\ step[h] \in Busy => snap[h] # Absent
        /\ step[h] \in {"idle", "load"} => snap[h] = Absent
        /\ snap[h] = Absent => saved[h] = Absent /\ h \notin lead /\ h \notin noId
        /\ saved[h] # Absent => saved[h] = snap[h]
        /\ step[h] = "drop" => saved[h] # Absent \/ h \in noId

\* The stream never knows less than Redis, and leaves Redis complete.
Copies ==
    /\ \A c \in Calls : stored[c] # Absent =>
        /\ ws[c] \in {"open", "drain", "save"} => stored[c] <= live[c]
        /\ ws[c] = "closed" /\ c \notin unsaved => stored[c] = live[c]
    /\ \A h \in Hooks : snap[h] # Absent /\ seen[h] = "closed" =>
        /\ ws[target[h]] = "closed"
        /\ target[h] \notin unsaved => snap[h] = live[target[h]]

\* A delivery that ended well took the session with it.
Released ==
    \A h \in Hooks :
        /\ snap[h] # Absent /\ step[h] = "done"
        /\ h \notin failed /\ target[h] \notin rewritten
        => stored[target[h]] = Absent

\* Two deliveries that both loaded the session of one call.
Explained ==
    \A g, h \in Hooks :
        /\ g # h /\ target[g] = target[h]
        /\ snap[g] # Absent /\ snap[h] # Absent
        => \/ g \in beside[h] \/ h \in beside[g]
           \/ g \in failed \/ h \in failed
           \/ target[h] \in rewritten

IInv ==
    /\ TypeOK
    /\ Placement
    /\ InHand
    /\ Copies
    /\ Released
    /\ Explained
    /\ NothingLost

-----------------------------------------------------------------------------
\* Types.
LEMMA TypeOKStep ==
  ASSUME IInv, Next
  PROVE  TypeOK'
<1>1. ASSUME NEW c \in Calls,
             \/ Inbound(c) \/ InboundRefused(c) \/ CallEnds(c)
             \/ Connect(c) \/ TurnStarts(c) \/ TurnRecorded(c)
             \/ TurnDropped(c) \/ TurnSaved(c) \/ PumpEnds(c)
             \/ StreamStops(c) \/ DrainEnds(c) \/ FinalSave(c)
             \/ StreamDies(c) \/ Expire(c)
      PROVE  TypeOK'
  BY <1>1, BoundAssumption DEF IInv, TypeOK, Session, Inbound,
     InboundRefused, CallEnds, Connect, TurnStarts, TurnRecorded,
     TurnDropped, TurnSaved, PumpEnds, StreamStops, DrainEnds, FinalSave,
     StreamDies, Expire, WriteBack, callVars, hookVars, streamHist
<1>2. ASSUME NEW h \in Hooks,
             \/ LoadMissing(h) \/ LoadSession(h)
             \/ InsertLead(h) \/ InsertLeadEmpty(h)
             \/ InsertConversation(h) \/ DeleteSession(h)
             \/ Raises(h)
      PROVE  TypeOK'
  BY <1>2, AbsentAssumption, BoundAssumption DEF IInv, TypeOK, Busy,
     LoadMissing, LoadSession, InsertLead, InsertLeadEmpty,
     InsertConversation, DeleteSession, Raises, callVars, streamHist
<1>3. ASSUME NEW h \in Hooks, NEW c \in Calls, Deliver(h, c)
      PROVE  TypeOK'
  BY <1>3 DEF IInv, TypeOK, Deliver, callVars, streamHist
<1> QED
  BY <1>1, <1>2, <1>3 DEF Next, Stream, Finalize

\* Streams belong to answered calls, deliveries to calls that are over.
LEMMA PlacementStep ==
  ASSUME IInv, Next
  PROVE  Placement'
<1>1. ASSUME NEW c \in Calls, Inbound(c)
      PROVE  Placement'
  BY <1>1 DEF IInv, TypeOK, Placement, Inbound, hookVars
<1>2. ASSUME NEW c \in Calls, Connect(c)
      PROVE  Placement'
  BY <1>2 DEF IInv, TypeOK, Placement, Connect, hookVars
<1>3. ASSUME NEW c \in Calls, TurnSaved(c)
      PROVE  Placement'
  BY <1>3 DEF IInv, Placement, TurnSaved, WriteBack, hookVars
<1>4. ASSUME NEW c \in Calls, FinalSave(c)
      PROVE  Placement'
  BY <1>4 DEF IInv, Placement, FinalSave, WriteBack, hookVars
<1>5. ASSUME NEW h \in Hooks, NEW c \in Calls, Deliver(h, c)
      PROVE  Placement'
  BY <1>5 DEF IInv, TypeOK, Placement, Deliver, callVars
<1>6. ASSUME NEW c \in Calls,
             \/ InboundRefused(c) \/ CallEnds(c)
             \/ TurnStarts(c) \/ TurnRecorded(c)
             \/ TurnDropped(c) \/ PumpEnds(c) \/ StreamStops(c)
             \/ DrainEnds(c) \/ StreamDies(c) \/ Expire(c)
      PROVE  Placement'
  BY <1>6 DEF IInv, TypeOK, Placement, InboundRefused, CallEnds, TurnStarts,
     TurnRecorded, TurnDropped, PumpEnds, StreamStops, DrainEnds, StreamDies,
     Expire, callVars, hookVars
<1>7. ASSUME NEW h \in Hooks,
             \/ LoadMissing(h) \/ LoadSession(h)
             \/ InsertLead(h) \/ InsertLeadEmpty(h)
             \/ InsertConversation(h) \/ DeleteSession(h)
             \/ Raises(h)
      PROVE  Placement'
  BY <1>7 DEF IInv, TypeOK, Placement, Busy, LoadMissing, LoadSession,
     InsertLead, InsertLeadEmpty, InsertConversation, DeleteSession, Raises,
     callVars
<1> QED
  BY <1>1, <1>2, <1>3, <1>4, <1>5, <1>6, <1>7 DEF Next, Stream, Finalize

\* A delivery gathers what it holds one step at a time.
LEMMA InHandStep ==
  ASSUME IInv, Next
  PROVE  InHand'
<1>1. ASSUME NEW h \in Hooks, LoadSession(h)
      PROVE  InHand'
  BY <1>1 DEF IInv, TypeOK, InHand, LoadSession
<1>2. ASSUME NEW h \in Hooks, InsertLead(h)
      PROVE  InHand'
  BY <1>2 DEF IInv, InHand, Busy, InsertLead
<1>3. ASSUME NEW h \in Hooks, InsertConversation(h)
      PROVE  InHand'
  BY <1>3 DEF IInv, TypeOK, InHand, InsertConversation
<1>4. ASSUME NEW h \in Hooks, Raises(h)
      PROVE  InHand'
  BY <1>4 DEF IInv, TypeOK, InHand, Busy, Raises
<1>5. ASSUME NEW c \in Calls,
             \/ Inbound(c) \/ InboundRefused(c) \/ CallEnds(c)
             \/ Connect(c) \/ TurnStarts(c) \/ TurnRecorded(c)
             \/ TurnDropped(c) \/ TurnSaved(c) \/ PumpEnds(c)
             \/ StreamStops(c) \/ DrainEnds(c) \/ FinalSave(c)
             \/ StreamDies(c) \/ Expire(c)
      PROVE  InHand'
  BY <1>5 DEF IInv, InHand, Inbound, InboundRefused, CallEnds, Connect,
     TurnStarts, TurnRecorded, TurnDropped, TurnSaved, PumpEnds, StreamStops,
     DrainEnds, FinalSave, StreamDies, Expire, hookVars
<1>6. ASSUME NEW h \in Hooks,
             \/ LoadMissing(h) \/ InsertLeadEmpty(h)
             \/ DeleteSession(h)
      PROVE  InHand'
  BY <1>6 DEF IInv, TypeOK, InHand, Busy, LoadMissing, InsertLeadEmpty,
     DeleteSession
<1>7. ASSUME NEW h \in Hooks, NEW c \in Calls, Deliver(h, c)
      PROVE  InHand'
  BY <1>7 DEF IInv, InHand, Busy, Deliver
<1> QED
  BY <1>1, <1>2, <1>3, <1>4, <1>5, <1>6, <1>7 DEF Next, Stream, Finalize

\* The stream writes longer transcripts only; once it is closed nothing moves.
LEMMA CopiesStep ==
  ASSUME IInv, Next
  PROVE  Copies'
<1>1. ASSUME NEW c \in Calls, Inbound(c)
      PROVE  Copies'
  BY <1>1 DEF IInv, Placement, Copies, Inbound, hookVars, streamHist
<1>2. ASSUME NEW c \in Calls, Connect(c)
      PROVE  Copies'
  BY <1>2 DEF IInv, TypeOK, Session, Copies, Connect, hookVars, streamHist
<1>3. ASSUME NEW c \in Calls, TurnRecorded(c)
      PROVE  Copies'
  BY <1>3 DEF IInv, TypeOK, Session, Placement, Copies, TurnRecorded,
     hookVars, streamHist
<1>4. ASSUME NEW c \in Calls, TurnSaved(c)
      PROVE  Copies'
  BY <1>4 DEF IInv, TypeOK, Session, Copies, TurnSaved, WriteBack, hookVars
<1>5. ASSUME NEW c \in Calls, DrainEnds(c)
      PROVE  Copies'
  BY <1>5 DEF IInv, Copies, DrainEnds, hookVars, streamHist
<1>6. ASSUME NEW c \in Calls, FinalSave(c)
      PROVE  Copies'
  BY <1>6 DEF IInv, TypeOK, Copies, FinalSave, WriteBack, hookVars
<1>7. ASSUME NEW c \in Calls, StreamDies(c)
      PROVE  Copies'
  BY <1>7 DEF IInv, Copies, StreamDies, hookVars
<1>8. ASSUME NEW h \in Hooks, NEW c \in Calls, Deliver(h, c)
      PROVE  Copies'
  BY <1>8 DEF IInv, InHand, Copies, Deliver, callVars, streamHist
<1>9. ASSUME NEW h \in Hooks, LoadSession(h)
      PROVE  Copies'
  BY <1>9 DEF IInv, TypeOK, Copies, LoadSession, callVars, streamHist
<1>10. ASSUME NEW c \in Calls,
             \/ InboundRefused(c) \/ CallEnds(c)
             \/ TurnStarts(c) \/ TurnDropped(c) \/ PumpEnds(c)
             \/ StreamStops(c) \/ Expire(c)
      PROVE  Copies'
  BY <1>10 DEF IInv, TypeOK, Copies, InboundRefused, CallEnds, TurnStarts,
     TurnDropped, PumpEnds, StreamStops, Expire, callVars, hookVars,
     streamHist
<1>11. ASSUME NEW h \in Hooks,
             \/ LoadMissing(h) \/ InsertLead(h)
             \/ InsertLeadEmpty(h) \/ InsertConversation(h)
             \/ DeleteSession(h) \/ Raises(h)
      PROVE  Copies'
  BY <1>11 DEF IInv, TypeOK, Copies, LoadMissing, InsertLead,
     InsertLeadEmpty, InsertConversation, DeleteSession, Raises, callVars,
     streamHist
<1> QED
  BY <1>1, <1>2, <1>3, <1>4, <1>5, <1>6, <1>7, <1>8, <1>9, <1>10,
     <1>11 DEF Next, Stream, Finalize

\* Only a save can bring back a session a delivery has deleted.
LEMMA ReleasedStep ==
  ASSUME IInv, Next
  PROVE  Released'
<1>1. ASSUME NEW c \in Calls, Inbound(c)
      PROVE  Released'
  BY <1>1 DEF IInv, Placement, Released, Inbound, hookVars, streamHist
<1>2. ASSUME NEW c \in Calls, TurnSaved(c)
      PROVE  Released'
  BY <1>2 DEF IInv, Released, TurnSaved, WriteBack, hookVars
<1>3. ASSUME NEW c \in Calls, FinalSave(c)
      PROVE  Released'
  BY <1>3 DEF IInv, Released, FinalSave, WriteBack, hookVars
<1>4. ASSUME NEW h \in Hooks, NEW c \in Calls, Deliver(h, c)
      PROVE  Released'
  BY <1>4 DEF IInv, Released, Deliver, streamHist
<1>5. ASSUME NEW h \in Hooks, DeleteSession(h)
      PROVE  Released'
  BY <1>5 DEF IInv, TypeOK, Released, DeleteSession, streamHist
<1>6. ASSUME NEW c \in Calls,
             \/ InboundRefused(c) \/ CallEnds(c) \/ Connect(c)
             \/ TurnStarts(c) \/ TurnRecorded(c)
             \/ TurnDropped(c) \/ PumpEnds(c) \/ StreamStops(c)
             \/ DrainEnds(c) \/ StreamDies(c) \/ Expire(c)
      PROVE  Released'
  BY <1>6 DEF IInv, TypeOK, Released, InboundRefused, CallEnds, Connect,
     TurnStarts, TurnRecorded, TurnDropped, PumpEnds, StreamStops, DrainEnds,
     StreamDies, Expire, hookVars, streamHist
<1>7. ASSUME NEW h \in Hooks,
             \/ LoadMissing(h) \/ LoadSession(h)
             \/ InsertLead(h) \/ InsertLeadEmpty(h)
             \/ InsertConversation(h) \/ Raises(h)
      PROVE  Released'
  BY <1>7 DEF IInv, TypeOK, Released, LoadMissing, LoadSession, InsertLead,
     InsertLeadEmpty, InsertConversation, Raises, streamHist
<1> QED
  BY <1>1, <1>2, <1>3, <1>4, <1>5, <1>6, <1>7 DEF Next, Stream, Finalize

\* A delivery that loads a session finds every other one under way, failed, or
\* overruled by a save.
LEMMA ExplainedStep ==
  ASSUME IInv, Next
  PROVE  Explained'
<1>1. ASSUME NEW h \in Hooks, NEW c \in Calls, Deliver(h, c)
      PROVE  Explained'
  BY <1>1 DEF IInv, InHand, Explained, Deliver, streamHist
<1>2. ASSUME NEW h \in Hooks, LoadSession(h)
      PROVE  Explained'
  BY <1>2 DEF IInv, TypeOK, InHand, Released, Explained, LoadSession,
     streamHist
<1>3. ASSUME NEW c \in Calls,
             \/ Inbound(c) \/ InboundRefused(c) \/ CallEnds(c)
             \/ Connect(c) \/ TurnStarts(c) \/ TurnRecorded(c)
             \/ TurnDropped(c) \/ TurnSaved(c) \/ PumpEnds(c)
             \/ StreamStops(c) \/ DrainEnds(c) \/ FinalSave(c)
             \/ StreamDies(c) \/ Expire(c)
      PROVE  Explained'
  BY <1>3 DEF IInv, Explained, Inbound, InboundRefused, CallEnds, Connect,
     TurnStarts, TurnRecorded, TurnDropped, TurnSaved, PumpEnds, StreamStops,
     DrainEnds, FinalSave, StreamDies, Expire, WriteBack, hookVars,
     streamHist
<1>4. ASSUME NEW h \in Hooks,
             \/ LoadMissing(h) \/ InsertLead(h)
             \/ InsertLeadEmpty(h) \/ InsertConversation(h)
             \/ DeleteSession(h) \/ Raises(h)
      PROVE  Explained'
  BY <1>4 DEF IInv, Explained, LoadMissing, InsertLead, InsertLeadEmpty,
     InsertConversation, DeleteSession, Raises, streamHist
<1> QED
  BY <1>1, <1>2, <1>3, <1>4 DEF Next, Stream, Finalize

\* A session is only deleted behind a conversation.
LEMMA NothingLostStep ==
  ASSUME IInv, Next
  PROVE  NothingLost'
<1>1. ASSUME NEW c \in Calls, Inbound(c)
      PROVE  NothingLost'
  BY <1>1, AbsentAssumption DEF IInv, TypeOK, NothingLost, Created, Inbound,
     hookVars
<1>2. ASSUME NEW h \in Hooks, NEW c \in Calls, Deliver(h, c)
      PROVE  NothingLost'
  BY <1>2 DEF IInv, InHand, NothingLost, Created, Deliver, callVars
<1>3. ASSUME NEW h \in Hooks, InsertConversation(h)
      PROVE  NothingLost'
  BY <1>3 DEF IInv, InHand, NothingLost, Created, InsertConversation,
     callVars
<1>4. ASSUME NEW h \in Hooks, DeleteSession(h)
      PROVE  NothingLost'
  BY <1>4 DEF IInv, InHand, NothingLost, Created, DeleteSession, callVars
<1>5. ASSUME NEW h \in Hooks, Raises(h)
      PROVE  NothingLost'
  BY <1>5 DEF IInv, TypeOK, InHand, NothingLost, Created, Raises, callVars
<1>6. ASSUME NEW c \in Calls, Expire(c)
      PROVE  NothingLost'
  BY <1>6 DEF IInv, NothingLost, Created, Expire, callVars, hookVars
<1>7. ASSUME NEW c \in Calls,
             \/ InboundRefused(c) \/ CallEnds(c) \/ Connect(c)
             \/ TurnStarts(c) \/ TurnRecorded(c)
             \/ TurnDropped(c) \/ TurnSaved(c) \/ PumpEnds(c)
             \/ StreamStops(c) \/ DrainEnds(c) \/ FinalSave(c)
             \/ StreamDies(c)
      PROVE  NothingLost'
  BY <1>7, AbsentAssumption DEF IInv, TypeOK, Session, NothingLost, Created,
     InboundRefused, CallEnds, Connect, TurnStarts, TurnRecorded,
     TurnDropped, TurnSaved, PumpEnds, StreamStops, DrainEnds, FinalSave,
     StreamDies, WriteBack, hookVars
<1>8. ASSUME NEW h \in Hooks,
             \/ LoadMissing(h) \/ LoadSession(h)
             \/ InsertLead(h) \/ InsertLeadEmpty(h)
      PROVE  NothingLost'
  BY <1>8 DEF IInv, NothingLost, Created, LoadMissing, LoadSession,
     InsertLead, InsertLeadEmpty, callVars
<1> QED
  BY <1>1, <1>2, <1>3, <1>4, <1>5, <1>6, <1>7, <1>8 DEF Next, Stream,
     Finalize

-----------------------------------------------------------------------------
LEMMA InitIInv == Init => IInv
BY BoundAssumption DEF Init, IInv, TypeOK, Session, Placement, InHand,
   Copies, Released, Explained, NothingLost, Created, Busy

LEMMA NextIInv == IInv /\ [Next]_vars => IInv'
<1>1. ASSUME IInv, Next
      PROVE  IInv'
  BY <1>1, TypeOKStep, PlacementStep, InHandStep, CopiesStep, ReleasedStep,
     ExplainedStep, NothingLostStep DEF IInv
<1>2. ASSUME IInv, UNCHANGED vars
      PROVE  IInv'
  BY <1>2 DEF vars, callVars, hookVars, streamHist, IInv, TypeOK, Placement,
     InHand, Copies, Released, Explained, NothingLost, Created
<1> QED
  BY <1>1, <1>2

\* The inductive invariant holds throughout.
THEOREM Inductive == Spec => []IInv
BY InitIInv, NextIInv, PTL DEF Spec

\* Every variable keeps to its type, whatever the interleaving of the inbound
\* webhook, the stream and the deliveries.
THEOREM TypeCorrect == Spec => []TypeOK
<1>1. IInv => TypeOK
  BY DEF IInv
<1> QED
  BY <1>1, Inductive, PTL

\* call_status never deletes the only trace of a call: a session that was
\* created is in Redis, has run its hour, or was turned into a conversation.
THEOREM NoCallLost == Spec => []NothingLost
<1>1. IInv => NothingLost
  BY DEF IInv
<1> QED
  BY <1>1, Inductive, PTL

\* Two leads for one call have overlapping deliveries, a failed finalisation or
\* a resurrected session behind them, for any number of deliveries.
THEOREM DuplicateLeads == Spec => []DuplicateLeadExplained
<1>1. IInv => DuplicateLeadExplained
  BY DEF IInv, InHand, Explained, DuplicateLeadExplained
<1> QED
  BY <1>1, Inductive, PTL

\* A conversation finalised after the stream was over holds every turn.
THEOREM CompleteTranscript == Spec => []CompleteOnceClosed
<1>1. IInv => CompleteOnceClosed
  BY DEF IInv, InHand, Copies, CompleteOnceClosed
<1> QED
  BY <1>1, Inductive, PTL

\* No save of the stream takes turns away from a session that is there.
THEOREM MonotoneTranscript == Spec => TranscriptNeverShrinks
<1> DEFINE Grows == \A c \in Calls :
        stored[c] # Absent /\ stored'[c] # Absent => stored'[c] >= stored[c]
<1>1. ASSUME IInv, Next
      PROVE  Grows
  <2>1. ASSUME NEW c \in Calls, Inbound(c)
        PROVE  Grows
    BY <1>1, <2>1 DEF IInv, TypeOK, Session, Placement, Inbound
  <2>2. ASSUME NEW c \in Calls, TurnSaved(c) \/ FinalSave(c)
        PROVE  Grows
    BY <1>1, <2>2 DEF IInv, TypeOK, Session, Placement, Copies, TurnSaved,
       FinalSave, WriteBack
  <2>3. ASSUME NEW c \in Calls, Expire(c)
        PROVE  Grows
    BY <1>1, <2>3 DEF IInv, TypeOK, Session, Expire
  <2>4. ASSUME NEW h \in Hooks, DeleteSession(h)
        PROVE  Grows
    BY <1>1, <2>4 DEF IInv, TypeOK, Session, DeleteSession
  <2>5. ASSUME UNCHANGED stored
        PROVE  Grows
    BY <1>1, <2>5 DEF IInv, TypeOK, Session
  <2> QED
    BY <1>1, <2>1, <2>2, <2>3, <2>4, <2>5 DEF Next, Stream, Finalize,
       InboundRefused, CallEnds, Connect, TurnStarts, TurnRecorded,
       TurnDropped, PumpEnds, StreamStops, DrainEnds, StreamDies, Deliver,
       LoadMissing, LoadSession, InsertLead, InsertLeadEmpty,
       InsertConversation, Raises
<1>2. IInv /\ [Next]_vars => [Grows]_vars
  BY <1>1
<1>3. Spec => [][Grows]_vars
  BY <1>2, Inductive, PTL DEF Spec
<1> QED
  BY <1>3 DEF TranscriptNeverShrinks

-----------------------------------------------------------------------------
(* The ledger *)

\* Nobody has more turns of a call than its stream recorded, and a session that
\* was loaded is that of a call that was answered and is over.
Within ==
    /\ \A c \in Calls :
        /\ stored[c] # Absent => stored[c] <= live[c]
        /\ ws[c] = "none" => live[c] = 0
    /\ \A h \in Hooks : snap[h] # Absent =>
        snap[h] <= live[target[h]] /\ phase[target[h]] = "ended"

LInv == IInv /\ Within

LEMMA WithinStep ==
  ASSUME LInv, Next
  PROVE  Within'
<1>1. ASSUME NEW c \in Calls, Inbound(c)
      PROVE  Within'
  BY <1>1 DEF LInv, IInv, TypeOK, Session, Placement, Within, Inbound, hookVars
<1>2. ASSUME NEW c \in Calls, Connect(c)
      PROVE  Within'
  BY <1>2 DEF LInv, IInv, TypeOK, Session, Placement, Within, Connect, hookVars
<1>3. ASSUME NEW c \in Calls, TurnRecorded(c)
      PROVE  Within'
  BY <1>3 DEF LInv, IInv, TypeOK, Session, Placement, Within, TurnRecorded, hookVars
<1>4. ASSUME NEW c \in Calls, TurnSaved(c) \/ FinalSave(c)
      PROVE  Within'
  BY <1>4 DEF LInv, IInv, TypeOK, Session, Within, TurnSaved, FinalSave, WriteBack, hookVars
<1>5. ASSUME NEW c \in Calls, CallEnds(c) \/ InboundRefused(c)
      PROVE  Within'
  BY <1>5 DEF LInv, IInv, TypeOK, Within, CallEnds, InboundRefused, hookVars
<1>6. ASSUME NEW c \in Calls,
             \/ TurnStarts(c) \/ TurnDropped(c) \/ PumpEnds(c) \/ StreamStops(c)
             \/ DrainEnds(c) \/ StreamDies(c) \/ Expire(c)
      PROVE  Within'
  BY <1>6 DEF LInv, IInv, TypeOK, Within, TurnStarts, TurnDropped, PumpEnds, StreamStops,
     DrainEnds, StreamDies, Expire, callVars, hookVars
<1>7. ASSUME NEW h \in Hooks, NEW c \in Calls, Deliver(h, c)
      PROVE  Within'
  BY <1>7 DEF LInv, IInv, InHand, Within, Deliver, callVars
<1>8. ASSUME NEW h \in Hooks, LoadSession(h)
      PROVE  Within'
  BY <1>8 DEF LInv, IInv, TypeOK, Placement, Within, LoadSession, callVars
<1>9. ASSUME NEW h \in Hooks,
             \/ LoadMissing(h) \/ InsertLead(h) \/ InsertLeadEmpty(h)
             \/ InsertConversation(h) \/ DeleteSession(h) \/ Raises(h)
      PROVE  Within'
  BY <1>9 DEF LInv, IInv, TypeOK, Within, LoadMissing, InsertLead, InsertLeadEmpty,
     InsertConversation, DeleteSession, Raises, callVars
<1> QED
  BY <1>1, <1>2, <1>3, <1>4, <1>5, <1>6, <1>7, <1>8, <1>9 DEF Next, Stream, Finalize

-----------------------------------------------------------------------------
\* A step that touches nothing the ledger keeps is none of it.
LEMMA Silent ==
  ASSUME UNCHANGED <<phase, live, stored, target, saved, expired, noId>>
  PROVE  UNCHANGED Ledger!vars
BY DEF Ledger!vars, Begun, Created, RowsOf, Rows, Excused

\* What the webhook, the stream and Redis do to the ledger.
LEMMA CallRefines ==
  ASSUME LInv, NEW c \in Calls,
         Inbound(c) \/ InboundRefused(c) \/ CallEnds(c) \/ Stream(c) \/ Expire(c)
  PROVE  [Ledger!Next]_(Ledger!vars)
<1>1. UNCHANGED <<target, saved, noId>> /\ UNCHANGED RowsOf
  BY DEF Inbound, InboundRefused, CallEnds, Stream, Connect, TurnStarts, TurnRecorded,
     TurnDropped, TurnSaved, PumpEnds, StreamStops, DrainEnds, FinalSave, StreamDies, Expire,
     WriteBack, hookVars, RowsOf, Rows
<1>2. CASE Inbound(c)
  <2>1. Ledger!Answer(c)
    <3>1. c \notin Begun /\ Begun' = Begun \cup {c}
      BY <1>2 DEF Inbound, Begun, Created, LInv, IInv, TypeOK
    <3>2. UNCHANGED Excused
      BY <1>1, <1>2 DEF Inbound, Excused
    <3> QED
      BY <1>1, <1>2, <3>1, <3>2 DEF Ledger!Answer, Inbound
  <2> QED
    BY <2>1 DEF Ledger!Next
<1>3. CASE TurnRecorded(c)
  <2>1. Ledger!Speak(c)
    <3>1. c \in Begun /\ UNCHANGED <<Begun, Excused>>
      BY <1>1, <1>3 DEF TurnRecorded, Begun, Created, Excused, LInv, IInv, Placement
    <3> QED
      BY <1>1, <1>3, <3>1 DEF Ledger!Speak, TurnRecorded
  <2> QED
    BY <2>1 DEF Ledger!Next
<1>4. CASE TurnSaved(c) \/ FinalSave(c)
  <2>1. Ledger!Save(c)
    <3>1. c \in Begun /\ UNCHANGED <<Begun, Excused>>
      BY <1>1, <1>4 DEF TurnSaved, FinalSave, Begun, Created, Excused, LInv, IInv, Placement
    <3>2. live[c] \in 0..live[c] /\ (stored[c] # Absent => stored[c] <= live[c])
      BY DEF LInv, IInv, TypeOK, Session, Within
    <3> QED
      BY <1>1, <1>4, <3>1, <3>2 DEF Ledger!Save, TurnSaved, FinalSave, WriteBack
  <2> QED
    BY <2>1 DEF Ledger!Next
<1>5. CASE Expire(c)
  <2>1. Ledger!Lapse(c)
    <3>1. c \in Begun /\ UNCHANGED Begun
      BY <1>5 DEF Expire, callVars, Begun, Created, LInv, IInv, TypeOK, Placement
    <3>2. Excused' = Excused \cup {c}
      BY <1>1, <1>5 DEF Expire, Excused
    <3> QED
      BY <1>1, <1>5, <3>1, <3>2 DEF Ledger!Lapse, Expire, callVars
  <2> QED
    BY <2>1 DEF Ledger!Next
<1>6. CASE InboundRefused(c) \/ CallEnds(c)
  <2>1. UNCHANGED <<Begun, Excused>>
    BY <1>1, <1>6 DEF InboundRefused, CallEnds, Begun, Created, Excused, LInv, IInv, TypeOK
  <2> QED
    BY <1>1, <1>6, <2>1 DEF Ledger!vars, InboundRefused, CallEnds
<1>7. CASE Connect(c)
  <2>1. UNCHANGED live
    <3>1. stored[c] # Absent => stored[c] = live[c]
      BY <1>7 DEF Connect, LInv, IInv, TypeOK, Session, Within
    <3> QED
      BY <1>7, <3>1 DEF Connect, LInv, IInv, TypeOK
  <2> QED
    BY <1>7, <2>1, Silent DEF Connect, hookVars
<1>8. CASE \/ TurnStarts(c) \/ TurnDropped(c) \/ PumpEnds(c) \/ StreamStops(c)
           \/ DrainEnds(c) \/ StreamDies(c)
  BY <1>8, Silent DEF TurnStarts, TurnDropped, PumpEnds, StreamStops, DrainEnds, StreamDies,
     hookVars
<1> QED
  BY <1>2, <1>3, <1>4, <1>5, <1>6, <1>7, <1>8 DEF Stream

\* A delivery that has nothing yet is about a call only once it is delivered.
LEMMA DeliverRefines ==
  ASSUME LInv, NEW h \in Hooks, NEW c \in Calls, Deliver(h, c)
  PROVE  UNCHANGED Ledger!vars
<1>1. saved[h] = Absent /\ h \notin noId
  BY DEF Deliver, LInv, IInv, InHand
<1>2. \A g \in Hooks \ {h} : target'[g] = target[g]
  BY DEF Deliver, LInv, IInv, TypeOK
<1>3. UNCHANGED RowsOf
  BY <1>1, <1>2 DEF RowsOf, Rows, Deliver
<1>4. UNCHANGED Excused
  BY <1>1, <1>2 DEF Excused, Deliver, LInv, IInv, TypeOK
<1> QED
  BY <1>3, <1>4 DEF Ledger!vars, Begun, Created, Deliver, callVars

\* The one conversation of a call.
LEMMA WriteRefines ==
  ASSUME LInv, NEW h \in Hooks, step[h] = "row", ~Written(target[h]),
         saved' = [saved EXCEPT ![h] = snap[h]],
         UNCHANGED <<callVars, stored, target, noId, expired>>
  PROVE  Ledger!Write(target[h])
<1> DEFINE c == target[h]
<1>1. c \in Calls /\ c \in Begun
  BY DEF LInv, IInv, TypeOK, InHand, Busy, Within, Begun, Created
<1>2. snap[h] # Absent /\ snap[h] \in 0..live[c]
  BY DEF LInv, IInv, TypeOK, Session, InHand, Busy, Within
<1>3. RowsOf[c] = {}
  BY <1>1 DEF RowsOf, Rows, Written
<1>4. RowsOf' = [RowsOf EXCEPT ![c] = {snap[h]}]
  <2>1. ASSUME NEW d \in Calls
        PROVE  Rows(d)' = IF d = c THEN {snap[h]} ELSE Rows(d)
    <3>1. {g \in Hooks : target[g] = d /\ saved[g] # Absent}'
            = IF d = c THEN {h} ELSE {g \in Hooks : target[g] = d /\ saved[g] # Absent}
      BY <1>2, <2>1 DEF Written, LInv, IInv, TypeOK
    <3> QED
      BY <3>1, <1>2 DEF Rows, LInv, IInv, TypeOK
  <2> QED
    BY <1>1, <2>1 DEF RowsOf
<1>5. UNCHANGED <<Begun, Excused>>
  BY DEF Begun, Created, Excused, callVars
<1> QED
  BY <1>1, <1>2, <1>3, <1>4, <1>5 DEF Ledger!Write, callVars

\* A delivery that is told there is no lead.
LEMMA EmptyRefines ==
  ASSUME LInv, NEW h \in Hooks, InsertLeadEmpty(h)
  PROVE  Ledger!Excuse(target[h])
<1>1. target[h] \in Begun
  BY DEF InsertLeadEmpty, LInv, IInv, TypeOK, InHand, Busy, Within, Begun, Created
<1>2. Excused' = Excused \cup {target[h]}
  BY DEF InsertLeadEmpty, Excused, LInv, IInv, TypeOK
<1>3. UNCHANGED <<Begun, RowsOf, live, stored>>
  BY DEF InsertLeadEmpty, callVars, Begun, Created, RowsOf, Rows
<1> QED
  BY <1>1, <1>2, <1>3 DEF Ledger!Excuse

\* The session goes behind a conversation, or behind that answer.
LEMMA DeleteRefines ==
  ASSUME LInv, NEW h \in Hooks, DeleteSession(h)
  PROVE  Ledger!Drop(target[h])
<1>1. RowsOf[target[h]] # {} \/ target[h] \in Excused
  <2>1. target[h] \in Calls /\ (saved[h] # Absent \/ h \in noId)
    BY DEF DeleteSession, LInv, IInv, TypeOK, InHand
  <2>2. CASE saved[h] # Absent
    <3>1. saved[h] \in Rows(target[h])
      BY <2>2 DEF Rows
    <3> QED
      BY <2>1, <3>1 DEF RowsOf
  <2>3. CASE h \in noId
    BY <2>1, <2>3 DEF Excused
  <2> QED
    BY <2>1, <2>2, <2>3
<1>2. UNCHANGED <<Begun, RowsOf, Excused, live>>
  BY DEF DeleteSession, callVars, Begun, Created, RowsOf, Rows, Excused
<1> QED
  BY <1>1, <1>2 DEF Ledger!Drop, DeleteSession

\* What a delivery does to the ledger.
LEMMA HookRefines ==
  ASSUME LInv, NEW h \in Hooks, Finalize(h)
  PROVE  [Ledger!Next]_(Ledger!vars)
<1>1. target[h] \in Calls
  BY DEF LInv, IInv, TypeOK
<1>2. CASE InsertConversation(h)
  <2>1. Ledger!Write(target[h])
    BY <1>2, WriteRefines DEF InsertConversation
  <2> QED
    BY <1>1, <2>1 DEF Ledger!Next
<1>3. CASE InsertLeadEmpty(h)
  BY <1>1, <1>3, EmptyRefines DEF Ledger!Next
<1>4. CASE DeleteSession(h)
  BY <1>1, <1>4, DeleteRefines DEF Ledger!Next
<1>5. CASE Raises(h)
  <2>1. CASE UNCHANGED saved
    BY <1>5, <2>1, Silent DEF Raises, callVars
  <2>2. CASE step[h] = "row" /\ ~Written(target[h]) /\ saved' = [saved EXCEPT ![h] = snap[h]]
    <3>1. Ledger!Write(target[h])
      BY <1>5, <2>2, WriteRefines DEF Raises
    <3> QED
      BY <1>1, <3>1 DEF Ledger!Next
  <2> QED
    BY <1>5, <2>1, <2>2 DEF Raises
<1>6. CASE LoadMissing(h) \/ LoadSession(h) \/ InsertLead(h)
  BY <1>6, Silent DEF LoadMissing, LoadSession, InsertLead, callVars
<1> QED
  BY <1>2, <1>3, <1>4, <1>5, <1>6 DEF Finalize

-----------------------------------------------------------------------------
LEMMA LedgerInit == Init => Ledger!Init
<1> SUFFICES ASSUME Init
             PROVE  Ledger!Init
  OBVIOUS
<1>1. Begun = {} /\ Excused = {}
  BY DEF Init, Begun, Created, Excused
<1>2. RowsOf = [c \in Calls |-> {}]
  BY DEF Init, RowsOf, Rows
<1> QED
  BY <1>1, <1>2 DEF Init, Ledger!Init

\* The strengthened invariant holds throughout.
THEOREM WithinAlways == Spec => []LInv
<1>1. Init => LInv
  BY InitIInv DEF Init, LInv, Within
<1>2. LInv /\ [Next]_vars => LInv'
  <2>1. ASSUME LInv, UNCHANGED vars
        PROVE  Within'
    BY <2>1 DEF vars, callVars, hookVars, LInv, Within
  <2> QED
    BY <2>1, NextIInv, WithinStep DEF LInv
<1> QED
  BY <1>1, <1>2, PTL DEF Spec

\* The three handlers keep the ledger's promise: a session only gains turns, a
\* call becomes one conversation, and a session goes only behind it.
THEOREM LedgerKept == Spec => KeepsLedger
<1>1. LInv /\ [Next]_vars => [Ledger!Next]_(Ledger!vars)
  <2>1. ASSUME LInv, Next
        PROVE  [Ledger!Next]_(Ledger!vars)
    BY <2>1, CallRefines, DeliverRefines, HookRefines DEF Next
  <2>2. ASSUME UNCHANGED vars
        PROVE  UNCHANGED Ledger!vars
    BY <2>2, Silent DEF vars, callVars, hookVars
  <2> QED
    BY <2>1, <2>2
<1> QED
  BY <1>1, LedgerInit, WithinAlways, PTL DEF Spec, Ledger!Spec, KeepsLedger

-----------------------------------------------------------------------------
(***************************************************************************)
(* Part two: SttStream, for any number of slots and any wording.           *)
(*                                                                         *)
(* The invariant places every word Deepgram has analysed (Caught): what is *)
(* final was queued, is held, or reads like what was; what follows is      *)
(* interim.  It compares words by their wording, as the code does, so that *)
(* it holds when words read alike.  When no two do, Initial adds that the  *)
(* words answered are a beginning of the words said, and Stretches that    *)
(* each text is made of words that follow one another.                     *)
(***************************************************************************)

\* No two words read the same.
AllDiffer == \A i, j \in 1..MaxSlots : Content[i] = Content[j] => i = j

\* A word of the set reads like w.
Known(w, S) == \E v \in S : Content[v] = Content[w]

\* Where a word that was analysed is to be found, or one that reads like it:
\* what was finalised is queued or in _final, what follows in _interim.
Caught ==
    /\ WordSet(delivered) \subseteq answered
    /\ segStart <= Heard
    /\ \A w \in 1..segStart : Known(w, answered \cup WordSet(final))
    /\ \A w \in 1..Heard : w > segStart => Known(w, answered \cup WordSet(interim))

\* What is queued and held is an initial part of what was said; an interim
\* result that is not queued goes on where the finals end.
Initial ==
    /\ \E a \in 0..MaxSlots : answered = 1..a
    /\ WordSet(final) \subseteq 1..segStart
    /\ \/ WordSet(interim) \subseteq answered
       \/ \E n \in 0..Heard : interim = Text(segStart, n)

\* Words a+1 to b, for some a and b up to n.
IsStretch(t, n) == \E a, b \in 0..n : t = Text(a, b)

\* The finals go on to where Deepgram's next segment starts, and nothing of that
\* segment was delivered before them.
FinalReaches ==
    \/ final = <<>>
    \/ /\ \E a \in 0..segStart : final = Text(a, segStart)
       /\ WordSet(delivered) \subseteq 1..segStart

\* The interim result goes on from there, and is not the text delivered, nor will
\* it grow into that.
InterimReaches ==
    \/ interim = <<>>
    \/ \E n \in 0..Heard :
          /\ interim = Text(segStart, n)
          /\ \A m \in n..MaxSlots : delivered # Text(segStart, m)

\* Every text is a stretch of what was said.  Deepgram repeating the delivered
\* text finds nothing held, so that no segment is skipped behind a held one.
Stretches ==
    /\ IsStretch(delivered, Heard)
    /\ FinalReaches
    /\ InterimReaches
    /\ \A i \in 1..Len(queue) : IsStretch(queue[i], MaxSlots)

StreamInv == StreamTypeOK /\ Caught

-----------------------------------------------------------------------------
(* Words and texts *)

LEMMA Elements ==
  ASSUME NEW S, NEW s \in Seq(S)
  PROVE  DOMAIN s = 1..Len(s) /\ Len(s) \in Nat /\ \A i \in DOMAIN s : s[i] \in S
OBVIOUS

LEMMA WordsRange ==
  ASSUME NEW n \in Nat
  PROVE  WordsBy(n) \in Nat /\ WordsBy(n) <= n
<1> DEFINE S == {k \in 1..n : k <= Len(track) /\ track[k]}
<1>1. IsFiniteSet(1..n) /\ Cardinality(1..n) = n
  BY FS_Interval
<1>2. Cardinality(S) \in Nat /\ Cardinality(S) <= Cardinality(1..n)
  <2>1. S \in SUBSET (1..n)
    OBVIOUS
  <2> HIDE DEF S
  <2> QED
    BY <1>1, <2>1, FS_Subset, FS_CardinalityType
<1> QED
  BY <1>1, <1>2 DEF WordsBy

LEMMA WordsMonotone ==
  ASSUME NEW m \in Nat, NEW n \in Nat, m <= n
  PROVE  WordsBy(m) <= WordsBy(n)
<1> DEFINE S(x) == {k \in 1..x : k <= Len(track) /\ track[k]}
<1>1. S(m) \in SUBSET S(n)
  OBVIOUS
<1>2. IsFiniteSet(S(n))
  <2>1. IsFiniteSet(1..n)
    BY FS_Interval
  <2>2. S(n) \in SUBSET (1..n)
    OBVIOUS
  <2> HIDE DEF S
  <2> QED
    BY <2>1, <2>2, FS_Subset
<1>3. Cardinality(S(m)) <= Cardinality(S(n))
  <2> HIDE DEF S
  <2> QED
    BY <1>1, <1>2, FS_Subset
<1> QED
  BY <1>3 DEF WordsBy

LEMMA WordsLater ==
  ASSUME track \in Seq(BOOLEAN), NEW w \in BOOLEAN, track' = Append(track, w),
         NEW n \in 0..Len(track)
  PROVE  WordsBy(n)' = WordsBy(n)
<1>1. \A k \in 1..n : /\ k <= Len(track) /\ k <= Len(track')
                      /\ track'[k] = track[k]
  OBVIOUS
<1>2. {k \in 1..n : k <= Len(track') /\ track'[k]} = {k \in 1..n : k <= Len(track) /\ track[k]}
  BY <1>1
<1> QED
  BY <1>2 DEF WordsBy

LEMMA TextIs ==
  ASSUME NEW a \in Nat, NEW b \in Nat
  PROVE  /\ Text(a, b) \in Seq(Nat)
         /\ b <= MaxSlots /\ MaxSlots \in Nat => Text(a, b) \in WordSeq
         /\ WordSet(Text(a, b)) = (a + 1)..b
         /\ Text(a, b) = <<>> <=> b <= a
<1> DEFINE t == Text(a, b)
<1>1. CASE b <= a
  <2>1. 1..(b - a) = {}
    BY <1>1
  <2>2. t = <<>>
    BY <2>1 DEF Text
  <2>3. WordSet(<<>>) = {} /\ (a + 1)..b = {}
    BY <1>1 DEF WordSet
  <2>4. <<>> \in Seq(Nat) /\ <<>> \in WordSeq
    BY DEF WordSeq
  <2> HIDE DEF t
  <2> QED
    BY <1>1, <2>2, <2>3, <2>4 DEF t
<1>2. CASE a < b
  <2>1. b - a \in Nat /\ DOMAIN t = 1..(b - a) /\ \A i \in 1..(b - a) : t[i] = a + i
    BY <1>2 DEF Text
  <2>2. \A i \in 1..(b - a) : a + i \in Nat /\ a + i \in 1..b
    BY <1>2
  <2>3. t \in [1..(b - a) -> Nat] /\ t \in [1..(b - a) -> 1..b]
    BY <2>1, <2>2 DEF Text
  <2>4. t \in Seq(Nat) /\ t \in Seq(1..b)
    BY <2>1, <2>3
  <2>5. b <= MaxSlots /\ MaxSlots \in Nat => t \in WordSeq
    <3>1. b <= MaxSlots /\ MaxSlots \in Nat => t \in [1..(b - a) -> 1..MaxSlots]
      BY <1>2, <2>3
    <3> QED
      BY <2>1, <3>1 DEF WordSeq
  <2>6. WordSet(t) = (a + 1)..b
    <3>1. \A x \in (a + 1)..b : x - a \in 1..(b - a) /\ a + (x - a) = x
      BY <1>2
    <3>2. \A i \in 1..(b - a) : a + i \in (a + 1)..b
      BY <1>2
    <3> HIDE DEF t
    <3>3. ASSUME NEW x \in (a + 1)..b PROVE x \in WordSet(t)
      <4>1. t[x - a] = x /\ x - a \in DOMAIN t
        BY <2>1, <3>1
      <4> QED
        BY <4>1 DEF WordSet
    <3>4. ASSUME NEW x \in WordSet(t) PROVE x \in (a + 1)..b
      BY <2>1, <3>2 DEF WordSet
    <3> QED
      BY <3>3, <3>4
  <2>7. t # <<>>
    BY <1>2, <2>1
  <2> QED
    BY <1>2, <2>4, <2>5, <2>6, <2>7
<1> QED
  BY <1>1, <1>2

LEMMA WordSetEmpty == WordSet(<<>>) = {}
BY DEF WordSet

LEMMA WordSetJoin ==
  ASSUME NEW s \in WordSeq, NEW t \in WordSeq
  PROVE  s \o t \in WordSeq /\ WordSet(s \o t) = WordSet(s) \cup WordSet(t)
<1>1. /\ s \o t \in WordSeq /\ Len(s) \in Nat /\ Len(t) \in Nat
      /\ DOMAIN s = 1..Len(s) /\ DOMAIN t = 1..Len(t)
      /\ DOMAIN (s \o t) = 1..(Len(s) + Len(t))
      /\ \A i \in 1..(Len(s) + Len(t)) :
            (s \o t)[i] = IF i <= Len(s) THEN s[i] ELSE t[i - Len(s)]
  BY DEF WordSeq
<1>2. ASSUME NEW x \in WordSet(s \o t) PROVE x \in WordSet(s) \cup WordSet(t)
  <2>1. PICK i \in 1..(Len(s) + Len(t)) : x = (s \o t)[i]
    BY <1>1 DEF WordSet
  <2>2. CASE i <= Len(s)
    <3>1. x = s[i] /\ i \in 1..Len(s)
      BY <1>1, <2>1, <2>2
    <3> QED
      BY <1>1, <3>1 DEF WordSet
  <2>3. CASE ~ i <= Len(s)
    <3>1. x = t[i - Len(s)] /\ i - Len(s) \in 1..Len(t)
      BY <1>1, <2>1, <2>3
    <3> QED
      BY <1>1, <3>1 DEF WordSet
  <2> QED
    BY <2>2, <2>3
<1>3. ASSUME NEW x \in WordSet(s) PROVE x \in WordSet(s \o t)
  <2>1. PICK i \in 1..Len(s) : x = s[i]
    BY <1>1 DEF WordSet
  <2>2. i \in 1..(Len(s) + Len(t)) /\ (s \o t)[i] = x
    BY <1>1, <2>1
  <2> QED
    BY <1>1, <2>2 DEF WordSet
<1>4. ASSUME NEW x \in WordSet(t) PROVE x \in WordSet(s \o t)
  <2>1. PICK i \in 1..Len(t) : x = t[i]
    BY <1>1 DEF WordSet
  <2>2. /\ i + Len(s) \in 1..(Len(s) + Len(t)) /\ ~ i + Len(s) <= Len(s)
        /\ (i + Len(s)) - Len(s) = i
    BY <1>1
  <2>3. (s \o t)[i + Len(s)] = x
    BY <1>1, <2>1, <2>2
  <2> QED
    BY <1>1, <2>2, <2>3 DEF WordSet
<1>5. WordSet(s \o t) = WordSet(s) \cup WordSet(t)
  BY <1>2, <1>3, <1>4
<1> QED
  BY <1>1, <1>5

LEMMA SameWording ==
  ASSUME NEW s \in WordSeq, NEW t \in WordSeq, Wording(s) = Wording(t)
  PROVE  /\ \A w \in WordSet(s) : Known(w, WordSet(t))
         /\ AllDiffer => s = t
<1>1. DOMAIN s = DOMAIN t /\ \A i \in DOMAIN s : Content[s[i]] = Content[t[i]]
  <2>1. DOMAIN Wording(s) = DOMAIN s /\ DOMAIN Wording(t) = DOMAIN t
    BY DEF Wording
  <2>2. /\ \A i \in DOMAIN s : Wording(s)[i] = Content[s[i]]
        /\ \A i \in DOMAIN t : Wording(t)[i] = Content[t[i]]
    BY DEF Wording
  <2> QED
    BY <2>1, <2>2
<1>2. \A w \in WordSet(s) : Known(w, WordSet(t))
  BY <1>1 DEF WordSet, Known
<1>3. AllDiffer => s = t
  <2>1. \A i \in DOMAIN s : s[i] \in 1..MaxSlots /\ t[i] \in 1..MaxSlots
    <3>1. \A i \in DOMAIN s : s[i] \in 1..MaxSlots
      BY Elements DEF WordSeq
    <3>2. \A i \in DOMAIN t : t[i] \in 1..MaxSlots
      BY Elements DEF WordSeq
    <3> QED
      BY <1>1, <3>1, <3>2
  <2>2. AllDiffer => \A i \in DOMAIN s : s[i] = t[i]
    BY <1>1, <2>1 DEF AllDiffer
  <2>3. Len(s) = Len(t) /\ DOMAIN s = 1..Len(s)
    <3>1. /\ Len(s) \in Nat /\ Len(t) \in Nat
          /\ DOMAIN s = 1..Len(s) /\ DOMAIN t = 1..Len(t)
      BY DEF WordSeq
    <3>2. (Len(s) # 0 => Len(s) \in 1..Len(t)) /\ (Len(t) # 0 => Len(t) \in 1..Len(s))
      <4>1. (Len(s) # 0 => Len(s) \in 1..Len(s)) /\ (Len(t) # 0 => Len(t) \in 1..Len(t))
        BY <3>1
      <4> QED
        BY <1>1, <3>1, <4>1
    <3>3. /\ Len(s) \in Nat /\ Len(t) \in Nat
          /\ Len(s) # 0 => Len(s) <= Len(t)
          /\ Len(t) # 0 => Len(t) <= Len(s)
      BY <3>1, <3>2
    <3>4. Len(s) = Len(t)
      BY ONLY <3>3
    <3> QED
      BY <3>1, <3>4
  <2> QED
    BY <2>2, <2>3 DEF WordSeq
<1> QED
  BY <1>2, <1>3

-----------------------------------------------------------------------------
(* Segments and flushes *)

LEMMA SegmentIs ==
  ASSUME StreamTypeOK, segStart <= Heard, NEW p, Analysed(p), UNCHANGED track
  PROVE  /\ Segment(p) \in WordSeq
         /\ WordSet(Segment(p)) = (segStart + 1)..WordsBy(p)
         /\ WordsBy(p) \in 0..MaxSlots /\ segStart <= WordsBy(p) /\ Heard <= WordsBy(p)
         /\ Segment(p) = <<>> => WordsBy(p) = segStart
         /\ Heard' = WordsBy(p)
<1>1. /\ MaxSlots \in Nat /\ Len(track) \in Nat /\ Len(track) <= MaxSlots
      /\ processed \in Nat /\ segStart \in Nat /\ p \in Nat
      /\ processed <= p /\ p <= Len(track) /\ processed' = p
  BY SlotsAssumption DEF StreamTypeOK, Analysed
<1>2. WordsBy(p) \in 0..MaxSlots /\ Heard <= WordsBy(p) /\ Heard \in Nat
  <2>1. WordsBy(p) \in Nat /\ WordsBy(p) <= p /\ Heard \in Nat
    BY <1>1, WordsRange DEF Heard
  <2>2. Heard <= WordsBy(p)
    BY <1>1, WordsMonotone DEF Heard
  <2> QED
    BY <1>1, <2>1, <2>2
<1>3. segStart <= WordsBy(p)
  BY <1>1, <1>2
<1>4. Heard' = WordsBy(p)
  BY <1>1 DEF Heard, WordsBy
<1>5. /\ Text(segStart, WordsBy(p)) \in WordSeq
      /\ WordSet(Text(segStart, WordsBy(p))) = (segStart + 1)..WordsBy(p)
      /\ Text(segStart, WordsBy(p)) = <<>> <=> WordsBy(p) <= segStart
  <2>1. /\ segStart \in Nat /\ MaxSlots \in Nat
        /\ WordsBy(p) \in Nat /\ WordsBy(p) <= MaxSlots
    BY <1>1, <1>2
  <2> QED
    BY ONLY <2>1, TextIs
<1> QED
  BY <1>1, <1>2, <1>3, <1>4, <1>5 DEF Segment

\* What Flush and the reader's last flush have in common.
Cleared(t) ==
    /\ final' = <<>> /\ interim' = <<>> /\ idle' = 0
    /\ answered' = answered \cup WordSet(t)
    /\ delivered' = t \/ delivered' = delivered

LEMMA FlushClears ==
  ASSUME NEW t, Flush(t)
  PROVE  Cleared(t)
<1>1. CASE t = <<>>
  BY <1>1, WordSetEmpty DEF Flush, Cleared, output
<1>2. CASE t # <<>>
  BY <1>2 DEF Flush, Cleared
<1> QED
  BY <1>1, <1>2

LEMMA EndClears == ReaderEnds => Cleared(live_text)
BY DEF ReaderEnds, Cleared

LEMMA LiveText ==
  ASSUME StreamTypeOK
  PROVE  live_text \in WordSeq /\ WordSet(live_text) = WordSet(final) \cup WordSet(interim)
BY WordSetJoin DEF StreamTypeOK, live_text

LEMMA FlushTypes ==
  ASSUME StreamTypeOK, NEW t \in WordSeq, Cleared(t)
  PROVE  /\ final' \in WordSeq /\ interim' \in WordSeq /\ idle' \in 0..2
         /\ delivered' \in WordSeq /\ answered' \in SUBSET (1..MaxSlots)
<1>1. WordSet(t) \subseteq 1..MaxSlots
  <2>1. \A i \in DOMAIN t : t[i] \in 1..MaxSlots
    BY Elements DEF WordSeq
  <2> QED
    BY ONLY <2>1 DEF WordSet
<1>2. <<>> \in WordSeq
  BY DEF WordSeq
<1>3. delivered \in WordSeq /\ answered \in SUBSET (1..MaxSlots)
  BY DEF StreamTypeOK
<1>4. /\ final' = <<>> /\ interim' = <<>> /\ idle' = 0
      /\ answered' = answered \cup WordSet(t)
      /\ delivered' = t \/ delivered' = delivered
  BY DEF Cleared
<1>5. final' \in WordSeq /\ interim' \in WordSeq /\ delivered' \in WordSeq
  BY ONLY <1>2, <1>3, <1>4, t \in WordSeq
<1>6. idle' \in 0..2
  BY ONLY <1>4
<1>7. answered' \in SUBSET (1..MaxSlots)
  BY ONLY <1>1, <1>3, <1>4
<1> QED
  BY ONLY <1>5, <1>6, <1>7

LEMMA FlushQueues ==
  ASSUME StreamTypeOK, NEW t \in WordSeq, Flush(t)
  PROVE  queue' \in Seq(WordSeq)
<1>1. queue \in Seq(WordSeq)
  BY DEF StreamTypeOK
<1> HIDE DEF WordSeq
<1> QED
  BY <1>1 DEF Flush, output

-----------------------------------------------------------------------------
(* Types *)

LEMMA StreamInitially == StreamInit => StreamInv
<1> SUFFICES ASSUME StreamInit PROVE StreamInv
  OBVIOUS
<1>0. MaxSlots \in Nat
  BY SlotsAssumption
<1>1. /\ <<>> \in WordSeq /\ <<>> \in Seq(WordSeq) /\ <<>> \in Seq(BOOLEAN) /\ Len(<<>>) = 0
  BY DEF WordSeq
<1>2. StreamTypeOK
  <2>1. /\ track \in Seq(BOOLEAN) /\ final \in WordSeq /\ interim \in WordSeq
        /\ delivered \in WordSeq /\ queue \in Seq(WordSeq)
    BY <1>1 DEF StreamInit
  <2>2. /\ Len(track) <= MaxSlots /\ voiceUntil \in 0..Len(track)
        /\ processed \in 0..Len(track) /\ segStart \in 0..MaxSlots /\ idle \in 0..2
    <3>1. 0 <= MaxSlots /\ 0 \in 0..0 /\ 0 \in 0..MaxSlots /\ 0 \in 0..2
      BY ONLY <1>0
    <3> QED
      BY <1>1, <3>1 DEF StreamInit
  <2>3. /\ answered \in SUBSET (1..MaxSlots) /\ reader \in {"running", "ended"}
        /\ closed \in BOOLEAN
    BY DEF StreamInit
  <2> QED
    BY ONLY <2>1, <2>2, <2>3 DEF StreamTypeOK
<1>3. WordsBy(0) = 0
  BY WordsRange
<1>4. Caught
  BY <1>3, WordSetEmpty DEF StreamInit, Caught, Heard
<1> QED
  BY <1>2, <1>4 DEF StreamInv

LEMMA TypeStep ==
  ASSUME StreamInv, StreamNext
  PROVE  StreamTypeOK'
<1>t. /\ MaxSlots \in Nat
      /\ track \in Seq(BOOLEAN) /\ Len(track) \in Nat /\ Len(track) <= MaxSlots
      /\ voiceUntil \in 0..Len(track) /\ processed \in 0..Len(track) /\ segStart \in 0..MaxSlots
      /\ idle \in 0..2 /\ answered \in SUBSET (1..MaxSlots)
      /\ reader \in {"running", "ended"} /\ closed \in BOOLEAN
  BY SlotsAssumption DEF StreamInv, StreamTypeOK
<1>w. /\ final \in WordSeq /\ interim \in WordSeq /\ delivered \in WordSeq /\ <<>> \in WordSeq
      /\ queue \in Seq(WordSeq) /\ live_text \in WordSeq
  BY LiveText DEF StreamInv, StreamTypeOK, WordSeq
<1>i. StreamTypeOK /\ segStart <= Heard
  BY DEF StreamInv, Caught
<1> HIDE DEF WordSeq
<1>flush. ASSUME NEW t \in WordSeq, Cleared(t), queue' \in Seq(WordSeq),
                 UNCHANGED <<track, voiceUntil, processed>>, segStart' \in 0..MaxSlots,
                 reader' \in {"running", "ended"}, closed' \in BOOLEAN
          PROVE  StreamTypeOK'
  BY <1>i, <1>t, <1>flush, FlushTypes DEF StreamTypeOK
<1>results. ASSUME NEW p, Analysed(p), segStart' \in {segStart, WordsBy(p)},
                   UNCHANGED <<track, voiceUntil, reader, closed>>,
                   final' \in WordSeq, interim' \in WordSeq, idle' \in 0..2,
                   delivered' \in WordSeq, queue' \in Seq(WordSeq),
                   answered' \in SUBSET (1..MaxSlots)
            PROVE  StreamTypeOK'
  <2>1. processed' \in 0..Len(track)
    BY <1>t, <1>results DEF Analysed
  <2>2. segStart' \in 0..MaxSlots
    BY <1>i, <1>t, <1>results, SegmentIs
  <2> QED
    BY <1>t, <1>results, <2>1, <2>2 DEF StreamTypeOK
<1>1. ASSUME NEW word \in BOOLEAN, NEW voiced \in BOOLEAN, Audio(word, voiced)
      PROVE  StreamTypeOK'
  <2>1. /\ track' = Append(track, word) /\ Len(track) < MaxSlots
        /\ voiceUntil' \in {Len(track) + 1, voiceUntil}
        /\ UNCHANGED <<processed, segStart, final, interim, idle, delivered, queue, answered>>
        /\ UNCHANGED <<reader, closed>>
    BY <1>1 DEF Audio, engine, held, output
  <2>2. /\ track' \in Seq(BOOLEAN) /\ Len(track') = Len(track) + 1
    BY <1>t, <2>1
  <2>3. voiceUntil' \in 0..Len(track') /\ processed' \in 0..Len(track')
    BY <1>t, <2>1, <2>2
  <2> QED
    BY <1>t, <1>w, <2>1, <2>2, <2>3 DEF StreamTypeOK
<1>2. ASSUME NEW p, NEW b \in BOOLEAN, ResultsRepeat(p, b)
      PROVE  StreamTypeOK'
  <2>1. /\ Analysed(p) /\ segStart' \in {segStart, WordsBy(p)}
        /\ UNCHANGED <<track, voiceUntil, reader, closed>>
        /\ UNCHANGED <<final, interim, idle, delivered, queue, answered>>
    BY <1>2 DEF ResultsRepeat, audioVars, held, output
  <2> QED
    BY <1>t, <1>w, <2>1, <1>results
<1>3. ASSUME NEW p, ResultsInterim(p)
      PROVE  StreamTypeOK'
  <2>1. /\ Analysed(p) /\ segStart' = segStart
        /\ UNCHANGED <<track, voiceUntil, reader, closed>>
        /\ UNCHANGED <<final, delivered, queue, answered>>
        /\ interim' \in {interim, Segment(p)} /\ idle' \in {idle, 0}
    BY <1>3 DEF ResultsInterim, audioVars, output
  <2>2. Segment(p) \in WordSeq
    BY <1>i, <2>1, SegmentIs
  <2> QED
    BY <1>t, <1>w, <2>1, <2>2, <1>results
<1>4. ASSUME NEW p, NEW b \in BOOLEAN, ResultsFinal(p, b)
      PROVE  StreamTypeOK'
  <2>1. /\ Analysed(p) /\ segStart' = WordsBy(p)
        /\ UNCHANGED <<track, voiceUntil, reader, closed>>
    BY <1>4 DEF ResultsFinal, audioVars
  <2>2. Segment(p) \in WordSeq /\ final \o Segment(p) \in WordSeq
    BY <1>i, <1>w, <2>1, SegmentIs, WordSetJoin
  <2>3. CASE b
    <3>1. PICK t \in {final \o Segment(p), live_text} : Flush(t)
      BY <1>4, <2>3 DEF ResultsFinal
    <3>2. t \in WordSeq
      BY <1>w, <2>2
    <3>3. Cleared(t) /\ queue' \in Seq(WordSeq)
      BY <1>i, <3>1, <3>2, FlushClears, FlushQueues
    <3>4. /\ final' \in WordSeq /\ interim' \in WordSeq /\ idle' \in 0..2
          /\ delivered' \in WordSeq /\ answered' \in SUBSET (1..MaxSlots)
      BY <1>i, <3>2, <3>3, FlushTypes
    <3> QED
      BY <2>1, <3>3, <3>4, <1>results
  <2>4. CASE ~b
    <3>1. /\ UNCHANGED <<delivered, queue, answered>>
          /\ \/ final' = final \o Segment(p) /\ interim' = <<>> /\ idle' = 0
             \/ UNCHANGED <<final, interim, idle>>
      BY <1>4, <2>4 DEF ResultsFinal, output, held
    <3>2. final' \in WordSeq /\ interim' \in WordSeq /\ idle' \in 0..2
      <4>1. 0 \in 0..2
        OBVIOUS
      <4> QED
        BY ONLY <1>t, <1>w, <2>2, <3>1, <4>1
    <3> QED
      BY <1>t, <1>w, <2>1, <3>1, <3>2, <1>results
  <2> QED
    BY <2>3, <2>4
<1>5. CASE UtteranceEnd \/ Settle \/ HardSettle
  <2>1. /\ Flush(live_text)
        /\ UNCHANGED <<track, voiceUntil, processed, segStart, reader, closed>>
    BY <1>5 DEF UtteranceEnd, Settle, HardSettle, audioVars, engine
  <2>2. Cleared(live_text) /\ queue' \in Seq(WordSeq)
    BY <1>i, <1>w, <2>1, FlushClears, FlushQueues
  <2> QED
    BY <1>t, <1>w, <2>1, <2>2, <1>flush
<1>6. CASE ReaderEnds
  <2>1. /\ reader' = "ended"
        /\ UNCHANGED <<track, voiceUntil, processed, segStart, closed>>
        /\ queue' = (IF Holding THEN Append(queue, live_text) ELSE queue) \o <<<<>>>>
    BY <1>6 DEF ReaderEnds, audioVars, engine
  <2>2. queue' \in Seq(WordSeq)
    <3>1. <<<<>>>> \in Seq(WordSeq)
      BY <1>w
    <3>2. (IF Holding THEN Append(queue, live_text) ELSE queue) \in Seq(WordSeq)
      BY <1>w
    <3> QED
      BY ONLY <2>1, <3>1, <3>2
  <2>3. Cleared(live_text)
    BY <1>6, EndClears
  <2> QED
    BY <1>t, <1>w, <2>1, <2>2, <2>3, <1>flush
<1>7. CASE Tick \/ Closes \/ Take
  <2>1. /\ UNCHANGED <<track, voiceUntil, processed, segStart, final, interim, delivered, answered>>
        /\ reader' = reader
    BY <1>7 DEF Tick, Closes, Take, audioVars, engine, held, output
  <2>2. idle' \in 0..2 /\ closed' \in BOOLEAN
    <3>1. (idle' = idle + 1 /\ idle < 2) \/ idle' = idle
      BY <1>7 DEF Tick, Closes, Take, held
    <3>2. closed' = TRUE \/ closed' = closed
      BY <1>7, Zenon DEF Tick, Closes, Take
    <3>3. idle' \in 0..2
      BY ONLY <1>t, <3>1
    <3>4. closed' \in BOOLEAN
      BY ONLY <1>t, <3>2, Zenon
    <3> QED
      BY <3>3, <3>4
  <2>3. queue' \in Seq(WordSeq)
    BY <1>w, <1>7 DEF Tick, Closes, Take, output
  <2> QED
    BY <1>t, <1>w, <2>1, <2>2, <2>3 DEF StreamTypeOK
<1> QED
  BY <1>1, <1>2, <1>3, <1>4, <1>5, <1>6, <1>7 DEF StreamNext, Results
-----------------------------------------------------------------------------
(* No word is lost *)

LEMMA KnownMore ==
  /\ \A S, T, w : S \subseteq T /\ Known(w, S) => Known(w, T)
  /\ \A S, w : w \in S => Known(w, S)
BY DEF Known

LEMMA HeardIs ==
  ASSUME StreamTypeOK
  PROVE  Heard \in Nat /\ segStart \in Nat /\ WordSet(<<>>) = {}
BY WordsRange, WordSetEmpty, SlotsAssumption DEF StreamTypeOK, Heard

\* What was analysed is queued or held, or reads like a word that is.
LEMMA AllCaught ==
  ASSUME StreamTypeOK, Caught
  PROVE  \A w \in 1..Heard : Known(w, answered \cup WordSet(live_text))
<1>1. TAKE w \in 1..Heard
<1>2. /\ answered \cup WordSet(final) \subseteq answered \cup WordSet(live_text)
      /\ answered \cup WordSet(interim) \subseteq answered \cup WordSet(live_text)
  BY LiveText
<1>3. \/ Known(w, answered \cup WordSet(final))
      \/ Known(w, answered \cup WordSet(interim))
  <2>1. w \in 1..segStart \/ w > segStart
    BY HeardIs
  <2> QED
    BY <2>1 DEF Caught
<1> QED
  BY ONLY <1>2, <1>3, KnownMore

LEMMA ClearedCatches ==
  ASSUME StreamTypeOK, Caught, NEW t, Cleared(t),
         segStart' <= Heard', segStart' \in Nat, Heard' \in Nat,
         \A w \in 1..Heard' : Known(w, answered \cup WordSet(t))
  PROVE  Caught'
<1>1. /\ WordSet(final)' = {} /\ WordSet(interim)' = {}
      /\ answered' = answered \cup WordSet(t)
  <2>1. final' = <<>> /\ interim' = <<>>
    BY DEF Cleared
  <2> QED
    BY <2>1, WordSetEmpty DEF Cleared, WordSet
<1>2. WordSet(delivered)' \subseteq answered'
  <2>1. CASE delivered' = t
    BY <1>1, <2>1 DEF WordSet
  <2>2. CASE delivered' = delivered
    BY <1>1, <2>2 DEF WordSet, Caught
  <2> QED
    BY <2>1, <2>2 DEF Cleared
<1>3. \A w \in 1..segStart' : w \in 1..Heard'
  OBVIOUS
<1>4. \A w \in 1..Heard' : Known(w, answered') /\ Known(w, answered' \cup {})
  BY <1>1
<1> QED
  BY <1>1, <1>2, <1>3, <1>4 DEF Caught, Known

LEMMA CaughtStep ==
  ASSUME StreamInv, StreamNext
  PROVE  Caught'
<1>i. StreamTypeOK /\ Caught /\ segStart <= Heard /\ segStart \in Nat /\ Heard \in Nat
  BY HeardIs DEF StreamInv, Caught
<1>c. /\ WordSet(delivered) \subseteq answered
      /\ \A w \in 1..segStart : Known(w, answered \cup WordSet(final))
      /\ \A w \in 1..Heard : w > segStart => Known(w, answered \cup WordSet(interim))
  BY DEF StreamInv, Caught
<1>w. /\ final \in WordSeq /\ interim \in WordSeq /\ delivered \in WordSeq
      /\ live_text \in WordSeq
  BY <1>i, LiveText DEF StreamTypeOK
<1> HIDE DEF WordSeq
<1>same. ASSUME Heard' = Heard, UNCHANGED <<segStart, final, interim, delivered, answered>>
         PROVE  Caught'
  <2>1. /\ WordSet(final)' = WordSet(final) /\ WordSet(interim)' = WordSet(interim)
        /\ WordSet(delivered)' = WordSet(delivered)
    BY <1>same DEF WordSet
  <2> QED
    BY <1>i, <1>c, <1>same, <2>1 DEF Caught, Known
<1>1. ASSUME NEW word \in BOOLEAN, NEW voiced \in BOOLEAN, Audio(word, voiced)
      PROVE  Caught'
  <2>1. /\ track' = Append(track, word) /\ processed' = processed
        /\ UNCHANGED <<segStart, final, interim, delivered, answered>>
    BY <1>1 DEF Audio, engine, held, output
  <2>2. track \in Seq(BOOLEAN) /\ processed \in 0..Len(track)
    BY <1>i DEF StreamTypeOK
  <2>3. \A n \in 0..Len(track) : WordsBy(n)' = WordsBy(n)
    BY <2>1, <2>2, WordsLater
  <2>4. Heard' = Heard
    BY <2>1, <2>2, <2>3 DEF Heard, WordsBy
  <2> QED
    BY <2>1, <2>4, <1>same
<1>2. ASSUME NEW p, NEW b \in BOOLEAN, ResultsRepeat(p, b)
      PROVE  Caught'
  <2>1. /\ Analysed(p) /\ segStart' \in {segStart, WordsBy(p)}
        /\ Wording(Segment(p)) = Wording(delivered)
        /\ UNCHANGED <<track, final, interim, delivered, answered>>
    BY <1>2 DEF ResultsRepeat, _matches_delivered, audioVars, held, output
  <2>2. /\ Segment(p) \in WordSeq /\ WordSet(Segment(p)) = (segStart + 1)..WordsBy(p)
        /\ WordsBy(p) \in Nat /\ segStart <= WordsBy(p) /\ Heard' = WordsBy(p)
    BY <1>i, <2>1, SegmentIs
  <2>3. \A w \in (segStart + 1)..WordsBy(p) : Known(w, answered)
    <3>1. \A w \in WordSet(Segment(p)) : Known(w, WordSet(delivered))
      BY <1>w, <2>1, <2>2, SameWording
    <3> QED
      BY ONLY <1>c, <2>2, <3>1, KnownMore
  <2>4. \A w \in 1..WordsBy(p) : \/ w \in 1..segStart
                                 \/ w \in (segStart + 1)..WordsBy(p) /\ w > segStart
    BY <1>i, <2>2
  <2>5. \A w \in 1..WordsBy(p) : /\ Known(w, answered \cup WordSet(final))
                                 /\ w > segStart => Known(w, answered \cup WordSet(interim))
    <3>1. TAKE w \in 1..WordsBy(p)
    <3>2. CASE w \in (segStart + 1)..WordsBy(p)
      <4>1. Known(w, answered)
        BY <2>3, <3>2
      <4> QED
        BY <4>1, KnownMore
    <3>3. CASE w \in 1..segStart
      BY <1>i, <1>c, <3>3
    <3> QED
      BY <2>4, <3>2, <3>3
  <2>6. /\ WordSet(final)' = WordSet(final) /\ WordSet(interim)' = WordSet(interim)
        /\ WordSet(delivered)' \subseteq answered'
    BY <1>c, <2>1 DEF WordSet
  <2>7. /\ segStart' <= Heard'
        /\ \A w \in 1..segStart' : Known(w, answered' \cup WordSet(final)')
        /\ \A w \in 1..Heard' : w > segStart' => Known(w, answered' \cup WordSet(interim)')
    <3>1. CASE segStart' = segStart
      BY <1>c, <2>1, <2>2, <2>5, <2>6, <3>1
    <3>2. CASE segStart' = WordsBy(p)
      <4>1. segStart' = Heard' /\ segStart' \in Nat /\ Heard' = WordsBy(p)
        BY <2>2, <3>2
      <4>2. segStart' <= Heard' /\ \A w \in 1..Heard' : ~ w > segStart'
        BY ONLY <4>1
      <4>3. \A w \in 1..segStart' : Known(w, answered' \cup WordSet(final)')
        BY <2>1, <2>5, <2>6, <4>1
      <4> QED
        BY <4>2, <4>3
    <3> QED
      BY <2>1, <3>1, <3>2
  <2> QED
    BY <2>6, <2>7 DEF Caught, Known
<1>3. ASSUME NEW p, ResultsInterim(p)
      PROVE  Caught'
  <2>1. /\ Analysed(p) /\ UNCHANGED <<track, segStart, final, delivered, answered>>
        /\ \/ interim' = Segment(p)
           \/ Wording(Segment(p)) = Wording(interim) /\ interim' = interim
    <3>1. Analysed(p) /\ UNCHANGED <<track, segStart, final, delivered, answered>>
      BY <1>3 DEF ResultsInterim, audioVars, output
    <3>2. \/ interim' = Segment(p)
          \/ Wording(Segment(p)) = Wording(interim) /\ interim' = interim
      BY <1>3 DEF ResultsInterim
    <3> QED
      BY <3>1, <3>2
  <2>2. /\ Segment(p) \in WordSeq /\ WordSet(Segment(p)) = (segStart + 1)..WordsBy(p)
        /\ WordsBy(p) \in Nat /\ segStart <= WordsBy(p) /\ Heard' = WordsBy(p)
    BY <1>i, <2>1, SegmentIs
  <2>3. \A w \in WordSet(Segment(p)) : Known(w, WordSet(interim)')
    <3>1. CASE interim' = Segment(p)
      BY <3>1, KnownMore DEF WordSet
    <3>2. CASE Wording(Segment(p)) = Wording(interim) /\ interim' = interim
      <4>1. \A w \in WordSet(Segment(p)) : Known(w, WordSet(interim))
        BY <1>w, <2>2, <3>2, SameWording
      <4> QED
        BY <3>2, <4>1 DEF WordSet
    <3> QED
      BY <2>1, <3>1, <3>2
  <2>4. \A w \in 1..Heard' : w > segStart' => Known(w, answered' \cup WordSet(interim)')
    <3>1. TAKE w \in 1..Heard'
    <3>2. HAVE w > segStart'
    <3>3. w \in WordSet(Segment(p))
      BY <1>i, <2>1, <2>2, <3>2
    <3> QED
      BY <2>3, <3>3, KnownMore
  <2>5. /\ WordSet(final)' = WordSet(final) /\ WordSet(delivered)' \subseteq answered'
    BY <1>c, <2>1 DEF WordSet
  <2>6. /\ segStart' <= Heard'
        /\ \A w \in 1..segStart' : Known(w, answered' \cup WordSet(final)')
    BY <1>c, <2>1, <2>2, <2>5
  <2> QED
    BY <2>4, <2>5, <2>6 DEF Caught, Known
<1>4. ASSUME NEW p, NEW b \in BOOLEAN, ResultsFinal(p, b)
      PROVE  Caught'
  <2>1. /\ Analysed(p) /\ segStart' = WordsBy(p) /\ UNCHANGED track
    BY <1>4 DEF ResultsFinal, audioVars
  <2>2. /\ Segment(p) \in WordSeq /\ WordSet(Segment(p)) = (segStart + 1)..WordsBy(p)
        /\ WordsBy(p) \in Nat /\ segStart <= WordsBy(p) /\ Heard' = WordsBy(p)
        /\ Segment(p) = <<>> => WordsBy(p) = segStart
        /\ Heard <= WordsBy(p)
    BY <1>i, <2>1, SegmentIs
  <2>3. WordSet(final \o Segment(p)) = WordSet(final) \cup WordSet(Segment(p))
    BY <1>w, <2>2, WordSetJoin
  <2>4. \A w \in 1..Heard' : Known(w, answered \cup WordSet(final \o Segment(p)))
    <3>1. TAKE w \in 1..Heard'
    <3>2. w \in 1..segStart \/ w \in WordSet(Segment(p))
      BY <1>i, <2>2
    <3>3. CASE w \in 1..segStart
      <4>1. Known(w, answered \cup WordSet(final))
        BY <1>c, <3>3
      <4>2. answered \cup WordSet(final) \subseteq answered \cup WordSet(final \o Segment(p))
        BY <2>3
      <4> QED
        BY ONLY <4>1, <4>2, KnownMore
    <3>4. CASE w \in WordSet(Segment(p))
      BY <2>3, <3>4, KnownMore
    <3> QED
      BY <3>2, <3>3, <3>4
  <2>5. CASE Segment(p) = <<>>
    <3>1. segStart' = segStart /\ Heard' = Heard
      BY <1>i, <2>1, <2>2, <2>5
    <3>2. CASE b
      <4>1. Cleared(live_text)
        BY <1>4, <2>5, <3>2, FlushClears DEF ResultsFinal
      <4> QED
        BY <1>i, <3>1, <4>1, AllCaught, ClearedCatches
    <3>3. CASE ~b
      <4>1. UNCHANGED <<final, interim, delivered, answered>>
        BY <1>4, <2>5, <3>3 DEF ResultsFinal, held, output
      <4> QED
        BY <3>1, <4>1, <1>same
    <3> QED
      BY <3>2, <3>3
  <2>6. CASE Segment(p) # <<>>
    <3>1. CASE b
      <4>1. Cleared(final \o Segment(p))
        BY <1>4, <2>6, <3>1, FlushClears DEF ResultsFinal
      <4> QED
        <5>1. segStart' = Heard' /\ segStart' \in Nat
          BY <2>1, <2>2
        <5>2. segStart' <= Heard' /\ segStart' \in Nat /\ Heard' \in Nat
          BY ONLY <5>1
        <5> QED
          BY <1>i, <2>4, <4>1, <5>2, ClearedCatches
    <3>2. CASE ~b
      <4>1. final' = final \o Segment(p) /\ UNCHANGED <<delivered, answered>>
        BY <1>4, <2>6, <3>2 DEF ResultsFinal, output
      <4>2. /\ WordSet(final)' = WordSet(final \o Segment(p))
            /\ WordSet(delivered)' \subseteq answered'
        BY <1>c, <4>1 DEF WordSet
      <4>3. /\ segStart' = Heard' /\ segStart' \in Nat
            /\ \A w \in 1..segStart' : Known(w, answered' \cup WordSet(final)')
        BY <2>1, <2>2, <2>4, <4>1, <4>2
      <4>4. segStart' <= Heard' /\ \A w \in 1..Heard' : ~ w > segStart'
        BY ONLY <4>3
      <4> QED
        BY <4>2, <4>3, <4>4 DEF Caught, Known
    <3> QED
      BY <3>1, <3>2
  <2> QED
    BY <2>5, <2>6
<1>5. CASE UtteranceEnd \/ Settle \/ HardSettle \/ ReaderEnds
  <2>1. Cleared(live_text) /\ UNCHANGED <<track, processed, segStart>>
    BY <1>5, FlushClears, EndClears
    DEF UtteranceEnd, Settle, HardSettle, ReaderEnds, audioVars, engine
  <2>2. Heard' = Heard
    BY <2>1 DEF Heard, WordsBy
  <2> QED
    BY <1>i, <2>1, <2>2, AllCaught, ClearedCatches
<1>6. CASE Tick \/ Closes \/ Take
  <2>1. UNCHANGED <<track, processed, segStart, final, interim, delivered, answered>>
    BY <1>6 DEF Tick, Closes, Take, audioVars, engine, held, output
  <2>2. Heard' = Heard
    BY <2>1 DEF Heard, WordsBy
  <2> QED
    BY <2>1, <2>2, <1>same
<1> QED
  BY <1>1, <1>2, <1>3, <1>4, <1>5, <1>6 DEF StreamNext, Results

LEMMA StreamInductive == StreamSpec => []StreamInv
<1>1. ASSUME StreamInv, [StreamNext]_streamVars
      PROVE  StreamInv'
  <2>1. CASE StreamNext
    BY <1>1, <2>1, TypeStep, CaughtStep DEF StreamInv
  <2>2. CASE UNCHANGED streamVars
    <3>1. StreamTypeOK'
      BY <1>1, <2>2 DEF StreamInv, StreamTypeOK, streamVars, WordSeq
    <3>2. Caught'
      BY <1>1, <2>2 DEF StreamInv, Caught, streamVars, Known, WordSet, Heard, WordsBy
    <3> QED
      BY <3>1, <3>2 DEF StreamInv
  <2> QED
    BY <1>1, <2>1, <2>2
<1> QED
  BY <1>1, StreamInitially, PTL DEF StreamSpec
-----------------------------------------------------------------------------
(* Where no two words read the same *)

\* Every word analysed is itself queued or held.
LEMMA ExactlyCaught ==
  ASSUME AllDiffer, StreamInv
  PROVE  /\ 1..Heard \subseteq answered \cup WordSet(live_text)
         /\ 1..segStart \subseteq answered \cup WordSet(final)
<1>1. /\ StreamTypeOK /\ Caught /\ answered \subseteq 1..MaxSlots /\ final \in WordSeq
      /\ segStart \in 0..MaxSlots /\ processed \in 0..Len(track) /\ Len(track) <= MaxSlots
      /\ MaxSlots \in Nat /\ Len(track) \in Nat
  BY SlotsAssumption DEF StreamInv, StreamTypeOK
<1>2. live_text \in WordSeq
  BY <1>1, LiveText
<1>3. ASSUME NEW t \in WordSeq PROVE WordSet(t) \subseteq 1..MaxSlots
  <2>1. \A i \in DOMAIN t : t[i] \in 1..MaxSlots
    BY Elements DEF WordSeq
  <2> QED
    BY ONLY <2>1 DEF WordSet
<1>4. ASSUME NEW S \in SUBSET (1..MaxSlots), NEW w \in 1..MaxSlots, Known(w, S)
      PROVE  w \in S
  BY <1>4 DEF Known, AllDiffer
<1>5. Heard \in Nat /\ Heard <= MaxSlots
  BY <1>1, WordsRange DEF Heard
<1>6. 1..Heard \subseteq 1..MaxSlots /\ 1..segStart \subseteq 1..MaxSlots
  BY <1>1, <1>5
<1>7. /\ answered \cup WordSet(live_text) \in SUBSET (1..MaxSlots)
      /\ answered \cup WordSet(final) \in SUBSET (1..MaxSlots)
  BY <1>1, <1>2, <1>3
<1>8. \A w \in 1..Heard : Known(w, answered \cup WordSet(live_text))
  BY <1>1, AllCaught
<1>9. \A w \in 1..segStart : Known(w, answered \cup WordSet(final))
  BY <1>1 DEF Caught
<1> QED
  BY <1>4, <1>6, <1>7, <1>8, <1>9

\* An initial part, what it lacks of another, and what follows either.
LEMMA Longer ==
  ASSUME NEW M \in Nat, NEW a \in 0..M, NEW s \in 0..M, NEW n \in 0..M, NEW F, NEW I,
         F \subseteq 1..s, 1..s \subseteq 1..a \cup F,
         I \subseteq 1..a \/ I = (s + 1)..n
  PROVE  \E b \in 0..M : (1..a) \cup F \cup I = 1..b
<1>1. PICK m \in 0..M : (1..a) \cup F = 1..m /\ a <= m /\ s <= m
  <2>1. CASE s <= a
    <3>1. F \subseteq 1..a
      BY <2>1
    <3>2. (1..a) \cup F = 1..a
      BY ONLY <3>1
    <3> QED
      BY <2>1, <3>2
  <2>2. CASE a < s
    <3>1. 1..a \subseteq 1..s
      BY <2>2
    <3>2. (1..a) \cup F = 1..s
      BY <3>1
    <3> QED
      BY <2>2, <3>2
  <2> QED
    BY <2>1, <2>2
<1>2. CASE I \subseteq 1..a
  BY <1>1, <1>2
<1>3. CASE I = (s + 1)..n
  <2>1. CASE n <= m
    <3>1. I \subseteq 1..m
      BY <1>1, <1>3, <2>1
    <3> QED
      BY <1>1, <3>1
  <2>2. CASE m < n
    <3>1. (1..m) \cup I = 1..n
      BY <1>1, <1>3, <2>2
    <3> QED
      BY <1>1, <3>1
  <2> QED
    BY <1>1, <2>1, <2>2
<1> QED
  BY <1>2, <1>3

LEMMA InitialStep ==
  ASSUME AllDiffer, StreamInv, StreamInv', Initial, StreamNext
  PROVE  Initial'
<1>i. /\ StreamTypeOK /\ Caught /\ segStart <= Heard /\ segStart \in 0..MaxSlots /\ MaxSlots \in Nat
      /\ Heard \in Nat /\ Heard <= MaxSlots /\ segStart' \in 0..MaxSlots
      /\ WordSet(delivered) \subseteq answered
  <2>1. /\ StreamTypeOK /\ Caught /\ segStart <= Heard /\ WordSet(delivered) \subseteq answered
        /\ segStart \in 0..MaxSlots /\ MaxSlots \in Nat /\ segStart' \in 0..MaxSlots
    BY SlotsAssumption DEF StreamInv, StreamTypeOK, Caught
  <2>2. processed \in Nat /\ processed <= MaxSlots
    BY SlotsAssumption DEF StreamInv, StreamTypeOK
  <2>3. Heard \in Nat /\ Heard <= processed
    BY <2>2, WordsRange DEF Heard
  <2> QED
    BY <2>1, <2>2, <2>3
<1>w. /\ final \in WordSeq /\ interim \in WordSeq /\ delivered \in WordSeq
      /\ live_text \in WordSeq
  BY <1>i, LiveText DEF StreamTypeOK
<1> HIDE DEF WordSeq
<1>a. PICK a \in 0..MaxSlots : answered = 1..a
  BY DEF Initial
<1>f. WordSet(final) \subseteq 1..segStart /\ 1..segStart \subseteq 1..a \cup WordSet(final)
  BY <1>a, ExactlyCaught DEF Initial
<1>n. \/ WordSet(interim) \subseteq 1..a
      \/ \E n \in 0..Heard : interim = Text(segStart, n)
  BY <1>a DEF Initial
<1>later. ASSUME NEW n \in Nat
          PROVE  WordSet(Text(segStart, n)) = (segStart + 1)..n
  BY <1>i, TextIs
<1>held. \E n \in 0..MaxSlots : \/ WordSet(interim) \subseteq 1..a
                                \/ WordSet(interim) = (segStart + 1)..n
  BY <1>i, <1>n, <1>later
<1>clears. ASSUME NEW t, Cleared(t), \E b \in 0..MaxSlots : (1..a) \cup WordSet(t) = 1..b
           PROVE  Initial'
  <2>1. WordSet(final)' = {} /\ WordSet(interim)' = {}
    BY <1>clears, WordSetEmpty DEF Cleared, WordSet
  <2>2. answered' = (1..a) \cup WordSet(t)
    BY <1>a, <1>clears DEF Cleared
  <2> QED
    BY <1>clears, <2>1, <2>2 DEF Initial
<1>all. \E b \in 0..MaxSlots : (1..a) \cup WordSet(live_text) = 1..b
  <2>1. WordSet(live_text) = WordSet(final) \cup WordSet(interim)
    BY <1>i, LiveText
  <2>2. PICK n \in 0..MaxSlots : \/ WordSet(interim) \subseteq 1..a
                                 \/ WordSet(interim) = (segStart + 1)..n
    BY <1>held
  <2>3. PICK b \in 0..MaxSlots : (1..a) \cup WordSet(final) \cup WordSet(interim) = 1..b
    <3>1. WordSet(interim) \subseteq 1..a \/ WordSet(interim) = (segStart + 1)..n
      BY <2>2
    <3> QED
      BY ONLY <1>i, <1>f, <3>1, Longer
  <2> QED
    BY <2>1, <2>3
<1>same. ASSUME UNCHANGED <<segStart, final, interim, answered>>, Heard' \in Nat, Heard <= Heard'
         PROVE  Initial'
  <2>1. WordSet(final)' = WordSet(final) /\ WordSet(interim)' = WordSet(interim)
    BY <1>same DEF WordSet
  <2>2. \/ WordSet(interim)' \subseteq answered'
        \/ \E n \in 0..Heard' : interim' = Text(segStart', n)
    <3>1. CASE WordSet(interim) \subseteq 1..a
      BY <1>a, <1>same, <2>1, <3>1
    <3>2. ASSUME NEW n \in 0..Heard, interim = Text(segStart, n)
          PROVE  \E m \in 0..Heard' : interim' = Text(segStart', m)
      <4>1. n \in 0..Heard'
        BY <1>i, <1>same
      <4>2. interim' = Text(segStart', n)
        BY <1>same, <3>2
      <4> QED
        BY <4>1, <4>2
    <3> QED
      BY <1>n, <3>1, <3>2
  <2> QED
    BY <1>a, <1>f, <1>same, <2>1, <2>2 DEF Initial, Text
<1>1. ASSUME NEW word \in BOOLEAN, NEW voiced \in BOOLEAN, Audio(word, voiced)
      PROVE  Initial'
  <2>1. /\ track' = Append(track, word) /\ processed' = processed
        /\ UNCHANGED <<segStart, final, interim, answered>>
    BY <1>1 DEF Audio, engine, held, output
  <2>2. track \in Seq(BOOLEAN) /\ processed \in 0..Len(track)
    BY <1>i DEF StreamTypeOK
  <2>3. \A n \in 0..Len(track) : WordsBy(n)' = WordsBy(n)
    BY <2>1, <2>2, WordsLater
  <2>4. Heard' = Heard
    BY <2>1, <2>2, <2>3 DEF Heard, WordsBy
  <2> QED
    BY <1>i, <2>1, <2>4, <1>same
<1>2. ASSUME NEW p, NEW b \in BOOLEAN, ResultsRepeat(p, b)
      PROVE  Initial'
  <2>1. /\ Analysed(p) /\ segStart' \in {segStart, WordsBy(p)}
        /\ Wording(Segment(p)) = Wording(delivered)
        /\ UNCHANGED <<track, final, interim, answered>>
    BY <1>2 DEF ResultsRepeat, _matches_delivered, audioVars, held, output
  <2>2. /\ Segment(p) \in WordSeq /\ WordSet(Segment(p)) = (segStart + 1)..WordsBy(p)
        /\ WordsBy(p) \in Nat /\ segStart <= WordsBy(p) /\ Heard' = WordsBy(p)
        /\ Heard <= WordsBy(p)
    BY <1>i, <2>1, SegmentIs
  <2>3. CASE segStart' = segStart
    BY <2>1, <2>2, <2>3, <1>same
  <2>4. CASE segStart' = WordsBy(p)
    <3>1. (segStart + 1)..WordsBy(p) \subseteq 1..a
      BY <1>i, <1>w, <1>a, <2>1, <2>2, SameWording
    <3>2. WordSet(interim) \subseteq 1..a
      <4>1. ASSUME NEW n \in 0..Heard, interim = Text(segStart, n)
            PROVE  WordSet(interim) \subseteq 1..a
        <5>1. n \in Nat /\ n <= WordsBy(p)
          BY <1>i, <2>2
        <5>2. (segStart + 1)..n \subseteq (segStart + 1)..WordsBy(p)
          BY <1>i, <2>2, <5>1
        <5> QED
          BY <4>1, <5>1, <5>2, <3>1, <1>later
      <4> QED
        BY <1>n, <4>1
    <3>3. WordSet(final) \subseteq 1..segStart'
      <4>1. 1..segStart \subseteq 1..WordsBy(p)
        BY <1>i, <2>2
      <4> QED
        BY <1>f, <2>4, <4>1
    <3>4. WordSet(final)' = WordSet(final) /\ WordSet(interim)' = WordSet(interim)
      BY <2>1 DEF WordSet
    <3> QED
      BY <1>a, <2>1, <3>2, <3>3, <3>4 DEF Initial
  <2> QED
    BY <2>1, <2>3, <2>4
<1>3. ASSUME NEW p, ResultsInterim(p)
      PROVE  Initial'
  <2>1. Analysed(p) /\ UNCHANGED <<track, segStart, final, answered>>
    BY <1>3 DEF ResultsInterim, audioVars, output
  <2>2. /\ \/ interim' = Segment(p)
           \/ interim' = interim
    BY <1>3 DEF ResultsInterim
  <2>3. WordsBy(p) \in Nat /\ Heard' = WordsBy(p) /\ Heard <= WordsBy(p)
    BY <1>i, <2>1, SegmentIs
  <2>4. CASE interim' = Segment(p)
    <3>1. interim' = Text(segStart', WordsBy(p)) /\ WordsBy(p) \in 0..Heard'
      BY <2>1, <2>3, <2>4 DEF Segment
    <3>2. \E n \in 0..Heard' : interim' = Text(segStart', n)
      BY <3>1
    <3>3. WordSet(final)' \subseteq 1..segStart'
      BY <1>f, <2>1 DEF WordSet
    <3> QED
      BY <1>a, <2>1, <3>2, <3>3 DEF Initial, Text
  <2>5. CASE interim' = interim
    BY <2>1, <2>3, <2>5, <1>same
  <2> QED
    BY <2>2, <2>4, <2>5
<1>4. ASSUME NEW p, NEW b \in BOOLEAN, ResultsFinal(p, b)
      PROVE  Initial'
  <2>1. /\ Analysed(p) /\ segStart' = WordsBy(p) /\ UNCHANGED track
    BY <1>4 DEF ResultsFinal, audioVars
  <2>2. /\ Segment(p) \in WordSeq /\ WordSet(Segment(p)) = (segStart + 1)..WordsBy(p)
        /\ WordsBy(p) \in 0..MaxSlots /\ segStart <= WordsBy(p) /\ Heard' = WordsBy(p)
        /\ Segment(p) = <<>> => WordsBy(p) = segStart
        /\ Heard <= WordsBy(p)
    BY <1>i, <2>1, SegmentIs
  <2>3. WordSet(final \o Segment(p)) = WordSet(final) \cup WordSet(Segment(p))
    BY <1>w, <2>2, WordSetJoin
  <2>4. CASE Segment(p) = <<>>
    <3>1. segStart' = segStart /\ Heard' = Heard
      BY <1>i, <2>1, <2>2, <2>4
    <3>2. CASE b
      <4>1. Cleared(live_text)
        BY <1>4, <2>4, <3>2, FlushClears DEF ResultsFinal
      <4> QED
        BY <4>1, <1>all, <1>clears
    <3>3. CASE ~b
      <4>1. UNCHANGED <<final, interim, answered>>
        BY <1>4, <2>4, <3>3 DEF ResultsFinal, held, output
      <4> QED
        BY <1>i, <3>1, <4>1, <1>same
    <3> QED
      BY <3>2, <3>3
  <2>5. CASE Segment(p) # <<>>
    <3>1. CASE b
      <4>1. Cleared(final \o Segment(p))
        BY <1>4, <2>5, <3>1, FlushClears DEF ResultsFinal
      <4>2. PICK n \in 0..MaxSlots :
              (1..a) \cup WordSet(final) \cup WordSet(Segment(p)) = 1..n
        BY <1>i, <1>f, <2>2, Longer
      <4> QED
        BY <2>3, <4>1, <4>2, <1>clears
    <3>2. CASE ~b
      <4>1. final' = final \o Segment(p) /\ interim' = <<>> /\ UNCHANGED answered
        BY <1>4, <2>5, <3>2 DEF ResultsFinal, output
      <4>2. WordSet(final)' = WordSet(final) \cup WordSet(Segment(p)) /\ WordSet(interim)' = {}
        BY <2>3, <4>1, WordSetEmpty DEF WordSet
      <4>3. /\ 1..segStart \subseteq 1..WordsBy(p)
            /\ (segStart + 1)..WordsBy(p) \subseteq 1..WordsBy(p)
        BY <1>i, <2>2
      <4>4. WordSet(final)' \subseteq 1..segStart'
        BY <1>f, <2>1, <2>2, <4>2, <4>3
      <4> QED
        BY <1>a, <4>1, <4>2, <4>4 DEF Initial
    <3> QED
      BY <3>1, <3>2
  <2> QED
    BY <2>4, <2>5
<1>5. CASE UtteranceEnd \/ Settle \/ HardSettle \/ ReaderEnds
  <2>1. Cleared(live_text)
    BY <1>5, FlushClears, EndClears DEF UtteranceEnd, Settle, HardSettle
  <2> QED
    BY <2>1, <1>all, <1>clears
<1>6. CASE Tick \/ Closes \/ Take
  <2>1. UNCHANGED <<track, processed, segStart, final, interim, answered>>
    BY <1>6 DEF Tick, Closes, Take, audioVars, engine, held, output
  <2>2. Heard' = Heard
    BY <2>1 DEF Heard, WordsBy
  <2> QED
    BY <1>i, <2>1, <2>2, <1>same
<1> QED
  BY <1>1, <1>2, <1>3, <1>4, <1>5, <1>6 DEF StreamNext, Results
-----------------------------------------------------------------------------
(* Texts whose words follow one another *)

LEMMA LengthIs ==
  ASSUME NEW s \in Seq(Nat), NEW n \in Nat, DOMAIN s = 1..n
  PROVE  Len(s) = n
<1>1. Len(s) \in Nat /\ 1..Len(s) = 1..n
  BY LenProperties
<1>2. (n # 0 => n \in 1..Len(s)) /\ (Len(s) # 0 => Len(s) \in 1..n)
  <2>1. (n # 0 => n \in 1..n) /\ (Len(s) # 0 => Len(s) \in 1..Len(s))
    BY ONLY <1>1, n \in Nat
  <2> QED
    BY <1>1, <2>1
<1>3. /\ Len(s) \in Nat /\ n \in Nat
      /\ n # 0 => n <= Len(s)
      /\ Len(s) # 0 => Len(s) <= n
  BY <1>1, <1>2
<1> QED
  BY ONLY <1>3

LEMMA TextJoin ==
  ASSUME NEW a \in Nat, NEW b \in Nat, NEW c \in Nat, a <= b, b <= c
  PROVE  Text(a, b) \o Text(b, c) = Text(a, c)
<1> DEFINE s == Text(a, b)
           t == Text(b, c)
           u == Text(a, c)
<1>1. /\ s \in Seq(Nat) /\ t \in Seq(Nat) /\ u \in Seq(Nat)
  BY TextIs
<1>2. /\ DOMAIN s = 1..(b - a) /\ DOMAIN t = 1..(c - b) /\ DOMAIN u = 1..(c - a)
      /\ \A i \in 1..(b - a) : s[i] = a + i
      /\ \A i \in 1..(c - b) : t[i] = b + i
      /\ \A i \in 1..(c - a) : u[i] = a + i
  BY DEF Text
<1> HIDE DEF s, t, u
<1>3. Len(s) = b - a /\ Len(t) = c - b /\ Len(u) = c - a
  <2>1. b - a \in Nat /\ c - b \in Nat /\ c - a \in Nat
    OBVIOUS
  <2> QED
    BY ONLY <1>1, <1>2, <2>1, LengthIs
<1>4. /\ s \o t \in Seq(Nat) /\ Len(s \o t) = Len(u)
      /\ \A i \in 1..Len(s \o t) :
            (s \o t)[i] = IF i <= Len(s) THEN s[i] ELSE t[i - Len(s)]
  <2>1. Len(s) + Len(t) = Len(u)
    BY <1>3
  <2> QED
    BY ONLY <1>1, <2>1, ConcatProperties
<1>5. \A i \in 1..Len(u) : (s \o t)[i] = u[i]
  <2>1. TAKE i \in 1..Len(u)
  <2>2. CASE i <= b - a
    <3>1. i \in 1..(b - a) /\ i \in 1..(c - a)
      BY <1>3, <2>2
    <3> QED
      BY <1>2, <1>3, <1>4, <2>2, <3>1
  <2>3. CASE ~ i <= b - a
    <3>1. i - (b - a) \in 1..(c - b) /\ i \in 1..(c - a) /\ b + (i - (b - a)) = a + i
      BY <1>3, <2>3
    <3> QED
      BY <1>2, <1>3, <1>4, <2>3, <3>1
  <2> QED
    BY <2>2, <2>3
<1>6. s \o t = u
  BY <1>1, <1>4, <1>5, SeqEqual
<1> QED
  BY <1>6 DEF s, t, u

LEMMA StretchGrows ==
  ASSUME NEW m \in Nat, NEW n \in Nat, m <= n, NEW t, IsStretch(t, m)
  PROVE  IsStretch(t, n)
<1>1. \A x \in 0..m : x \in 0..n
  OBVIOUS
<1> QED
  BY <1>1 DEF IsStretch

LEMMA StretchWords ==
  ASSUME NEW n \in Nat, NEW t, IsStretch(t, n)
  PROVE  WordSet(t) \subseteq 1..n
<1>1. PICK a \in 0..n, b \in 0..n : t = Text(a, b)
  BY DEF IsStretch
<1>2. WordSet(t) = (a + 1)..b
  BY <1>1, TextIs
<1> QED
  BY <1>1, <1>2

\* What may be said of the state at hand, used throughout.
LEMMA StretchTypes ==
  ASSUME StreamInv
  PROVE  /\ StreamTypeOK /\ MaxSlots \in Nat /\ segStart \in Nat /\ Heard \in Nat
         /\ segStart <= Heard /\ Heard <= MaxSlots
         /\ final \in WordSeq /\ interim \in WordSeq /\ delivered \in WordSeq
         /\ queue \in Seq(WordSeq)
<1>1. /\ StreamTypeOK /\ MaxSlots \in Nat /\ processed \in Nat /\ processed <= MaxSlots
      /\ segStart \in 0..MaxSlots /\ segStart <= Heard
      /\ final \in WordSeq /\ interim \in WordSeq /\ delivered \in WordSeq
      /\ queue \in Seq(WordSeq)
  BY SlotsAssumption DEF StreamInv, StreamTypeOK, Caught
<1>2. Heard \in Nat /\ Heard <= processed
  BY <1>1, WordsRange DEF Heard
<1> QED
  BY <1>1, <1>2

\* Finals and interim, put together, are words that follow one another; so are
\* the finals and a new segment.
LEMMA HeldStretch ==
  ASSUME StreamInv, Stretches
  PROVE  /\ IsStretch(live_text, Heard)
         /\ \A n \in segStart..MaxSlots :
               \E a \in 0..segStart : final \o Text(segStart, n) = Text(a, n)
<1>1. /\ MaxSlots \in Nat /\ segStart \in Nat /\ Heard \in Nat
      /\ segStart <= Heard /\ Heard <= MaxSlots
  BY StretchTypes
<1>2. Text(segStart, segStart) = <<>>
  BY <1>1, TextIs
<1>3. PICK a \in 0..segStart : final = Text(a, segStart)
  <2>1. segStart \in 0..segStart
    BY <1>1
  <2>2. \E a \in 0..segStart : final = Text(a, segStart)
    BY <1>2, <2>1 DEF Stretches, FinalReaches
  <2> QED
    BY <2>2
<1>4. PICK n \in segStart..Heard : interim = Text(segStart, n)
  <2>1. CASE interim = <<>>
    BY <1>1, <1>2, <2>1
  <2>2. ASSUME NEW n \in 0..Heard, interim = Text(segStart, n)
        PROVE  \E m \in segStart..Heard : interim = Text(segStart, m)
    <3>1. CASE n <= segStart
      <4>1. interim = <<>>
        BY <1>1, <2>2, <3>1, TextIs
      <4> QED
        BY <1>1, <1>2, <4>1
    <3>2. CASE n > segStart
      <4>1. n \in segStart..Heard
        BY <1>1, <3>2
      <4> QED
        BY <2>2, <4>1
    <3> QED
      BY <1>1, <3>1, <3>2
  <2> QED
    BY <2>1, <2>2 DEF Stretches, InterimReaches
<1>5. ASSUME NEW m \in segStart..MaxSlots
      PROVE  final \o Text(segStart, m) = Text(a, m)
  <2>1. a \in Nat /\ m \in Nat /\ a <= segStart /\ segStart <= m
    BY <1>1
  <2> QED
    BY <1>1, <1>3, <2>1, TextJoin
<1>6. live_text = Text(a, n)
  <2>1. n \in segStart..MaxSlots
    BY <1>1
  <2> QED
    BY <1>4, <1>5, <2>1 DEF live_text
<1>7. a \in 0..Heard /\ n \in 0..Heard
  BY <1>1
<1>8. IsStretch(live_text, Heard)
  BY <1>6, <1>7 DEF IsStretch
<1> QED
  BY <1>5, <1>8

LEMMA StretchAppend ==
  ASSUME NEW q \in Seq(WordSeq), NEW t \in WordSeq, IsStretch(t, MaxSlots),
         \A i \in 1..Len(q) : IsStretch(q[i], MaxSlots)
  PROVE  /\ Append(q, t) \in Seq(WordSeq)
         /\ \A i \in 1..Len(Append(q, t)) : IsStretch(Append(q, t)[i], MaxSlots)
<1> HIDE DEF WordSeq
<1>1. /\ Append(q, t) \in Seq(WordSeq) /\ Len(q) \in Nat /\ Len(Append(q, t)) = Len(q) + 1
      /\ \A i \in 1..Len(q) : Append(q, t)[i] = q[i]
      /\ Append(q, t)[Len(q) + 1] = t
  BY AppendProperties
<1>2. \A i \in 1..Len(Append(q, t)) : i \in 1..Len(q) \/ i = Len(q) + 1
  BY <1>1
<1> QED
  BY <1>1, <1>2

\* The queue after a flush, after the reader's end and after a take.
LEMMA QueueStretches ==
  ASSUME StreamInv, Stretches
  PROVE  /\ \A t \in WordSeq : Flush(t) /\ IsStretch(t, MaxSlots)
                => \A i \in 1..Len(queue') : IsStretch(queue'[i], MaxSlots)
         /\ ReaderEnds \/ Take
                => \A i \in 1..Len(queue') : IsStretch(queue'[i], MaxSlots)
<1>1. /\ queue \in Seq(WordSeq) /\ MaxSlots \in Nat /\ live_text \in WordSeq
      /\ IsStretch(live_text, MaxSlots) /\ <<>> \in WordSeq
      /\ \A i \in 1..Len(queue) : IsStretch(queue[i], MaxSlots)
  <2>1. queue \in Seq(WordSeq) /\ MaxSlots \in Nat /\ live_text \in WordSeq /\ <<>> \in WordSeq
    BY StretchTypes, LiveText DEF WordSeq
  <2>2. IsStretch(live_text, MaxSlots)
    BY StretchTypes, HeldStretch, StretchGrows
  <2> QED
    BY <2>1, <2>2 DEF Stretches
<1>2. IsStretch(<<>>, MaxSlots)
  <2>1. 0 \in 0..MaxSlots /\ Text(0, 0) = <<>>
    BY <1>1, TextIs
  <2> QED
    BY <2>1 DEF IsStretch
<1> HIDE DEF WordSeq
<1>3. ASSUME NEW t \in WordSeq, Flush(t), IsStretch(t, MaxSlots)
      PROVE  \A i \in 1..Len(queue') : IsStretch(queue'[i], MaxSlots)
  <2>1. queue' = Append(queue, t) \/ queue' = queue
    BY <1>3 DEF Flush, output
  <2> QED
    BY <1>1, <1>3, <2>1, StretchAppend
<1>4. ASSUME ReaderEnds
      PROVE  \A i \in 1..Len(queue') : IsStretch(queue'[i], MaxSlots)
  <2> DEFINE q == IF Holding THEN Append(queue, live_text) ELSE queue
  <2>1. q \in Seq(WordSeq) /\ \A i \in 1..Len(q) : IsStretch(q[i], MaxSlots)
    BY <1>1, StretchAppend
  <2>2. queue' = q \o <<<<>>>>
    BY <1>4 DEF ReaderEnds
  <2> HIDE DEF q
  <2>3. queue' = Append(q, <<>>)
    BY <1>1, <2>1, <2>2
  <2> QED
    BY ONLY <1>1, <1>2, <2>1, <2>3, StretchAppend
<1>5. ASSUME Take
      PROVE  \A i \in 1..Len(queue') : IsStretch(queue'[i], MaxSlots)
  <2>1. queue # <<>> /\ queue' = Tail(queue)
    BY <1>5 DEF Take
  <2>2. /\ Len(queue') = Len(queue) - 1 /\ Len(queue) \in Nat
        /\ \A i \in 1..Len(queue') : queue'[i] = queue[i + 1]
    BY <1>1, <2>1
  <2>3. \A i \in 1..Len(queue') : i + 1 \in 1..Len(queue)
    BY <2>2
  <2> QED
    BY <1>1, <2>2, <2>3
<1> QED
  BY <1>3, <1>4, <1>5

\* A step that leaves no text held.
LEMMA ClearedStretches ==
  ASSUME StreamInv, Stretches, NEW t, Cleared(t),
         Heard' \in Nat, Heard <= Heard', IsStretch(t, Heard'),
         \A i \in 1..Len(queue') : IsStretch(queue'[i], MaxSlots)
  PROVE  Stretches'
<1>1. IsStretch(delivered, Heard')
  BY StretchTypes, StretchGrows DEF Stretches
<1>2. IsStretch(delivered', Heard')
  BY <1>1 DEF Cleared
<1> QED
  BY <1>2 DEF Cleared, Stretches, FinalReaches, InterimReaches, IsStretch, Text

\* A step that leaves the texts alone; Deepgram may have analysed more.
LEMMA SameStretches ==
  ASSUME StreamInv, Stretches, Heard' \in Nat, Heard <= Heard',
         UNCHANGED <<segStart, final, interim, delivered>>,
         \A i \in 1..Len(queue') : IsStretch(queue'[i], MaxSlots)
  PROVE  Stretches'
<1>1. IsStretch(delivered, Heard')
  BY StretchTypes, StretchGrows DEF Stretches
<1>2. FinalReaches'
  BY DEF Stretches, FinalReaches, Text, WordSet
<1>3. InterimReaches'
  <2>1. ASSUME NEW n \in 0..Heard, interim = Text(segStart, n),
               \A m \in n..MaxSlots : delivered # Text(segStart, m)
        PROVE  InterimReaches'
    <3>1. n \in 0..Heard'
      BY StretchTypes
    <3> QED
      BY <2>1, <3>1 DEF InterimReaches, Text
  <2> QED
    BY <2>1 DEF Stretches, InterimReaches
<1> QED
  BY <1>1, <1>2, <1>3 DEF Stretches, IsStretch, Text

\* A segment that reads like the delivered text finds nothing held.
LEMMA RepeatFindsNothing ==
  ASSUME AllDiffer, StreamInv, Stretches, NEW n \in Nat, Heard <= n, n <= MaxSlots,
         Text(segStart, n) # <<>>, Wording(Text(segStart, n)) = Wording(delivered)
  PROVE  final = <<>> /\ interim = <<>>
<1>1. /\ MaxSlots \in Nat /\ segStart \in Nat /\ Heard \in Nat /\ delivered \in WordSeq
  BY StretchTypes
<1>2. /\ Text(segStart, n) \in WordSeq /\ segStart < n
      /\ WordSet(Text(segStart, n)) = (segStart + 1)..n
  BY <1>1, TextIs
<1>3. delivered = Text(segStart, n)
  BY <1>1, <1>2, SameWording
<1>4. n \in WordSet(delivered) /\ n \notin 1..segStart
  BY <1>1, <1>2, <1>3
<1>5. final = <<>>
  BY <1>4 DEF Stretches, FinalReaches
<1>6. interim = <<>>
  <2>1. ASSUME NEW m \in 0..Heard, \A k \in m..MaxSlots : delivered # Text(segStart, k)
        PROVE  FALSE
    <3>1. n \in m..MaxSlots
      BY <1>1
    <3> QED
      BY <1>3, <2>1, <3>1
  <2> QED
    BY <2>1 DEF Stretches, InterimReaches
<1> QED
  BY <1>5, <1>6

LEMMA StretchesAfter ==
  ASSUME IsStretch(delivered', Heard'), FinalReaches', InterimReaches',
         \A i \in 1..Len(queue') : IsStretch(queue'[i], MaxSlots)
  PROVE  Stretches'
BY DEF Stretches, IsStretch, Text

LEMMA StretchesStep ==
  ASSUME AllDiffer, StreamInv, StreamInv', Stretches, StreamNext
  PROVE  Stretches'
<1>i. /\ StreamTypeOK /\ MaxSlots \in Nat /\ segStart \in Nat /\ Heard \in Nat
      /\ segStart <= Heard /\ Heard <= MaxSlots
      /\ final \in WordSeq /\ interim \in WordSeq /\ delivered \in WordSeq
      /\ queue \in Seq(WordSeq) /\ live_text \in WordSeq
  BY StretchTypes, LiveText
<1>q. /\ \A i \in 1..Len(queue) : IsStretch(queue[i], MaxSlots)
      /\ IsStretch(delivered, Heard)
  BY DEF Stretches
<1>live. IsStretch(live_text, Heard) /\ IsStretch(live_text, MaxSlots)
  BY <1>i, HeldStretch, StretchGrows
<1>more. ASSUME UNCHANGED <<delivered, queue>>, Heard' \in Nat, Heard <= Heard'
         PROVE  /\ IsStretch(delivered', Heard')
                /\ \A i \in 1..Len(queue') : IsStretch(queue'[i], MaxSlots)
  <2>1. IsStretch(delivered, Heard')
    BY <1>i, <1>q, <1>more, StretchGrows
  <2> QED
    BY <1>q, <1>more, <2>1
<1>finals. ASSUME UNCHANGED <<segStart, final, delivered>> PROVE FinalReaches'
  BY <1>finals DEF Stretches, FinalReaches, Text, WordSet
<1> HIDE DEF WordSeq
<1>1. ASSUME NEW word \in BOOLEAN, NEW voiced \in BOOLEAN, Audio(word, voiced)
      PROVE  Stretches'
  <2>1. /\ track' = Append(track, word) /\ processed' = processed
        /\ UNCHANGED <<segStart, final, interim, delivered, queue>>
    BY <1>1 DEF Audio, engine, held, output
  <2>2. track \in Seq(BOOLEAN) /\ processed \in 0..Len(track)
    BY <1>i DEF StreamTypeOK
  <2>3. \A n \in 0..Len(track) : WordsBy(n)' = WordsBy(n)
    BY <2>1, <2>2, WordsLater
  <2>4. Heard' = Heard
    BY <2>1, <2>2, <2>3 DEF Heard, WordsBy
  <2> QED
    BY <1>i, <1>q, <2>1, <2>4, SameStretches
<1>2. ASSUME NEW p, NEW b \in BOOLEAN, ResultsRepeat(p, b)
      PROVE  Stretches'
  <2>1. /\ Analysed(p) /\ Segment(p) # <<>>
        /\ Wording(Segment(p)) = Wording(delivered)
        /\ UNCHANGED <<track, final, interim, delivered, queue>>
    BY <1>2 DEF ResultsRepeat, _matches_delivered, audioVars, held, output
  <2>2. /\ WordsBy(p) \in 0..MaxSlots /\ Heard' = WordsBy(p) /\ Heard <= WordsBy(p)
    BY <1>i, <2>1, SegmentIs
  <2>3. final = <<>> /\ interim = <<>>
    BY <1>i, <2>1, <2>2, RepeatFindsNothing DEF Segment
  <2>4. FinalReaches' /\ InterimReaches'
    BY <2>1, <2>3 DEF FinalReaches, InterimReaches
  <2> QED
    BY <2>1, <2>2, <2>4, <1>more, StretchesAfter
<1>3. ASSUME NEW p, ResultsInterim(p)
      PROVE  Stretches'
  <2>1. /\ Analysed(p) /\ UNCHANGED <<track, segStart, final, delivered, queue>>
        /\ ~(Segment(p) # <<>> /\ _matches_delivered(Segment(p)))
    BY <1>3 DEF ResultsInterim, audioVars, output
  <2>2. interim' = Segment(p) \/ interim' = interim
    BY <1>3 DEF ResultsInterim
  <2>3. /\ WordsBy(p) \in 0..MaxSlots /\ Heard' = WordsBy(p) /\ Heard <= WordsBy(p)
        /\ segStart <= WordsBy(p)
    BY <1>i, <2>1, SegmentIs
  <2>4. CASE interim' = interim
    BY <1>i, <1>q, <2>1, <2>3, <2>4, SameStretches
  <2>5. CASE interim' = Segment(p) /\ Segment(p) = <<>>
    <3>1. InterimReaches'
      BY <2>5 DEF InterimReaches
    <3> QED
      BY <2>1, <2>3, <3>1, <1>more, <1>finals, StretchesAfter
  <2>6. CASE interim' = Segment(p) /\ Segment(p) # <<>>
    <3>1. segStart < WordsBy(p)
      BY <1>i, <2>3, <2>6, TextIs DEF Segment
    <3>2. delivered # Text(segStart, WordsBy(p))
      BY <2>1, <2>6 DEF _matches_delivered, Segment
    <3>3. ASSUME NEW m \in WordsBy(p)..MaxSlots
          PROVE  delivered # Text(segStart, m)
      <4>1. CASE m = WordsBy(p)
        BY <3>2, <4>1
      <4>2. CASE m > WordsBy(p)
        <5>1. WordSet(Text(segStart, m)) = (segStart + 1)..m
          BY <1>i, <2>3, TextIs
        <5>2. m \in (segStart + 1)..m /\ m \notin 1..Heard
          BY <1>i, <2>3, <3>1, <4>2
        <5>3. WordSet(delivered) \subseteq 1..Heard
          BY <1>i, <1>q, StretchWords
        <5> QED
          BY <5>1, <5>2, <5>3
      <4> QED
        BY <2>3, <4>1, <4>2
    <3>4. InterimReaches'
      <4>1. WordsBy(p) \in 0..Heard' /\ interim' = Text(segStart, WordsBy(p))
        BY <2>3, <2>6 DEF Segment
      <4>2. \E n \in 0..Heard' : /\ interim' = Text(segStart, n)
                                /\ \A m \in n..MaxSlots : delivered # Text(segStart, m)
        BY <3>3, <4>1
      <4> QED
        BY <2>1, <4>2 DEF InterimReaches, Text
    <3> QED
      BY <2>1, <2>3, <3>4, <1>more, <1>finals, StretchesAfter
  <2> QED
    BY <2>2, <2>4, <2>5, <2>6
<1>4. ASSUME NEW p, NEW b \in BOOLEAN, ResultsFinal(p, b)
      PROVE  Stretches'
  <2>1. /\ Analysed(p) /\ segStart' = WordsBy(p) /\ UNCHANGED track
    BY <1>4 DEF ResultsFinal, audioVars
  <2>2. /\ Segment(p) \in WordSeq
        /\ WordsBy(p) \in 0..MaxSlots /\ segStart <= WordsBy(p) /\ Heard' = WordsBy(p)
        /\ Segment(p) = <<>> => WordsBy(p) = segStart
        /\ Heard <= WordsBy(p)
    BY <1>i, <2>1, SegmentIs
  <2>3. PICK a \in 0..segStart : final \o Segment(p) = Text(a, WordsBy(p))
    <3>1. WordsBy(p) \in segStart..MaxSlots
      BY <1>i, <2>2
    <3> QED
      BY <3>1, HeldStretch DEF Segment
  <2>4. a \in 0..WordsBy(p) /\ a \in 0..MaxSlots
    BY <1>i, <2>2
  <2>5. CASE Segment(p) = <<>>
    <3>1. segStart' = segStart
      BY <2>1, <2>2, <2>5
    <3>2. CASE b
      <4>1. Flush(live_text)
        BY <1>4, <2>5, <3>2 DEF ResultsFinal
      <4>2. Cleared(live_text) /\ \A i \in 1..Len(queue') : IsStretch(queue'[i], MaxSlots)
        BY <1>i, <1>live, <4>1, FlushClears, QueueStretches
      <4>3. IsStretch(live_text, Heard')
        BY <1>i, <1>live, <2>2, StretchGrows
      <4> QED
        BY <2>2, <4>2, <4>3, ClearedStretches
    <3>3. CASE ~b
      <4>1. UNCHANGED <<final, interim, delivered, queue>>
        BY <1>4, <2>5, <3>3 DEF ResultsFinal, held, output
      <4> QED
        BY <1>q, <2>2, <3>1, <4>1, SameStretches
    <3> QED
      BY <3>2, <3>3
  <2>6. CASE Segment(p) # <<>>
    <3>1. CASE b
      <4>1. Flush(final \o Segment(p))
        BY <1>4, <2>6, <3>1 DEF ResultsFinal
      <4>2. IsStretch(final \o Segment(p), WordsBy(p)) /\ final \o Segment(p) \in WordSeq
        <5>1. WordsBy(p) \in 0..WordsBy(p)
          BY <2>2
        <5> QED
          BY <1>i, <2>2, <2>3, <2>4, <5>1, WordSetJoin DEF IsStretch
      <4>3. IsStretch(final \o Segment(p), MaxSlots)
        BY <1>i, <2>2, <4>2, StretchGrows
      <4>4. /\ Cleared(final \o Segment(p))
            /\ \A i \in 1..Len(queue') : IsStretch(queue'[i], MaxSlots)
        BY <4>1, <4>2, <4>3, FlushClears, QueueStretches
      <4> QED
        BY <2>2, <4>2, <4>4, ClearedStretches
    <3>2. CASE ~b
      <4>1. /\ final' = final \o Segment(p) /\ interim' = <<>>
            /\ UNCHANGED <<delivered, queue>>
        BY <1>4, <2>6, <3>2 DEF ResultsFinal, output
      <4>2. IsStretch(delivered, Heard')
        BY <1>i, <1>q, <2>2, StretchGrows
      <4>3. WordSet(delivered) \subseteq 1..segStart'
        BY <2>1, <2>2, <4>2, StretchWords
      <4>4. FinalReaches'
        <5>1. a \in 0..segStart' /\ final' = Text(a, segStart')
          BY <2>1, <2>3, <2>4, <4>1
        <5> QED
          BY <4>1, <4>3, <5>1 DEF FinalReaches, Text, WordSet
      <4>5. InterimReaches'
        BY <4>1 DEF InterimReaches
      <4> QED
        BY <2>2, <4>1, <4>4, <4>5, <1>more, StretchesAfter
    <3> QED
      BY <3>1, <3>2
  <2> QED
    BY <2>5, <2>6
<1>5. CASE UtteranceEnd \/ Settle \/ HardSettle \/ ReaderEnds
  <2>1. Cleared(live_text) /\ UNCHANGED <<track, processed, segStart>>
    BY <1>5, FlushClears, EndClears
    DEF UtteranceEnd, Settle, HardSettle, ReaderEnds, audioVars, engine
  <2>2. Heard' = Heard
    BY <2>1 DEF Heard, WordsBy
  <2>3. \A i \in 1..Len(queue') : IsStretch(queue'[i], MaxSlots)
    <3>1. Flush(live_text) \/ ReaderEnds
      BY <1>5 DEF UtteranceEnd, Settle, HardSettle
    <3> QED
      BY <1>i, <1>live, <3>1, QueueStretches
  <2> QED
    BY <1>i, <1>live, <2>1, <2>2, <2>3, ClearedStretches
<1>6. CASE Tick \/ Closes \/ Take
  <2>1. UNCHANGED <<track, processed, segStart, final, interim, delivered>>
    BY <1>6 DEF Tick, Closes, Take, audioVars, engine, held, output
  <2>2. Heard' = Heard
    BY <2>1 DEF Heard, WordsBy
  <2>3. queue' = queue \/ Take
    BY <1>6 DEF Tick, Closes, output
  <2>4. \A i \in 1..Len(queue') : IsStretch(queue'[i], MaxSlots)
    BY <1>q, <2>3, QueueStretches
  <2> QED
    BY <1>i, <2>1, <2>2, <2>4, SameStretches
<1> QED
  BY <1>1, <1>2, <1>3, <1>4, <1>5, <1>6 DEF StreamNext, Results

-----------------------------------------------------------------------------
(* What follows *)

\* Every word Deepgram has analysed is queued or held, or reads like one that is.
EveryWordHeard ==
    \A w \in 1..Heard : Known(w, answered \cup WordSet(live_text))

\* The state of every variable is of its type in every reachable state of
\* DeepgramStream.
THEOREM StreamTypeCorrect == StreamSpec => []StreamTypeOK
<1>1. StreamInv => StreamTypeOK
  BY DEF StreamInv
<1> QED
  BY <1>1, StreamInductive, PTL

\* Whatever the wording, a word Deepgram has analysed is queued or held, or
\* reads like one that is.
THEOREM ReadsLikeIt == StreamSpec => []EveryWordHeard
<1>1. StreamInv => EveryWordHeard
  BY AllCaught DEF StreamInv, EveryWordHeard
<1> QED
  BY <1>1, StreamInductive, PTL

LEMMA InductiveInitial ==
  ASSUME AllDiffer
  PROVE  StreamSpec => [](StreamInv /\ Initial /\ Stretches)
<1>1. StreamInit => Initial /\ Stretches
  <2>1. MaxSlots \in Nat
    BY SlotsAssumption
  <2>2. 0 \in 0..MaxSlots /\ 1..0 = {} /\ 0 \in 0..0
    BY <2>1
  <2>3. WordSet(<<>>) = {} /\ Text(0, 0) = <<>> /\ Len(<<>>) = 0
    BY WordSetEmpty, TextIs
  <2>4. StreamInit => Initial
    BY <2>2, <2>3 DEF StreamInit, Initial
  <2>5. WordsBy(0) = 0
    BY WordsRange
  <2>6. StreamInit => Stretches
    BY <2>2, <2>3, <2>5
    DEF StreamInit, Stretches, IsStretch, FinalReaches, InterimReaches, Heard
  <2> QED
    BY <2>4, <2>6
<1>2. ASSUME Initial, Stretches, StreamInv, StreamInv', [StreamNext]_streamVars
      PROVE  Initial' /\ Stretches'
  <2>1. CASE UNCHANGED streamVars
    <3>1. /\ UNCHANGED <<segStart, final, interim, delivered, queue, answered>>
          /\ Heard' = Heard
      BY <2>1 DEF streamVars, Heard, WordsBy
    <3>2. Initial'
      BY <1>2, <3>1 DEF Initial, WordSet, Text
    <3>3. Stretches'
      BY <1>2, <3>1, SameStretches, StretchTypes DEF Stretches
    <3> QED
      BY <3>2, <3>3
  <2> QED
    BY <1>2, <2>1, InitialStep, StretchesStep
<1> QED
  BY <1>1, <1>2, StreamInductive, PTL DEF StreamSpec

\* No word of the caller is lost between the two loops when no two words read
\* alike: what Deepgram has analysed was queued or is still held.
THEOREM NoWordIsLost ==
  ASSUME AllDiffer
  PROVE  StreamSpec => []NoWordLost
<1>1. StreamInv => NoWordLost
  BY ExactlyCaught DEF NoWordLost
<1> QED
  BY <1>1, StreamInductive, PTL

\* The words are queued in the order they were said, none left out, within an
\* utterance and between them, however the finals, the interim results and the two
\* flushes interleave.
THEOREM OrderKept ==
  ASSUME AllDiffer
  PROVE  StreamSpec => []AnsweredInOrder
<1>1. Initial => answered = 1..Cardinality(answered)
  <2>1. ASSUME NEW a \in 0..MaxSlots, answered = 1..a
        PROVE  answered = 1..Cardinality(answered)
    <3>1. Cardinality(1..a) = a
      <4>1. a \in Nat /\ 1 \in Int /\ a \in Int
        BY SlotsAssumption
      <4>2. Cardinality(1..a) = IF 1 > a THEN 0 ELSE a - 1 + 1
        BY ONLY <4>1, FS_Interval
      <4> QED
        BY ONLY <4>1, <4>2
    <3> QED
      BY <2>1, <3>1
  <2> QED
    BY <2>1 DEF Initial
<1>2. Stretches => \A i \in 1..Len(queue) : \E a, b \in 0..MaxSlots : queue[i] = Text(a, b)
  BY DEF Stretches, IsStretch
<1>3. Initial /\ Stretches => AnsweredInOrder
  BY <1>1, <1>2 DEF AnsweredInOrder
<1> QED
  BY <1>3, InductiveInitial, PTL

\* The settle loop's short delay queues only what is complete: every word up to
\* the caller's last voice.
THEOREM SettledComplete ==
  ASSUME AllDiffer
  PROVE  StreamSpec => SettlesOnlyWhatIsComplete
<1>1. ASSUME StreamInv, Settle
      PROVE  1..WordsBy(voiceUntil) \subseteq answered'
  <2>1. Cleared(live_text) /\ (voiceUntil = 0 \/ processed >= voiceUntil + 1)
    BY <1>1, FlushClears DEF Settle, _caller_finished
  <2>2. voiceUntil \in Nat /\ processed \in Nat
    BY <1>1 DEF StreamInv, StreamTypeOK
  <2>3. WordsBy(voiceUntil) \in Nat /\ Heard \in Nat /\ WordsBy(0) = 0
    BY <2>2, WordsRange DEF Heard
  <2>4. WordsBy(voiceUntil) <= Heard
    <3>1. CASE voiceUntil = 0
      BY <2>3, <3>1
    <3>2. CASE processed >= voiceUntil + 1
      BY <2>2, <3>2, WordsMonotone DEF Heard
    <3> QED
      BY <2>1, <3>1, <3>2
  <2>5. 1..WordsBy(voiceUntil) \subseteq 1..Heard
    BY <2>3, <2>4
  <2> QED
    BY <1>1, <2>1, <2>5, ExactlyCaught DEF Cleared
<1>2. StreamInv /\ [StreamNext]_streamVars
          => [Settle => 1..WordsBy(voiceUntil) \subseteq answered']_streamVars
  BY <1>1
<1> QED
  BY <1>2, StreamInductive, PTL DEF StreamSpec, SettlesOnlyWhatIsComplete

-----------------------------------------------------------------------------
(*****************************************************************************)
(* Part three: Synthesis, for any texts, fillers, tokens and clauses.        *)
(*                                                                           *)
(* The invariant follows the text from the model to the socket: what was     *)
(* written and what is left of it are a filler, or none, and the text        *)
(* (Sourced); what is sent is a beginning of what was written, in pieces     *)
(* that end at a space (Spoken); a turn is recorded at its end, and without  *)
(* a fault there is no other (Recorded).  The first lemmas are about Joined, *)
(* which puts the pieces together again.                                     *)
(*****************************************************************************)

(* Numbers *)

LEMMA Least ==
  ASSUME NEW T \in SUBSET Nat, T # {}
  PROVE  \E m \in T : \A k \in T : m <= k
<1>1. PICK m \in T : \A k \in T : ~ <<k, m>> \in OpToRel(<, Nat)
  BY NatLessThanWellFounded, WFMin
<1>2. \A k \in T : ~ k < m
  BY <1>1 DEF OpToRel
<1> QED
  BY <1>2

LEMMA MinIs ==
  ASSUME NEW T \in SUBSET Nat, T # {}
  PROVE  Min(T) \in T /\ \A k \in T : Min(T) <= k
<1>1. \E m \in T : \A k \in T : m <= k
  BY Least
<1> QED
  BY <1>1 DEF Min

LEMMA MaxIs ==
  ASSUME NEW n \in Nat, NEW T \in SUBSET (0..n), T # {}
  PROVE  Max(T) \in T /\ \A k \in T : k <= Max(T)
<1> DEFINE D == {n - k : k \in T}
<1>1. D \in SUBSET Nat /\ D # {}
  <2>1. \A k \in T : n - k \in Nat
    OBVIOUS
  <2> QED
    BY <2>1
<1>2. PICK d \in D : \A k \in D : d <= k
  BY <1>1, Least
<1>3. PICK m \in T : d = n - m
  BY <1>2
<1>4. \A k \in T : k <= m
  <2>1. TAKE k \in T
  <2>2. n - m <= n - k
    BY <1>2, <1>3
  <2> QED
    BY <2>2
<1>5. \E x \in T : \A y \in T : x >= y
  BY <1>3, <1>4
<1>6. Max(T) \in T /\ \A y \in T : Max(T) >= y
  BY <1>5 DEF Max
<1> QED
  BY <1>6

-----------------------------------------------------------------------------
(* Joined *)

\* The function join of Joined(s), up to n.
Follows(f, s, n) == f[0] = <<>> /\ \A i \in 1..n : f[i] = f[i - 1] \o s[i]
Joins(f, s, n)   == f \in [0..n -> Seq(Nat)] /\ Follows(f, s, n)

LEMMA JoinGrows ==
  ASSUME NEW s \in Seq(Seq(Nat)), NEW n \in 1..Len(s), NEW f, Joins(f, s, n - 1)
  PROVE  \E g : Joins(g, s, n)
<1> DEFINE g == [i \in 0..n |-> IF i = n THEN f[n - 1] \o s[n] ELSE f[i]]
<1>1. /\ n \in Nat /\ n # 0 /\ n - 1 \in 0..(n - 1) /\ s[n] \in Seq(Nat)
      /\ 0 \in 0..(n - 1) /\ 0 \in 0..n /\ n \in 0..n
      /\ \A i \in 0..n : i # n => i \in 0..(n - 1)
      /\ \A i \in 1..n : i \in 0..n /\ i - 1 \in 0..n /\ i - 1 # n /\ i - 1 \in 0..(n - 1)
      /\ \A i \in 1..n : i # n => i \in 1..(n - 1)
  OBVIOUS
<1>2. /\ f \in [0..(n - 1) -> Seq(Nat)] /\ f[0] = <<>>
      /\ \A i \in 1..(n - 1) : f[i] = f[i - 1] \o s[i]
  BY DEF Joins, Follows
<1>3. f[n - 1] \o s[n] \in Seq(Nat)
  BY <1>1, <1>2, ConcatProperties
<1>4. \A i \in 0..n : g[i] \in Seq(Nat)
  BY <1>1, <1>2, <1>3
<1>5. g \in [0..n -> Seq(Nat)]
  BY <1>4
<1>6. g[0] = <<>>
  BY <1>1, <1>2
<1>7. \A i \in 1..n : g[i] = g[i - 1] \o s[i]
  <2>1. TAKE i \in 1..n
  <2>2. g[i - 1] = f[i - 1]
    BY <1>1
  <2>3. CASE i = n
    BY <1>1, <2>2, <2>3
  <2>4. CASE i # n
    <3>1. i \in 1..(n - 1) /\ g[i] = f[i]
      BY <1>1, <2>4
    <3> QED
      BY <1>2, <2>2, <3>1
  <2> QED
    BY <2>3, <2>4
<1> HIDE DEF g
<1> QED
  BY <1>5, <1>6, <1>7 DEF Joins, Follows

LEMMA JoinsAgree ==
  ASSUME NEW s, NEW n \in Nat, NEW f, NEW g, Follows(f, s, n), Follows(g, s, n)
  PROVE  \A i \in 0..n : f[i] = g[i]
<1> DEFINE D == {i \in 0..n : f[i] # g[i]}
<1>1. ASSUME D # {} PROVE FALSE
  <2>1. D \in SUBSET Nat
    OBVIOUS
  <2>2. PICK i \in D : \A k \in D : i <= k
    BY <1>1, <2>1, Least
  <2>3. i \in 0..n /\ f[i] # g[i]
    BY <2>2
  <2>4. i # 0
    BY <2>3 DEF Follows
  <2>5. i \in 1..n /\ i - 1 \in 0..n /\ ~ i <= i - 1
    BY <2>3, <2>4
  <2>6. f[i - 1] = g[i - 1]
    BY <2>2, <2>5
  <2> QED
    BY <2>3, <2>5, <2>6 DEF Follows
<1> QED
  BY <1>1

LEMMA JoinExists ==
  ASSUME NEW s \in Seq(Seq(Nat))
  PROVE  \E f : Joins(f, s, Len(s))
<1> DEFINE None == {n \in 0..Len(s) : ~ \E f : Joins(f, s, n)}
<1>s. Len(s) \in Nat
  OBVIOUS
<1>1. ASSUME None # {} PROVE FALSE
  <2>1. None \in SUBSET Nat
    OBVIOUS
  <2>2. PICK n \in None : \A k \in None : n <= k
    BY <1>1, <2>1, Least
  <2>3. n \in Nat /\ n <= Len(s) /\ ~ \E f : Joins(f, s, n)
    BY <1>s, <2>2
  <2>4. CASE n = 0
    <3>1. <<>> \in Seq(Nat) /\ 1..0 = {}
      OBVIOUS
    <3>2. Joins([i \in 0..0 |-> <<>>], s, 0)
      BY <3>1 DEF Joins, Follows
    <3> QED
      BY <2>3, <2>4, <3>2
  <2>5. CASE n # 0
    <3>1. n \in 1..Len(s) /\ n - 1 \in 0..Len(s) /\ ~ n <= n - 1
      BY <1>s, <2>3, <2>5
    <3>2. \E f : Joins(f, s, n - 1)
      BY <2>2, <3>1
    <3> QED
      BY <2>3, <3>1, <3>2, JoinGrows
  <2> QED
    BY <2>4, <2>5
<1>2. Len(s) \in 0..Len(s)
  BY <1>s
<1> QED
  BY <1>1, <1>2

LEMMA JoinedIs ==
  ASSUME NEW s \in Seq(Seq(Nat))
  PROVE  \E g : Joins(g, s, Len(s)) /\ Joined(s) = g[Len(s)]
<1> DEFINE Fixed(h) == h = [i \in 0..Len(s) |-> IF i = 0 THEN <<>> ELSE h[i - 1] \o s[i]]
           chosen == CHOOSE h : Fixed(h)
<1>s. Len(s) \in Nat /\ 0 \in 0..Len(s) /\ \A i \in 1..Len(s) : i \in 0..Len(s) /\ i # 0
  OBVIOUS
<1>1. PICK g : Joins(g, s, Len(s))
  BY JoinExists
<1>2. Fixed(g)
  <2>1. \A i \in 0..Len(s) : g[i] = IF i = 0 THEN <<>> ELSE g[i - 1] \o s[i]
    <3>1. g[0] = <<>> /\ \A i \in 1..Len(s) : g[i] = g[i - 1] \o s[i]
      BY <1>1, Zenon DEF Joins, Follows
    <3>2. \A i \in 0..Len(s) : i # 0 => i \in 1..Len(s)
      BY <1>s
    <3> QED
      BY ONLY <3>1, <3>2
  <2>2. g \in [0..Len(s) -> Seq(Nat)]
    BY <1>1 DEF Joins, Follows
  <2>3. g = [i \in 0..Len(s) |-> g[i]]
    BY ONLY <2>2
  <2> QED
    BY <2>1, <2>3
<1>3. Fixed(chosen)
  <2> HIDE DEF Fixed
  <2> QED
    BY <1>2, Zenon
<1>4. Joined(s) = chosen[Len(s)]
  BY DEF Joined
<1> HIDE DEF chosen
<1>5. \A i \in 0..Len(s) : chosen[i] = IF i = 0 THEN <<>> ELSE chosen[i - 1] \o s[i]
  BY <1>3
<1>6. Follows(chosen, s, Len(s))
  BY <1>s, <1>5 DEF Follows
<1>7. chosen[Len(s)] = g[Len(s)]
  <2>1. Follows(g, s, Len(s))
    BY <1>1 DEF Joins
  <2>2. \A i \in 0..Len(s) : chosen[i] = g[i]
    BY ONLY <1>s, <1>6, <2>1, JoinsAgree
  <2>3. Len(s) \in 0..Len(s)
    BY <1>s
  <2> QED
    BY ONLY <2>2, <2>3
<1> QED
  BY <1>1, <1>4, <1>7

LEMMA JoinedEmpty == Joined(<<>>) = <<>>
<1>1. <<>> \in Seq(Seq(Nat)) /\ Len(<<>>) = 0
  OBVIOUS
<1> QED
  BY <1>1, JoinedIs DEF Joins, Follows

\* What is sent piece by piece is what the pieces say.
LEMMA JoinedAppend ==
  ASSUME NEW s \in Seq(Seq(Nat)), NEW e \in Seq(Nat)
  PROVE  Joined(s) \in Seq(Nat) /\ Joined(Append(s, e)) = Joined(s) \o e
<1> DEFINE t == Append(s, e)
           n == Len(s)
<1>1. /\ t \in Seq(Seq(Nat)) /\ Len(t) = n + 1 /\ n \in Nat /\ t[n + 1] = e
      /\ \A i \in 1..n : t[i] = s[i]
  BY AppendProperties
<1>2. PICK f : Joins(f, s, n) /\ Joined(s) = f[n]
  BY JoinedIs
<1>3. PICK g : Joins(g, t, Len(t)) /\ Joined(t) = g[Len(t)]
  BY <1>1, JoinedIs
<1> HIDE DEF t, n
<1>4. Follows(g, t, n + 1) /\ Joined(t) = g[n + 1]
  BY <1>1, <1>3 DEF Joins
<1>5. /\ n + 1 \in 1..(n + 1) /\ (n + 1) - 1 = n /\ n \in 0..n
      /\ \A i \in 1..n : i \in 1..(n + 1)
  BY <1>1
<1>6. Follows(g, s, n) /\ g[n + 1] = g[n] \o e
  BY <1>1, <1>4, <1>5 DEF Follows
<1>7. Follows(f, s, n) /\ f[n] \in Seq(Nat)
  BY <1>2, <1>5 DEF Joins
<1>8. g[n] = f[n]
  <2>1. n \in Nat /\ Follows(g, s, n) /\ Follows(f, s, n)
    BY <1>1, <1>6, <1>7
  <2>2. \A i \in 0..n : g[i] = f[i]
    BY ONLY <2>1, JoinsAgree
  <2> QED
    BY ONLY <1>5, <2>2
<1> QED
  BY <1>2, <1>4, <1>6, <1>7, <1>8 DEF t

LEMMA JoinedOne ==
  ASSUME NEW e \in Seq(Nat)
  PROVE  Joined(<<e>>) = e /\ <<e>> \in Seq(Seq(Nat)) /\ Len(<<e>>) = 1
<1>1. <<>> \in Seq(Seq(Nat)) /\ Append(<<>>, e) = <<e>>
  OBVIOUS
<1>2. <<>> \o e = e
  BY ConcatEmptySeq
<1>3. Joined(Append(<<>>, e)) = Joined(<<>>) \o e
  BY ONLY <1>1, e \in Seq(Nat), JoinedAppend
<1> QED
  <2>1. Joined(<<e>>) = e
    BY ONLY <1>1, <1>2, <1>3, JoinedEmpty
  <2>2. <<e>> \in Seq(Seq(Nat))
    BY ONLY <1>1, e \in Seq(Nat), AppendProperties
  <2>3. Len(<<e>>) = 1
    BY ONLY e \in Seq(Nat)
  <2> QED
    BY <2>1, <2>2, <2>3
-----------------------------------------------------------------------------
(* Characters *)

LEMMA Regroup ==
  ASSUME NEW x \in Seq(Nat), NEW y \in Seq(Nat), NEW z \in Seq(Nat)
  PROVE  (x \o y) \o z = x \o (y \o z)
BY ConcatAssociative

\* A text up to its n-th character, and what follows.
LEMMA Halves ==
  ASSUME NEW s \in Seq(Nat), NEW n \in 0..Len(s)
  PROVE  /\ SubSeq(s, 1, n) \in Seq(Nat) /\ Len(SubSeq(s, 1, n)) = n
         /\ \A i \in 1..n : SubSeq(s, 1, n)[i] = s[i]
         /\ From(s, n + 1) \in Seq(Nat) /\ Len(From(s, n + 1)) = Len(s) - n
         /\ \A i \in 1..(Len(s) - n) : From(s, n + 1)[i] = s[n + i]
         /\ SubSeq(s, 1, n) \o From(s, n + 1) = s
<1>1. /\ n \in Nat /\ Len(s) \in Nat /\ n <= Len(s) /\ n \in Int /\ n + 1 \in Int
      /\ Len(s) \in Int /\ 1 \in Int
      /\ \A i \in 1..Len(s) : s[i] \in Nat
  OBVIOUS
<1>2. /\ \A i \in 1..n : s[i] \in Nat
      /\ \A i \in (n + 1)..Len(s) : s[i] \in Nat
  BY <1>1
<1>3. /\ SubSeq(s, 1, n) \in Seq(Nat)
      /\ Len(SubSeq(s, 1, n)) = (IF 1 <= n THEN n - 1 + 1 ELSE 0)
      /\ \A i \in 1..(n - 1 + 1) : SubSeq(s, 1, n)[i] = s[1 + i - 1]
  BY ONLY <1>1, <1>2, SubSeqProperties
<1>4. /\ From(s, n + 1) \in Seq(Nat)
      /\ Len(From(s, n + 1)) = (IF n + 1 <= Len(s) THEN Len(s) - (n + 1) + 1 ELSE 0)
      /\ \A i \in 1..(Len(s) - (n + 1) + 1) : From(s, n + 1)[i] = s[n + 1 + i - 1]
  BY ONLY <1>1, <1>2, SubSeqProperties DEF From
<1>5. SubSeq(s, 1, n) \o From(s, n + 1) = s
  <2>1. 1 \in 1..Len(s) + 1 /\ n \in 1 - 1..Len(s) /\ Len(s) \in n..Len(s)
    BY <1>1
  <2>2. SubSeq(s, 1, n) \o SubSeq(s, n + 1, Len(s)) = SubSeq(s, 1, Len(s))
    BY ONLY <2>1, s \in Seq(Nat), ConcatAdjacentSubSeq
  <2> QED
    BY <2>2, SubSeqFull DEF From
<1>6. Len(SubSeq(s, 1, n)) = n /\ Len(From(s, n + 1)) = Len(s) - n
  BY <1>1, <1>3, <1>4
<1>7. \A i \in 1..n : SubSeq(s, 1, n)[i] = s[i]
  <2>1. TAKE i \in 1..n
  <2>2. i \in 1..(n - 1 + 1) /\ 1 + i - 1 = i
    BY <1>1
  <2>3. SubSeq(s, 1, n)[i] = s[1 + i - 1]
    BY <1>3, <2>2
  <2> QED
    BY ONLY <2>2, <2>3
<1>8. \A i \in 1..(Len(s) - n) : From(s, n + 1)[i] = s[n + i]
  <2>1. TAKE i \in 1..(Len(s) - n)
  <2>2. i \in 1..(Len(s) - (n + 1) + 1) /\ n + 1 + i - 1 = n + i
    BY <1>1
  <2>3. From(s, n + 1)[i] = s[n + 1 + i - 1]
    BY <1>4, <2>2
  <2> QED
    BY ONLY <2>2, <2>3
<1> QED
  BY <1>3, <1>4, <1>5, <1>6, <1>7, <1>8

LEMMA StripIs ==
  ASSUME NEW s \in Seq(Nat)
  PROVE  /\ Strip(s) \in Seq(Nat)
         /\ Strip(s) = <<>> <=> Letters(s) = {}
         /\ Strip(s) # <<>> => Strip(s)[1] # 0
<1>1. CASE Letters(s) = {}
  <2>1. Strip(s) = <<>>
    BY <1>1 DEF Strip
  <2> QED
    BY <1>1, <2>1
<1>2. CASE Letters(s) # {}
  <2> DEFINE lo == Min(Letters(s))
             hi == Max(Letters(s))
  <2>1. Len(s) \in Nat /\ Letters(s) \in SUBSET Nat /\ Letters(s) \in SUBSET (0..Len(s))
    BY DEF Letters
  <2>2. lo \in Letters(s) /\ hi \in Letters(s) /\ lo <= hi
    BY <1>2, <2>1, MinIs, MaxIs
  <2>3. lo \in 1..Len(s) /\ hi \in 1..Len(s) /\ s[lo] # 0
    BY <2>2 DEF Letters, Spaces
  <2>4. Strip(s) = SubSeq(s, lo, hi)
    BY <1>2 DEF Strip
  <2> HIDE DEF lo, hi
  <2>5. lo \in Int /\ hi \in Int /\ \A i \in lo..hi : s[i] \in Nat
    BY <2>1, <2>3
  <2>6. /\ SubSeq(s, lo, hi) \in Seq(Nat)
        /\ Len(SubSeq(s, lo, hi)) = (IF lo <= hi THEN hi - lo + 1 ELSE 0)
        /\ \A i \in 1..(hi - lo + 1) : SubSeq(s, lo, hi)[i] = s[lo + i - 1]
    BY ONLY <2>5, SubSeqProperties
  <2>7. 1 \in 1..(hi - lo + 1) /\ lo + 1 - 1 = lo /\ hi - lo + 1 # 0
    BY <2>1, <2>2, <2>3
  <2>8. SubSeq(s, lo, hi)[1] = s[lo] /\ SubSeq(s, lo, hi) # <<>>
    <3>1. SubSeq(s, lo, hi)[1] = s[lo + 1 - 1]
      BY <2>6, <2>7
    <3>2. Len(SubSeq(s, lo, hi)) # 0
      BY <2>2, <2>6, <2>7
    <3>3. Len(<<>>) = 0
      OBVIOUS
    <3> QED
      BY <2>7, <3>1, <3>2, <3>3
  <2> QED
    BY <1>2, <2>3, <2>4, <2>6, <2>8
<1> QED
  BY <1>1, <1>2

\* Without spaces nothing is stripped off.
LEMMA WholeWord ==
  ASSUME NEW s \in Seq(Nat), Spaces(s) = {}
  PROVE  Strip(s) = <<>> <=> s = <<>>
<1>1. Letters(s) = 1..Len(s)
  BY DEF Letters
<1>2. 1..Len(s) = {} <=> s = <<>>
  <2>1. CASE s = <<>>
    BY <2>1
  <2>2. CASE s # <<>>
    <3>1. 1 \in 1..Len(s)
      BY <2>2, EmptySeq
    <3> QED
      BY <2>2, <3>1
  <2> QED
    BY <2>1, <2>2
<1> QED
  BY <1>1, <1>2, StripIs

LEMMA ReadyIs ==
  ASSUME NEW b \in Seq(Nat)
  PROVE  /\ Ready(b) \in 0..Len(b)
         /\ Ready(b) # 0 => b[Ready(b)] = 0
         /\ Spaces(From(b, Ready(b) + 1)) = {}
<1>0. Len(b) \in Nat
  OBVIOUS
<1>1. /\ Ready(b) \in 0..Len(b)
      /\ Ready(b) # 0 => b[Ready(b)] = 0
      /\ \A i \in Spaces(b) : i <= Ready(b)
  <2>1. CASE Spaces(b) = {}
    BY <1>0, <2>1 DEF Ready
  <2>2. CASE Spaces(b) # {}
    <3>1. Spaces(b) \in SUBSET (0..Len(b))
      BY DEF Spaces
    <3>2. Max(Spaces(b)) \in Spaces(b) /\ \A i \in Spaces(b) : i <= Max(Spaces(b))
      BY <1>0, <2>2, <3>1, MaxIs
    <3>3. Ready(b) = Max(Spaces(b))
      BY <2>2 DEF Ready
    <3> QED
      BY <3>2, <3>3 DEF Spaces
  <2> QED
    BY <2>1, <2>2
<1> DEFINE n == Ready(b)
<1>2. n \in 0..Len(b) /\ \A i \in Spaces(b) : i <= n
  BY <1>1
<1> HIDE DEF n
<1>3. ASSUME NEW i \in Spaces(From(b, n + 1)) PROVE FALSE
  <2>1. i \in 1..(Len(b) - n) /\ From(b, n + 1)[i] = 0
    BY <1>2, Halves DEF Spaces
  <2>2. b[n + i] = 0 /\ n + i \in 1..Len(b) /\ ~ n + i <= n
    <3>1. i \in Nat /\ n \in Nat /\ 1 <= i /\ i <= Len(b) - n
      BY <1>0, <1>2, <2>1
    <3>2. From(b, n + 1)[i] = b[n + i]
      BY <1>2, <2>1, Halves
    <3>3. n + i \in 1..Len(b) /\ ~ n + i <= n
      BY ONLY <1>0, <3>1
    <3> QED
      BY <2>1, <3>2, <3>3
  <2>3. n + i \in Spaces(b)
    BY <2>2 DEF Spaces
  <2> QED
    BY <1>2, <2>2, <2>3
<1>4. Spaces(From(b, n + 1)) = {}
  BY <1>3
<1> QED
  BY <1>1, <1>4 DEF n

LEMMA CutIs ==
  ASSUME NEW b \in Seq(Nat)
  PROVE  Cut(b) \in 0..Len(b)
<1> DEFINE spaces == {i \in Spaces(b) : i \in 2..MaxChunk}
           stops  == {i \in Spaces(b) : i > 1 /\ b[i - 1] \in Stops
                                     /\ Len(Strip(SubSeq(b, 1, i - 1))) >= MinChunk}
<1>1. Len(b) \in Nat /\ spaces \in SUBSET (0..Len(b)) /\ stops \in SUBSET Nat
  BY DEF Spaces
<1>2. spaces # {} => Max(spaces) \in spaces
  BY <1>1, MaxIs
<1>3. stops # {} => Min(stops) \in stops
  BY <1>1, MinIs
<1>4. spaces # {} => Max(spaces) - 1 \in 0..Len(b)
  BY <1>1, <1>2 DEF Spaces
<1>5. stops # {} => Min(stops) - 1 \in 0..Len(b)
  <2>1. \A i \in stops : i \in 1..Len(b)
    BY DEF Spaces
  <2> QED
    BY <1>1, <1>3, <2>1
<1>6. Len(b) >= MaxChunk => MaxChunk \in 0..Len(b)
  BY <1>1, SynthesisAssumption
<1>7. Cut(b) = IF Len(b) >= MaxChunk
               THEN IF spaces = {} THEN MaxChunk ELSE Max(spaces) - 1
               ELSE IF stops = {} THEN 0 ELSE Min(stops) - 1
  BY DEF Cut
<1> HIDE DEF spaces, stops
<1> QED
  BY <1>1, <1>4, <1>5, <1>6, <1>7
-----------------------------------------------------------------------------
(* Pieces and what they say together *)

\* Where the n-th piece ends.
EndAt(p, n) == Len(Joined(SubSeq(p, 1, n)))

\* Every piece ends at a space of w; or at its end.
AtSpaces(p, w) == \A n \in 1..Len(p) : EndAt(p, n) \in 1..Len(w) /\ w[EndAt(p, n)] = 0
WholeIn(p, w)  == \A n \in 1..Len(p) :
    EndAt(p, n) \in 1..Len(w) /\ (w[EndAt(p, n)] = 0 \/ EndAt(p, n) = Len(w))

\* What was sent and what is in the buffer is w, and no whole word waits.
Feeds(p, b, w) == w = Joined(p) \o b /\ Spaces(b) = {} /\ AtSpaces(p, w)

LEMMA JoinedType ==
  ASSUME NEW p \in Seq(Seq(Nat))
  PROVE  /\ Joined(p) \in Seq(Nat) /\ EndAt(p, Len(p)) = Len(Joined(p))
         /\ p = <<>> => Joined(p) = <<>>
<1>1. Joined(p) \in Seq(Nat)
  <2>1. <<>> \in Seq(Nat)
    OBVIOUS
  <2> QED
    BY <2>1, JoinedAppend
<1>2. SubSeq(p, 1, Len(p)) = p
  BY SubSeqFull
<1> QED
  BY <1>1, <1>2, JoinedEmpty DEF EndAt

LEMMA EndAtAppend ==
  ASSUME NEW p \in Seq(Seq(Nat)), NEW e \in Seq(Nat)
  PROVE  /\ Append(p, e) \in Seq(Seq(Nat)) /\ Len(Append(p, e)) = Len(p) + 1 /\ Len(p) \in Nat
         /\ \A n \in 1..Len(p) : EndAt(Append(p, e), n) = EndAt(p, n)
         /\ EndAt(Append(p, e), Len(p) + 1) = Len(Joined(p) \o e)
<1>1. Append(p, e) \in Seq(Seq(Nat)) /\ Len(Append(p, e)) = Len(p) + 1 /\ Len(p) \in Nat
  BY AppendProperties
<1>2. ASSUME NEW n \in 1..Len(p)
      PROVE  EndAt(Append(p, e), n) = EndAt(p, n)
  <2>1. Append(p, e) = p \o <<e>> /\ <<e>> \in Seq(Seq(Nat)) /\ 1 \in 1..Len(p)
    BY <1>1, AppendIsConcat
  <2>2. SubSeq(p \o <<e>>, 1, n) = SubSeq(p, 1, n)
    BY ONLY <2>1, n \in 1..Len(p), p \in Seq(Seq(Nat)), SubSeqOfConcat1
  <2> QED
    BY <2>1, <2>2 DEF EndAt
<1>3. EndAt(Append(p, e), Len(p) + 1) = Len(Joined(Append(p, e)))
  BY ONLY <1>1, JoinedType
<1>4. Joined(Append(p, e)) = Joined(p) \o e
  BY JoinedAppend
<1> QED
  BY <1>1, <1>2, <1>3, <1>4

LEMMA AtSpacesMore ==
  ASSUME NEW p, NEW w \in Seq(Nat), NEW u \in Seq(Nat), AtSpaces(p, w)
  PROVE  AtSpaces(p, w \o u)
<1>1. /\ Len(w \o u) = Len(w) + Len(u) /\ Len(w) \in Nat /\ Len(u) \in Nat
      /\ \A i \in 1..Len(w) : (w \o u)[i] = w[i]
  BY ConcatProperties
<1>2. \A i \in 1..Len(w) : i \in 1..Len(w \o u)
  BY <1>1
<1> QED
  BY <1>1, <1>2 DEF AtSpaces

LEMMA AtSpacesWhole ==
  ASSUME NEW p, NEW w, AtSpaces(p, w)
  PROVE  WholeIn(p, w)
BY DEF AtSpaces, WholeIn

\* A further piece that ends at a space.
LEMMA AtSpacesAppend ==
  ASSUME NEW p \in Seq(Seq(Nat)), NEW e \in Seq(Nat), NEW r \in Seq(Nat), NEW w,
         AtSpaces(p, w), w = (Joined(p) \o e) \o r, e # <<>>, e[Len(e)] = 0
  PROVE  AtSpaces(Append(p, e), w)
<1> DEFINE j == Joined(p)
           L == Len(j \o e)
<1>1. j \in Seq(Nat) /\ Len(e) \in Nat \ {0}
  BY JoinedType, EmptySeq
<1> HIDE DEF j
<1>2. /\ j \o e \in Seq(Nat) /\ L = Len(j) + Len(e) /\ Len(j) \in Nat
      /\ \A i \in 1..Len(j) + Len(e) : (j \o e)[i] = IF i <= Len(j) THEN j[i] ELSE e[i - Len(j)]
  BY <1>1, ConcatProperties
<1>3. (j \o e)[L] = 0
  <2>1. L \in 1..Len(j) + Len(e) /\ ~ L <= Len(j) /\ L - Len(j) = Len(e)
    BY <1>1, <1>2
  <2> QED
    BY <1>2, <2>1
<1> HIDE DEF L
<1>4. /\ Len((j \o e) \o r) = L + Len(r) /\ Len(r) \in Nat /\ L \in Nat
      /\ \A i \in 1..L : ((j \o e) \o r)[i] = (j \o e)[i]
  BY <1>1, <1>2, ConcatProperties DEF L
<1>5. L \in 1..Len(w) /\ w[L] = 0
  <2>1. L \in 1..L /\ L \in 1..L + Len(r)
    BY <1>1, <1>2, <1>4
  <2> QED
    BY <1>3, <1>4, <2>1 DEF j
<1>6. EndAt(Append(p, e), Len(p) + 1) = L
  BY EndAtAppend DEF L, j
<1>7. \A n \in 1..Len(p) + 1 : n \in 1..Len(p) \/ n = Len(p) + 1
  OBVIOUS
<1>8. /\ Len(Append(p, e)) = Len(p) + 1
      /\ \A n \in 1..Len(p) : EndAt(Append(p, e), n) = EndAt(p, n)
  BY EndAtAppend
<1> QED
  BY <1>5, <1>6, <1>7, <1>8 DEF AtSpaces

\* The last piece.
LEMMA WholeAppend ==
  ASSUME NEW p \in Seq(Seq(Nat)), NEW e \in Seq(Nat), NEW w,
         AtSpaces(p, w), w = Joined(p) \o e, e # <<>>
  PROVE  WholeIn(Append(p, e), w)
<1>1. EndAt(Append(p, e), Len(p) + 1) = Len(w)
  BY EndAtAppend
<1>2. Len(w) \in 1..Len(w)
  <2>1. Joined(p) \in Seq(Nat) /\ Len(e) \in Nat \ {0}
    BY JoinedType, EmptySeq
  <2>2. Len(w) = Len(Joined(p)) + Len(e) /\ Len(Joined(p)) \in Nat
    BY <2>1, ConcatProperties
  <2> QED
    BY <2>1, <2>2
<1>3. \A n \in 1..Len(p) + 1 : n \in 1..Len(p) \/ n = Len(p) + 1
  OBVIOUS
<1>4. /\ Len(Append(p, e)) = Len(p) + 1
      /\ \A n \in 1..Len(p) : EndAt(Append(p, e), n) = EndAt(p, n)
  BY EndAtAppend
<1> QED
  BY <1>1, <1>2, <1>3, <1>4 DEF AtSpaces, WholeIn

\* What Pumped sends of its buffer c.
Sends(p, c) ==
    IF Strip(SubSeq(c, 1, Ready(c))) = <<>> THEN p ELSE Append(p, SubSeq(c, 1, Ready(c)))

LEMMA PumpFeeds ==
  ASSUME NEW p \in Seq(Seq(Nat)), NEW b \in Seq(Nat), NEW w, Feeds(p, b, w),
         NEW t \in Seq(Nat), t = <<>> \/ b # <<>> \/ t[1] # 0
  PROVE  /\ Feeds(Sends(p, b \o t), From(b \o t, Ready(b \o t) + 1), w \o t)
         /\ Sends(p, b \o t) \in Seq(Seq(Nat)) /\ w \o t \in Seq(Nat)
         /\ From(b \o t, Ready(b \o t) + 1) \in Seq(Nat)
         /\ Len(p) <= Len(Sends(p, b \o t))
<1> DEFINE c == b \o t
           n == Ready(c)
           e == SubSeq(c, 1, n)
           r == From(c, n + 1)
<1>1. /\ c \in Seq(Nat) /\ Len(c) = Len(b) + Len(t) /\ Len(b) \in Nat /\ Len(t) \in Nat
      /\ \A i \in 1..Len(b) + Len(t) : c[i] = IF i <= Len(b) THEN b[i] ELSE t[i - Len(b)]
  BY ConcatProperties
<1>2. /\ Joined(p) \in Seq(Nat) /\ w = Joined(p) \o b /\ Spaces(b) = {} /\ AtSpaces(p, w)
      /\ Len(p) \in Nat
  BY JoinedType DEF Feeds
<1>3. w \in Seq(Nat) /\ w \o t \in Seq(Nat) /\ w \o t = Joined(p) \o c
  <2>1. w \in Seq(Nat)
    BY <1>2, ConcatProperties
  <2>2. (Joined(p) \o b) \o t = Joined(p) \o (b \o t)
    <3>1. Joined(p) \in Seq(Nat) /\ b \in Seq(Nat) /\ t \in Seq(Nat)
      BY <1>2
    <3> QED
      BY ONLY <3>1, Regroup
  <2> QED
    BY <1>2, <2>1, <2>2, ConcatProperties
<1>4. AtSpaces(p, w \o t)
  BY <1>2, <1>3, AtSpacesMore
<1>b. b # <<>> => Len(b) # 0 /\ b[1] # 0
  <2>1. b # <<>> => Len(b) # 0 /\ 1 \in 1..Len(b)
    BY EmptySeq
  <2>2. 1 \in 1..Len(b) /\ b[1] = 0 => 1 \in Spaces(b)
    BY DEF Spaces
  <2> QED
    BY <1>2, <2>1, <2>2
<1>e. b = <<>> => Len(b) = 0
  OBVIOUS
<1>f. t = <<>> => Len(t) = 0
  OBVIOUS
<1> HIDE DEF c
<1>5. n \in 0..Len(c) /\ (n # 0 => c[n] = 0) /\ Spaces(r) = {}
  BY <1>1, ReadyIs
<1> HIDE DEF n
<1>6. /\ e \in Seq(Nat) /\ Len(e) = n /\ \A i \in 1..n : e[i] = c[i]
      /\ r \in Seq(Nat) /\ e \o r = c
  BY <1>1, <1>5, Halves
<1>7. Sends(p, c) = IF Strip(e) = <<>> THEN p ELSE Append(p, e)
  BY DEF Sends, n
<1> HIDE DEF e, r
<1>8. Joined(p) \o c = (Joined(p) \o e) \o r
  <2>1. Joined(p) \in Seq(Nat) /\ e \in Seq(Nat) /\ r \in Seq(Nat) /\ e \o r = c
    BY <1>2, <1>6
  <2>2. (Joined(p) \o e) \o r = Joined(p) \o (e \o r)
    BY ONLY <2>1, Regroup
  <2> QED
    BY ONLY <2>1, <2>2
<1>9. CASE n = 0
  <2>1. e = <<>>
    BY <1>6, <1>9, EmptySeq
  <2>2. Strip(e) = <<>>
    <3>1. Spaces(<<>>) = {}
      BY DEF Spaces
    <3> QED
      BY <1>6, <2>1, <3>1, WholeWord
  <2>3. r = c
    BY <1>6, <2>1, ConcatEmptySeq
  <2> QED
    <3>1. Sends(p, c) = p
      BY <1>7, <2>2
    <3>2. Feeds(p, r, w \o t)
      BY <1>3, <1>4, <1>5, <2>3 DEF Feeds
    <3> QED
      BY <1>2, <1>3, <1>6, <3>1, <3>2 DEF c, n, r
<1>10. CASE n # 0
  <2>1. n \in 1..Len(c) /\ 1 \in 1..n /\ n \in 1..n /\ 1 \in 1..Len(c)
    BY <1>1, <1>5, <1>10
  <2>2. c[1] # 0
    <3>1. CASE b # <<>>
      BY <1>1, <1>b, <2>1, <3>1
    <3>2. CASE b = <<>>
      <4>1. Len(t) # 0
        BY <1>1, <1>e, <2>1, <3>2
      <4>2. c[1] = t[1]
        BY <1>1, <1>e, <2>1, <3>2
      <4> QED
        BY <1>f, <3>2, <4>1, <4>2
    <3> QED
      BY <3>1, <3>2
  <2>3. e # <<>> /\ e[Len(e)] = 0 /\ e[1] # 0
    BY <1>5, <1>6, <1>10, <2>1, <2>2
  <2>4. Strip(e) # <<>>
    <3>1. 1 \in Letters(e)
      BY <1>6, <2>1, <2>3 DEF Letters, Spaces
    <3> QED
      BY <1>6, <3>1, StripIs
  <2>5. Sends(p, c) = Append(p, e)
    BY <1>7, <2>4
  <2>6. AtSpaces(Append(p, e), w \o t)
    BY <1>3, <1>4, <1>6, <1>8, <2>3, AtSpacesAppend
  <2>7. Joined(Append(p, e)) \o r = w \o t
    BY <1>3, <1>6, <1>8, JoinedAppend
  <2>8. Append(p, e) \in Seq(Seq(Nat)) /\ Len(p) <= Len(Append(p, e))
    <3>1. Append(p, e) \in Seq(Seq(Nat)) /\ Len(Append(p, e)) = Len(p) + 1
      BY <1>6, EndAtAppend
    <3> QED
      BY <1>2, <3>1
  <2> QED
    BY <1>3, <1>5, <1>6, <2>5, <2>6, <2>7, <2>8 DEF Feeds, c, n, r
<1> QED
  BY <1>9, <1>10
-----------------------------------------------------------------------------
(* The invariant *)

\* The pump runs for a reply, a translation or a greeting somebody listens to,
\* or turned away from.
Pumping ==
    /\ mode = "browser" => pumping = "over"
    /\ voice \notin {"listen", "gone"} => pumping = "over"
    /\ voice \in {"collected", "fallback"} => mode = "greeting"

\* What is sent is a beginning of what was written, and its pieces are whole.
Spoken ==
    /\ \E t \in Seq(Nat) : written = Joined(fed) \o t
    /\ WholeIn(fed, written)
    /\ pumping \in {"run", "tail"} => Feeds(fed, buffer, written)

\* What was written and what is left of the text are a filler, or none, and the
\* text.
Sourced ==
    /\ gen = "context" => written = <<>> /\ rest = text /\ mode # "greeting"
    /\ mode # "translated" => fragment = <<>>
    /\ mode = "reply" \/ (mode = "greeting" /\ pumping = "run") =>
          \E f \in Fillers \cup {<<>>} : written \o rest = f \o text

\* A turn is recorded at its end, and without a fault there is no other end.
Recorded ==
    /\ recorded =>
          gen = "over" /\ rest = <<>> /\ fragment = <<>> /\ mode \in {"reply", "translated"}
    /\ faults = 0 /\ mode \in {"reply", "translated"} =>
          /\ pumping # "over" => socket = "open"
          /\ pumping \in {"tail", "finish"} => recorded
          /\ pumping = "finish" \/ socket = "flush" => recorded /\ Joined(fed) = written
          /\ socket = "flush" => pumping = "over"
          /\ ended /\ voice = "listen" => socket = "flush" /\ queued = Len(fed)
          /\ voice = "done" => recorded /\ Joined(fed) = written /\ heard = Len(fed)

Ordered == played \in {<<>>, <<0>>, [p \in 1..Pieces |-> p]}

\* Without a fault a greeting is collected whole, and kept whole.
Kept ==
    faults = 0 =>
        /\ \A t \in Texts : cache[t] \in {<<>>, t}
        /\ mode = "greeting" =>
              /\ pumping # "over" => socket = "open"
              /\ pumping = "run" => written \o rest = text
              /\ pumping = "tail" => written = text
              /\ pumping = "finish" \/ socket = "flush" => Joined(fed) = text
              /\ socket = "flush" => pumping = "over"
              /\ ended /\ voice = "listen" => socket = "flush" /\ queued = Len(fed)
              /\ voice = "collected" => Joined(fed) = text /\ heard = Len(fed)
              /\ voice # "listen" => socket = "down"

SpeechInv ==
    SpeechTypeOK /\ Pumping /\ Spoken /\ Sourced /\ Recorded /\ Ordered /\ Kept

-----------------------------------------------------------------------------
(* What the pump is given *)

LEMMA TextStarts ==
  ASSUME NEW t \in Texts
  PROVE  t \in Seq(Nat) /\ t # <<>> /\ t[1] # 0 /\ Spaced(t) /\ ~Glued(t)
BY SynthesisAssumption, TextAssumption DEF Spaced

LEMMA FillerIs ==
  ASSUME NEW f \in Fillers
  PROVE  /\ f \in Seq(Nat) /\ f # <<>> /\ f[1] # 0 /\ f[Len(f)] = 0
         /\ Spaced(f) /\ ~Glued(f)
BY SynthesisAssumption, TextAssumption DEF Spaced

\* A filler and the reply after it read as one.
LEMMA FillerThenText ==
  ASSUME NEW f \in Fillers \cup {<<>>}, NEW t \in Texts
  PROVE  f \o t \in Seq(Nat) /\ Spaced(f \o t) /\ ~Glued(f \o t)
<1>1. t \in Seq(Nat) /\ t # <<>> /\ t[1] # 0 /\ Spaced(t) /\ ~Glued(t) /\ Len(t) \in Nat
  BY TextStarts
<1>2. CASE f = <<>>
  <2>1. <<>> \o t = t
    BY <1>1, ConcatEmptySeq
  <2> QED
    BY <1>1, <1>2, <2>1
<1>3. CASE f \in Fillers
  <2>1. /\ f \in Seq(Nat) /\ f # <<>> /\ f[1] # 0 /\ f[Len(f)] = 0
        /\ Spaced(f) /\ ~Glued(f) /\ Len(f) \in Nat \ {0}
    BY <1>3, FillerIs, EmptySeq
  <2> DEFINE s == f \o t
  <2>2. /\ s \in Seq(Nat) /\ Len(s) = Len(f) + Len(t)
        /\ \A i \in 1..Len(f) + Len(t) : s[i] = IF i <= Len(f) THEN f[i] ELSE t[i - Len(f)]
    BY <1>1, <2>1, ConcatProperties
  <2> HIDE DEF s
  <2>3. s[1] # 0
    <3>1. 1 \in 1..Len(f) + Len(t) /\ 1 <= Len(f)
      BY <1>1, <2>1
    <3> QED
      BY <2>1, <2>2, <3>1
  <2>4. ASSUME NEW i \in 1..Len(s) - 1
        PROVE  /\ 0 \in {s[i], s[i + 1]} => s[i] # s[i + 1]
               /\ ~(s[i] # s[i + 1] /\ 0 \notin {s[i], s[i + 1]})
    <3>i. /\ i \in 1..Len(f) + Len(t) /\ i + 1 \in 1..Len(f) + Len(t) /\ i \in Nat
          /\ Len(f) \in Nat /\ Len(t) \in Nat
      BY <1>1, <2>1, <2>2
    <3>1. CASE i < Len(f)
      <4>1. s[i] = f[i] /\ s[i + 1] = f[i + 1] /\ i \in 1..Len(f) - 1
        BY <2>2, <3>i, <3>1
      <4> QED
        BY <2>1, <4>1 DEF Spaced, Glued
    <3>2. CASE i = Len(f)
      <4>1. (i + 1) - Len(f) = 1 /\ ~ i + 1 <= Len(f) /\ i <= Len(f)
        BY <3>i, <3>2
      <4>2. s[i] = 0 /\ s[i + 1] = t[1]
        BY <2>1, <2>2, <3>i, <3>2, <4>1
      <4> QED
        BY <1>1, <4>2
    <3>3. CASE i > Len(f)
      <4> DEFINE k == i - Len(f)
      <4>1. /\ k \in 1..Len(t) - 1 /\ (i + 1) - Len(f) = k + 1
            /\ ~ i + 1 <= Len(f) /\ ~ i <= Len(f)
        BY <1>1, <2>1, <2>2, <3>i, <3>3
      <4>2. s[i] = t[k] /\ s[i + 1] = t[k + 1]
        BY <2>2, <3>i, <4>1
      <4> HIDE DEF k
      <4> QED
        BY <1>1, <4>1, <4>2 DEF Spaced, Glued
    <3> QED
      BY <3>i, <3>1, <3>2, <3>3
  <2> QED
    BY <2>2, <2>3, <2>4 DEF Spaced, Glued, s
<1> QED
  BY <1>2, <1>3

LEMMA BeginningGlued ==
  ASSUME NEW w \in Seq(Nat), NEW r \in Seq(Nat), ~Glued(w \o r)
  PROVE  ~Glued(w)
<1>1. /\ Len(w \o r) = Len(w) + Len(r) /\ Len(w) \in Nat /\ Len(r) \in Nat
      /\ \A i \in 1..Len(w) + Len(r) : (w \o r)[i] = IF i <= Len(w) THEN w[i] ELSE r[i - Len(w)]
  BY ConcatProperties
<1>2. ASSUME NEW i \in 1..Len(w) - 1
      PROVE  i \in 1..Len(w \o r) - 1 /\ (w \o r)[i] = w[i] /\ (w \o r)[i + 1] = w[i + 1]
  <2>1. /\ i \in 1..Len(w) + Len(r) /\ i + 1 \in 1..Len(w) + Len(r)
        /\ i <= Len(w) /\ i + 1 <= Len(w) /\ i \in 1..(Len(w) + Len(r)) - 1
    BY <1>1
  <2> QED
    BY <1>1, <2>1
<1> QED
  BY <1>2 DEF Glued

\* A text that is synthesised at once is one piece.
LEMMA OnePiece ==
  ASSUME NEW c \in Seq(Nat), c # <<>>
  PROVE  WholeIn(<<c>>, c) /\ c = Joined(<<c>>) \o <<>>
<1>1. <<>> \in Seq(Seq(Nat)) /\ Append(<<>>, c) = <<c>> /\ Len(<<>>) = 0 /\ 1..0 = {}
  OBVIOUS
<1>2. c = Joined(<<>>) \o c
  BY JoinedEmpty, ConcatEmptySeq
<1>3. AtSpaces(<<>>, c)
  BY <1>1 DEF AtSpaces
<1>4. WholeIn(Append(<<>>, c), c)
  BY ONLY <1>1, <1>2, <1>3, c \in Seq(Nat), c # <<>>, WholeAppend
<1>5. c = c \o <<>>
  BY ConcatEmptySeq
<1> QED
  BY <1>1, <1>4, <1>5, JoinedOne

LEMMA NoPiece == Feeds(<<>>, <<>>, <<>>)
<1>1. /\ <<>> \in Seq(Nat) /\ Len(<<>>) = 0 /\ 1..0 = {} /\ <<>> \in Seq(Seq(Nat))
      /\ Spaces(<<>>) = {}
  BY DEF Spaces
<1>2. <<>> = Joined(<<>>) \o <<>>
  BY JoinedEmpty, <1>1, ConcatEmptySeq
<1> QED
  BY <1>1, <1>2 DEF Feeds, AtSpaces

LEMMA FeedsSpoken ==
  ASSUME NEW p, NEW b \in Seq(Nat), NEW w, Feeds(p, b, w)
  PROVE  (\E t \in Seq(Nat) : w = Joined(p) \o t) /\ WholeIn(p, w)
BY AtSpacesWhole DEF Feeds

LEMMA Types ==
  ASSUME SpeechTypeOK
  PROVE  /\ rest \in Seq(Nat) /\ fragment \in Seq(Nat) /\ buffer \in Seq(Nat)
         /\ written \in Seq(Nat) /\ fed \in Seq(Seq(Nat)) /\ text \in Texts /\ text \in Seq(Nat)
         /\ Len(fed) \in Nat /\ heard \in Nat /\ queued \in Nat
         /\ heard <= queued /\ queued <= Len(fed)
         /\ faults \in 0..MaxFaults /\ MaxFaults \in Nat
BY SynthesisAssumption DEF SpeechTypeOK

\* The model's next token goes on after a space, or begins the text.
LEMMA TokenStarts ==
  ASSUME SpeechInv, pumping = "run", mode \in {"reply", "greeting"}, rest # <<>>, buffer = <<>>
  PROVE  rest[1] # 0
<1>t. /\ rest \in Seq(Nat) /\ written \in Seq(Nat) /\ fed \in Seq(Seq(Nat))
      /\ Len(fed) \in Nat /\ text \in Texts
  BY Types DEF SpeechInv
<1>1. PICK f \in Fillers \cup {<<>>} : written \o rest = f \o text
  BY DEF SpeechInv, Sourced
<1> DEFINE s == f \o text
<1>2. s \in Seq(Nat) /\ Spaced(s) /\ s = written \o rest
  BY <1>1, <1>t, FillerThenText
<1> HIDE DEF s
<1>3. /\ Len(s) = Len(written) + Len(rest) /\ Len(written) \in Nat /\ Len(rest) \in Nat \ {0}
      /\ \A i \in 1..Len(written) + Len(rest) :
            s[i] = IF i <= Len(written) THEN written[i] ELSE rest[i - Len(written)]
  BY <1>2, <1>t, ConcatProperties, EmptySeq
<1>4. Feeds(fed, <<>>, written)
  BY DEF SpeechInv, Spoken
<1>5. written = Joined(fed) /\ AtSpaces(fed, written)
  <2>1. Joined(fed) \in Seq(Nat)
    BY <1>t, JoinedType
  <2> QED
    BY <1>4, <2>1, ConcatEmptySeq DEF Feeds
<1>6. s[Len(written) + 1] = rest[1]
  <2>1. /\ Len(written) + 1 \in 1..Len(written) + Len(rest) /\ ~ Len(written) + 1 <= Len(written)
        /\ (Len(written) + 1) - Len(written) = 1
    BY <1>3
  <2> QED
    BY <1>3, <2>1
<1>7. CASE fed = <<>>
  <2>1. Len(written) = 0
    BY <1>5, <1>7, JoinedEmpty
  <2> QED
    BY <1>2, <1>6, <2>1 DEF Spaced
<1>8. CASE fed # <<>>
  <2>1. Len(fed) \in 1..Len(fed)
    BY <1>t, <1>8, EmptySeq
  <2>2. EndAt(fed, Len(fed)) = Len(written)
    BY <1>5, <1>t, JoinedType
  <2>3. Len(written) \in 1..Len(written) /\ written[Len(written)] = 0
    BY <1>5, <2>1, <2>2 DEF AtSpaces
  <2>4. /\ s[Len(written)] = 0 /\ Len(written) \in 1..Len(s) - 1
    BY <1>3, <2>3
  <2> QED
    BY <1>2, <1>6, <2>4 DEF Spaced
<1> QED
  BY <1>7, <1>8

\* The steps that give something to the pump.
LEMMA PumpedFeeds ==
  ASSUME SpeechInv, pumping = "run", NEW t \in Seq(Nat), t = <<>> \/ buffer # <<>> \/ t[1] # 0,
         Pumped(t)
  PROVE  /\ Feeds(fed', buffer', written') /\ written' = written \o t
         /\ fed' \in Seq(Seq(Nat)) /\ buffer' \in Seq(Nat) /\ written' \in Seq(Nat)
         /\ Len(fed) <= Len(fed')
<1>1. Feeds(fed, buffer, written) /\ fed \in Seq(Seq(Nat)) /\ buffer \in Seq(Nat)
  BY Types DEF SpeechInv, Spoken
<1>2. /\ written' = written \o t /\ fed' = Sends(fed, buffer \o t)
      /\ buffer' = From(buffer \o t, Ready(buffer \o t) + 1)
  BY DEF Pumped, Sends
<1>3. /\ Feeds(Sends(fed, buffer \o t), From(buffer \o t, Ready(buffer \o t) + 1), written \o t)
      /\ Sends(fed, buffer \o t) \in Seq(Seq(Nat)) /\ written \o t \in Seq(Nat)
      /\ From(buffer \o t, Ready(buffer \o t) + 1) \in Seq(Nat)
      /\ Len(fed) <= Len(Sends(fed, buffer \o t))
  BY ONLY <1>1, t \in Seq(Nat), t = <<>> \/ buffer # <<>> \/ t[1] # 0, PumpFeeds
<1> QED
  BY ONLY <1>2, <1>3

LEMMA Feeding ==
  ASSUME SpeechInv, BuildContext \/ Token \/ Fragment
  PROVE  /\ Feeds(fed', buffer', written')
         /\ fed' \in Seq(Seq(Nat)) /\ buffer' \in Seq(Nat) /\ written' \in Seq(Nat)
         /\ Len(fed) <= Len(fed')
         /\ rest' \in Seq(Nat) /\ fragment' \in Seq(Nat)
         /\ pumping = "run" /\ socket = "open" /\ gen \in {"context", "tokens"}
         /\ gen' \in {"retrieval", "tokens"}
         /\ UNCHANGED <<mode, text, recorded, pumping, socket, audio, keep, page, faults>>
<1>t. /\ rest \in Seq(Nat) /\ fragment \in Seq(Nat) /\ buffer \in Seq(Nat)
      /\ written \in Seq(Nat) /\ fed \in Seq(Seq(Nat)) /\ Len(fed) \in Nat
  BY Types DEF SpeechInv
<1>f. pumping = "run" => Feeds(fed, buffer, written)
  BY DEF SpeechInv, Spoken
<1>same. ASSUME UNCHANGED <<fed, buffer, written>>, pumping = "run"
         PROVE  /\ Feeds(fed', buffer', written')
                /\ fed' \in Seq(Seq(Nat)) /\ buffer' \in Seq(Nat) /\ written' \in Seq(Nat)
                /\ Len(fed) <= Len(fed')
  BY <1>t, <1>f, <1>same
<1>1. CASE BuildContext
  <2>1. /\ pumping = "run" /\ socket = "open" /\ gen = "context" /\ gen' \in {"retrieval", "tokens"}
        /\ UNCHANGED <<rest, fragment>>
        /\ UNCHANGED <<mode, text, recorded, pumping, socket, audio, keep, page, faults>>
    BY <1>1 DEF BuildContext
  <2>2. UNCHANGED <<fed, buffer, written>> \/ \E f \in Fillers : Pumped(f)
    BY <1>1 DEF BuildContext
  <2>3. ASSUME NEW f \in Fillers, Pumped(f)
        PROVE  /\ Feeds(fed', buffer', written')
               /\ fed' \in Seq(Seq(Nat)) /\ buffer' \in Seq(Nat) /\ written' \in Seq(Nat)
               /\ Len(fed) <= Len(fed')
    <3>1. f \in Seq(Nat) /\ f[1] # 0
      BY FillerIs
    <3> QED
      BY <2>1, <2>3, <3>1, PumpedFeeds
  <2> QED
    BY <1>t, <2>1, <2>2, <2>3, <1>same
<1>2. CASE Token
  <2>1. PICK n \in 1..Len(rest) :
           /\ pumping = "run" /\ socket = "open" /\ gen = "tokens" /\ gen' = gen
           /\ rest' = From(rest, n + 1)
           /\ IF mode = "translated"
              THEN /\ fragment' = fragment \o SubSeq(rest, 1, n)
                   /\ UNCHANGED <<buffer, fed, written>>
              ELSE Pumped(SubSeq(rest, 1, n)) /\ UNCHANGED fragment
           /\ UNCHANGED <<mode, text, recorded, pumping, socket, audio, keep, page, faults>>
    BY <1>2 DEF Token
  <2>2. n \in 0..Len(rest) /\ n # 0 /\ 1 \in 1..n /\ rest # <<>>
    BY <1>t
  <2>3. /\ SubSeq(rest, 1, n) \in Seq(Nat) /\ SubSeq(rest, 1, n)[1] = rest[1]
        /\ From(rest, n + 1) \in Seq(Nat)
    BY <1>t, <2>2, Halves
  <2>4. rest' \in Seq(Nat) /\ fragment' \in Seq(Nat)
    <3>1. fragment \o SubSeq(rest, 1, n) \in Seq(Nat)
      BY <1>t, <2>3, ConcatProperties
    <3> QED
      BY <1>t, <2>1, <2>3, <3>1
  <2>5. CASE mode = "translated"
    <3>1. UNCHANGED <<fed, buffer, written>>
      BY <2>1, <2>5
    <3> QED
      BY <2>1, <2>4, <3>1, <1>same
  <2>6. CASE mode # "translated"
    <3>1. mode \in {"reply", "greeting"}
      BY <2>1, <2>6 DEF SpeechInv, SpeechTypeOK, Modes, Pumping
    <3>2. buffer # <<>> \/ SubSeq(rest, 1, n)[1] # 0
      BY <2>1, <2>2, <2>3, <3>1, TokenStarts
    <3>3. Pumped(SubSeq(rest, 1, n))
      BY <2>1, <2>6
    <3>4. /\ Feeds(fed', buffer', written')
          /\ fed' \in Seq(Seq(Nat)) /\ buffer' \in Seq(Nat) /\ written' \in Seq(Nat)
          /\ Len(fed) <= Len(fed')
      BY <2>1, <2>3, <3>2, <3>3, PumpedFeeds
    <3> QED
      BY <2>1, <2>4, <3>4
  <2> QED
    BY <2>5, <2>6
<1>3. CASE Fragment
  <2> DEFINE n == IF Cut(fragment) # 0 THEN Cut(fragment) ELSE Len(fragment)
             left == From(fragment, n + 1)
  <2>1. /\ pumping = "run" /\ socket = "open" /\ gen = "tokens"
        /\ Pumped(Strip(SubSeq(fragment, 1, n)))
        /\ fragment' = IF Letters(left) = {} THEN <<>> ELSE From(left, Min(Letters(left)))
        /\ UNCHANGED <<rest, gen>>
        /\ UNCHANGED <<mode, text, recorded, pumping, socket, audio, keep, page, faults>>
    BY <1>3 DEF Fragment
  <2>2. n \in 0..Len(fragment)
    BY <1>t, CutIs
  <2> HIDE DEF n
  <2>3. left \in Seq(Nat) /\ SubSeq(fragment, 1, n) \in Seq(Nat)
    BY <1>t, <2>2, Halves
  <2> HIDE DEF left
  <2>4. fragment' \in Seq(Nat)
    <3>1. CASE Letters(left) = {}
      BY <2>1, <3>1
    <3>2. CASE Letters(left) # {}
      <4>1. Min(Letters(left)) \in 1..Len(left)
        BY <3>2, MinIs DEF Letters
      <4>2. /\ Min(Letters(left)) - 1 \in 0..Len(left)
            /\ (Min(Letters(left)) - 1) + 1 = Min(Letters(left))
        BY <2>3, <4>1
      <4>3. From(left, (Min(Letters(left)) - 1) + 1) \in Seq(Nat)
        BY ONLY <2>3, <4>2, Halves
      <4> QED
        BY <2>1, <3>2, <4>2, <4>3
    <3> QED
      BY <3>1, <3>2
  <2>5. /\ Feeds(fed', buffer', written')
        /\ fed' \in Seq(Seq(Nat)) /\ buffer' \in Seq(Nat) /\ written' \in Seq(Nat)
        /\ Len(fed) <= Len(fed')
    BY <2>1, <2>3, StripIs, PumpedFeeds
  <2> QED
    BY <1>t, <2>1, <2>4, <2>5
<1> QED
  BY <1>1, <1>2, <1>3
-----------------------------------------------------------------------------
(* The types *)

LEMMA SpeechInitially == SpeechInit => SpeechInv
<1> SUFFICES ASSUME SpeechInit PROVE SpeechInv
  OBVIOUS
<1>1. /\ <<>> \in Seq(Nat) /\ <<>> \in Seq(Seq(Nat)) /\ Len(<<>>) = 0 /\ 0 \in 0..0
      /\ 0 \in 0..MaxFaults /\ text \in Texts /\ text \in Seq(Nat)
  BY SynthesisAssumption DEF SpeechInit
<1>2. SpeechTypeOK
  <2>1. /\ mode \in Modes /\ text \in Texts /\ rest \in Seq(Nat)
        /\ fragment \in Seq(Nat) /\ buffer \in Seq(Nat) /\ written \in Seq(Nat)
        /\ fed \in Seq(Seq(Nat)) /\ heard \in 0..Len(fed) /\ queued \in heard..Len(fed)
    BY <1>1 DEF SpeechInit
  <2>2. /\ gen \in {"context", "retrieval", "tokens", "over"}
        /\ pumping \in {"run", "tail", "finish", "over"} /\ socket \in {"open", "flush", "down"}
        /\ voice \in {"listen", "collected", "fallback", "done", "gone", "failed"}
        /\ ended \in BOOLEAN /\ recorded \in BOOLEAN /\ calls \in {0, 1}
        /\ faults \in 0..MaxFaults
    BY <1>1 DEF SpeechInit
  <2>3. cache \in [Texts -> Seq(Nat)]
    BY <1>1 DEF SpeechInit
  <2>4. part \in [1..Pieces -> {"asked", "audio", "empty", "raised"}]
    BY DEF SpeechInit
  <2> QED
    BY <2>1, <2>2, <2>3, <2>4 DEF SpeechTypeOK
<1>3. Feeds(fed, buffer, written) /\ written = <<>> /\ rest = text
  BY NoPiece DEF SpeechInit
<1>4. Spoken
  <2>1. buffer \in Seq(Nat)
    BY <1>2, Types
  <2>2. (\E t \in Seq(Nat) : written = Joined(fed) \o t) /\ WholeIn(fed, written)
    BY ONLY <1>3, <2>1, FeedsSpoken
  <2> QED
    BY <1>3, <2>2 DEF Spoken
<1>5. Pumping /\ Ordered
  BY DEF SpeechInit, Pumping, Ordered, Phone
<1>6. Sourced
  <2>1. \E f \in Fillers \cup {<<>>} : written \o rest = f \o text
    BY <1>3
  <2> QED
    BY <1>3, <2>1 DEF SpeechInit, Sourced
<1>7. Recorded
  BY DEF SpeechInit, Recorded, Phone
<1>8. Kept
  <2>1. written \o rest = text
    BY <1>1, <1>3, ConcatEmptySeq
  <2>2. \A t \in Texts : cache[t] \in {<<>>, t}
    BY DEF SpeechInit
  <2>3. /\ socket \in {"open", "down"} /\ pumping \in {"run", "over"} /\ ended = FALSE
        /\ voice = "listen" /\ (mode = "greeting" => pumping = "run" /\ socket = "open")
    BY DEF SpeechInit, Phone
  <2> QED
    BY ONLY <2>1, <2>2, <2>3 DEF Kept
<1> QED
  BY <1>2, <1>4, <1>5, <1>6, <1>7, <1>8 DEF SpeechInv

LEMMA SpeechTypeStep ==
  ASSUME SpeechInv, SpeechNext
  PROVE  SpeechTypeOK'
<1>t. /\ mode \in Modes /\ text \in Texts
      /\ rest \in Seq(Nat) /\ fragment \in Seq(Nat) /\ buffer \in Seq(Nat) /\ written \in Seq(Nat)
      /\ gen \in {"context", "retrieval", "tokens", "over"}
      /\ pumping \in {"run", "tail", "finish", "over"} /\ socket \in {"open", "flush", "down"}
      /\ voice \in {"listen", "collected", "fallback", "done", "gone", "failed"}
      /\ ended \in BOOLEAN /\ recorded \in BOOLEAN /\ calls \in {0, 1}
      /\ cache \in [Texts -> Seq(Nat)]
      /\ part \in [1..Pieces -> {"asked", "audio", "empty", "raised"}]
  BY DEF SpeechInv, SpeechTypeOK
<1>n. /\ fed \in Seq(Seq(Nat)) /\ text \in Seq(Nat) /\ Len(fed) \in Nat /\ heard \in Nat
      /\ queued \in Nat /\ heard <= queued /\ queued <= Len(fed)
      /\ faults \in 0..MaxFaults /\ MaxFaults \in Nat
  BY Types DEF SpeechInv
<1>e. <<>> \in Seq(Nat) /\ <<>> \in Seq(Seq(Nat)) /\ Len(<<>>) = 0 /\ 0 \in 0..0
  OBVIOUS
<1>f. Fails \/ UNCHANGED faults => faults' \in 0..MaxFaults
  BY <1>n DEF Fails
<1>audio. ASSUME UNCHANGED <<mode, text, rest, gen, fragment, recorded>>, UNCHANGED keep,
                 UNCHANGED <<part, fed, written, buffer, pumping>>,
                 queued' \in heard'..Len(fed), heard' \in 0..Len(fed), ended' \in BOOLEAN,
                 voice' \in {"listen", "collected", "fallback", "done", "gone", "failed"},
                 socket' \in {"open", "flush", "down"}, faults' \in 0..MaxFaults
          PROVE  SpeechTypeOK'
  BY <1>t, <1>n, <1>audio DEF SpeechTypeOK, keep
<1>1. CASE BuildContext \/ Token \/ Fragment
  <2>1. queued' \in heard'..Len(fed') /\ heard' \in 0..Len(fed')
    <3>1. /\ fed' \in Seq(Seq(Nat)) /\ Len(fed) <= Len(fed') /\ UNCHANGED audio
      BY <1>1, Feeding
    <3>2. Len(fed') \in Nat
      BY <3>1
    <3> QED
      BY <1>n, <3>1, <3>2 DEF audio
  <2>2. /\ fed' \in Seq(Seq(Nat)) /\ buffer' \in Seq(Nat) /\ written' \in Seq(Nat)
        /\ rest' \in Seq(Nat) /\ fragment' \in Seq(Nat)
        /\ gen' \in {"retrieval", "tokens"}
        /\ UNCHANGED <<mode, text, recorded, pumping, socket, audio, keep, page, faults>>
    BY <1>1, Feeding
  <2> QED
    BY <1>t, <1>n, <2>1, <2>2 DEF SpeechTypeOK, audio, keep, page
<1>2. CASE ContextReady \/ Record \/ Finish
  <2>1. CASE ContextReady
    BY <1>t, <1>n, <2>1 DEF ContextReady, SpeechTypeOK, feeder, audio, keep, page
  <2>2. CASE Record
    BY <1>t, <1>n, <2>2 DEF Record, SpeechTypeOK, audio, keep, page
  <2>3. CASE Finish
    BY <1>t, <1>n, <2>3 DEF Finish, SpeechTypeOK, source, audio, keep, page
  <2> QED
    BY <1>2, <2>1, <2>2, <2>3
<1>3. CASE GenerationFails
  <2>1. faults' \in 0..MaxFaults
    BY <1>f, <1>3 DEF GenerationFails
  <2> QED
    BY <1>t, <1>n, <1>3, <2>1 DEF GenerationFails, SpeechTypeOK, audio, keep, page
<1>4. CASE LastWord
  <2>1. fed' \in {fed, Append(fed, buffer)} /\ buffer' = <<>>
    BY <1>4 DEF LastWord
  <2>2. fed' \in Seq(Seq(Nat)) /\ Len(fed) <= Len(fed') /\ Len(fed') \in Nat
    <3>1. CASE fed' = fed
      BY <1>n, <3>1
    <3>2. CASE fed' = Append(fed, buffer)
      <4>1. Append(fed, buffer) \in Seq(Seq(Nat)) /\ Len(Append(fed, buffer)) = Len(fed) + 1
        BY <1>t, <1>n, EndAtAppend
      <4> QED
        BY <1>n, <3>2, <4>1
    <3> QED
      BY <2>1, <3>1, <3>2
  <2>3. queued' \in heard'..Len(fed') /\ heard' \in 0..Len(fed')
    BY <1>n, <1>4, <2>2 DEF LastWord, audio
  <2> QED
    BY <1>t, <1>n, <1>e, <1>4, <2>1, <2>2, <2>3 DEF LastWord, SpeechTypeOK, source, audio, keep,
       page
<1>5. CASE Render
  <2>1. queued' = queued + 1 /\ queued < Len(fed) /\ heard' = heard
    BY <1>5 DEF Render
  <2>2. queued' \in heard'..Len(fed) /\ heard' \in 0..Len(fed)
    BY <1>n, <2>1
  <2> QED
    BY <1>t, <1>n, <1>5, <2>2, <1>audio DEF Render, source, feeder, page
<1>6. CASE Flushed \/ Interrupt
  <2>1. queued' \in heard'..Len(fed) /\ heard' \in 0..Len(fed)
    BY <1>n, <1>6 DEF Flushed, Interrupt
  <2> QED
    BY <1>t, <1>n, <1>6, <2>1, <1>audio DEF Flushed, Interrupt, source, feeder, page
<1>7. CASE SocketDrops
  <2>1. queued' \in heard'..Len(fed) /\ heard' \in 0..Len(fed)
    BY <1>n, <1>7 DEF SocketDrops
  <2>2. faults' \in 0..MaxFaults
    BY <1>f, <1>7 DEF SocketDrops
  <2> QED
    BY <1>t, <1>n, <1>7, <2>1, <2>2, <1>audio DEF SocketDrops, source, feeder, page
<1>8. CASE Hear
  <2>1. heard' = heard + 1 /\ heard < queued /\ queued' = queued
    BY <1>8 DEF Hear
  <2>2. queued' \in heard'..Len(fed) /\ heard' \in 0..Len(fed)
    BY <1>n, <2>1
  <2> QED
    BY <1>t, <1>n, <1>8, <2>2, <1>audio DEF Hear, source, feeder, page
<1>9. CASE EndOfAudio \/ CloseAbandoned
  BY <1>t, <1>n, <1>9 DEF EndOfAudio, CloseAbandoned, SpeechTypeOK, source, audio, keep, page
<1>10. CASE ConnectFails
  <2>1. faults' \in 0..MaxFaults
    BY <1>f, <1>10 DEF ConnectFails
  <2> QED
    BY <1>t, <1>n, <1>10, <2>1 DEF ConnectFails, SpeechTypeOK, keep, page
<1>11. CASE SendTts
  <2>1. faults' \in 0..MaxFaults
    BY <1>f, <1>11 DEF SendTts, SynthesizeToMulaw
  <2>2. /\ fed' \in Seq(Seq(Nat)) /\ written' \in Seq(Nat)
        /\ queued' \in heard'..Len(fed') /\ heard' \in 0..Len(fed')
        /\ voice' \in {"done", "failed"}
    <3>1. CASE queued' = 1
      <4>1. fed' = <<text>> /\ written' = text /\ heard' = 1 /\ voice' = "done"
        BY <1>11, <3>1 DEF SendTts
      <4>2. <<text>> \in Seq(Seq(Nat)) /\ Len(<<text>>) = 1
        BY <1>n, JoinedOne
      <4> QED
        BY <1>n, <3>1, <4>1, <4>2
    <3>2. CASE queued' # 1
      <4>1. queued' = queued /\ heard' = queued /\ UNCHANGED <<fed, written>> /\ voice' = "failed"
        BY <1>11, <3>2 DEF SendTts, SynthesizeToMulaw
      <4> QED
        BY <1>t, <1>n, <4>1
    <3> QED
      BY <3>1, <3>2
  <2> QED
    BY <1>t, <1>n, <1>11, <2>1, <2>2 DEF SendTts, SpeechTypeOK, source, keep, page
<1>12. CASE CacheGreeting
  <2>1. faults' \in 0..MaxFaults
    BY <1>f, <1>12 DEF CacheGreeting
  <2>2. Joined(SubSeq(fed, 1, heard)) \in Seq(Nat)
    <3>1. 1 \in Int /\ heard \in Int /\ \A i \in 1..heard : fed[i] \in Seq(Nat)
      BY <1>n
    <3>2. SubSeq(fed, 1, heard) \in Seq(Seq(Nat))
      BY ONLY <3>1, SubSeqProperties
    <3> QED
      BY <3>2, JoinedType
  <2>3. cache' \in [Texts -> Seq(Nat)]
    BY <1>t, <1>12, <2>2 DEF CacheGreeting
  <2> QED
    BY <1>t, <1>n, <1>12, <2>1, <2>3 DEF CacheGreeting, SpeechTypeOK, source, feeder, page
<1>13. ASSUME NEW t \in Texts, CacheExpires(t)
       PROVE  SpeechTypeOK'
  <2>1. cache' \in [Texts -> Seq(Nat)]
    BY <1>t, <1>e, <1>13 DEF CacheExpires
  <2> QED
    BY <1>t, <1>n, <1>13, <2>1 DEF CacheExpires, SpeechTypeOK, source, feeder, audio, page
<1>14. CASE NextCall
  <2>1. text' \in Texts /\ text' \in Seq(Nat)
    BY <1>14, TextStarts DEF NextCall, BuildGreeting
  <2>2. CASE cache[text'] # <<>>
    <3> DEFINE c == cache[text']
    <3>1. /\ fed' = <<c>> /\ written' = c /\ queued' = 1 /\ heard' = 1 /\ voice' = "done"
          /\ UNCHANGED <<rest, gen, buffer, pumping, socket, ended>>
      BY <1>14, <2>2 DEF NextCall
    <3>2. c \in Seq(Nat)
      BY <1>t, <2>1
    <3> HIDE DEF c
    <3>3. <<c>> \in Seq(Seq(Nat)) /\ Len(<<c>>) = 1
      BY <3>2, JoinedOne
    <3> QED
      BY <1>t, <1>n, <1>14, <2>1, <3>1, <3>2, <3>3 DEF NextCall, SpeechTypeOK, page
  <2>3. CASE cache[text'] = <<>>
    <3>1. /\ rest' = text' /\ gen' = "tokens" /\ pumping' = "run" /\ socket' = "open"
          /\ buffer' = <<>> /\ fed' = <<>> /\ written' = <<>>
          /\ queued' = 0 /\ ended' = FALSE /\ heard' = 0 /\ voice' = "listen"
      BY <1>14, <2>3 DEF NextCall
    <3> QED
      BY <1>t, <1>n, <1>e, <1>14, <2>1, <3>1 DEF NextCall, SpeechTypeOK, page
  <2> QED
    BY <2>2, <2>3
<1>15. ASSUME NEW p \in 1..Pieces, ClauseAnswered(p)
       PROVE  SpeechTypeOK'
  <2>1. faults' \in 0..MaxFaults
    BY <1>f, <1>15 DEF ClauseAnswered
  <2>2. part' \in [1..Pieces -> {"asked", "audio", "empty", "raised"}]
    BY <1>t, <1>15 DEF ClauseAnswered
  <2> QED
    BY <1>t, <1>n, <1>15, <2>1, <2>2 DEF ClauseAnswered, SpeechTypeOK, source, feeder, audio, keep
<1>16. CASE JoinClauses
  <2>1. faults' \in 0..MaxFaults
    BY <1>f, <1>16 DEF JoinClauses
  <2>2. queued' \in heard'..Len(fed) /\ heard' \in 0..Len(fed)
    BY <1>n, <1>16 DEF JoinClauses
  <2> QED
    BY <1>t, <1>n, <1>16, <2>1, <2>2, <1>audio DEF JoinClauses, source, feeder
<1> QED
  BY <1>1, <1>2, <1>3, <1>4, <1>5, <1>6, <1>7, <1>8, <1>9, <1>10, <1>11, <1>12, <1>13, <1>14,
     <1>15, <1>16 DEF SpeechNext, Tasks

-----------------------------------------------------------------------------
(* What is sent *)

LEMMA StaysSpoken ==
  ASSUME Spoken, UNCHANGED <<fed, written>>,
         pumping' \in {"run", "tail"} => pumping \in {"run", "tail"} /\ UNCHANGED buffer
  PROVE  Spoken'
<1>1. (\E t \in Seq(Nat) : written' = Joined(fed') \o t) /\ WholeIn(fed', written')
  BY DEF Spoken
<1>2. pumping' \in {"run", "tail"} => Feeds(fed', buffer', written')
  BY DEF Spoken
<1> QED
  BY <1>1, <1>2 DEF Spoken

\* The last word is sent too, and all of it is said.
LEMMA LastFeeds ==
  ASSUME NEW p \in Seq(Seq(Nat)), NEW b \in Seq(Nat), NEW w, Feeds(p, b, w)
  PROVE  /\ Strip(b) = <<>> => Joined(p) = w
         /\ Strip(b) # <<>> => Joined(Append(p, b)) = w /\ WholeIn(Append(p, b), w)
<1>1. w = Joined(p) \o b /\ Spaces(b) = {} /\ AtSpaces(p, w)
  BY DEF Feeds
<1>2. Joined(p) \in Seq(Nat)
  BY JoinedType
<1>3. CASE b = <<>>
  <2>1. Strip(b) = <<>>
    BY <1>1, <1>3, WholeWord
  <2> QED
    BY <1>1, <1>2, <1>3, <2>1, ConcatEmptySeq
<1>4. CASE b # <<>>
  <2>1. Strip(b) # <<>>
    BY <1>1, <1>4, WholeWord
  <2>2. WholeIn(Append(p, b), w)
    BY ONLY <1>1, <1>4, p \in Seq(Seq(Nat)), b \in Seq(Nat), WholeAppend
  <2>3. Joined(Append(p, b)) = w
    BY <1>1, JoinedAppend
  <2> QED
    BY <2>1, <2>2, <2>3
<1> QED
  BY <1>3, <1>4

LEMMA SpokenStep ==
  ASSUME SpeechInv, SpeechNext
  PROVE  Spoken'
<1>t. /\ buffer \in Seq(Nat) /\ written \in Seq(Nat) /\ fed \in Seq(Seq(Nat))
      /\ text \in Seq(Nat) /\ text \in Texts /\ Len(fed) \in Nat
  BY Types DEF SpeechInv
<1>s. Spoken /\ Pumping
  BY DEF SpeechInv
<1>e. <<>> \in Seq(Nat)
  OBVIOUS
<1>one. ASSUME NEW c \in Seq(Nat), c # <<>>, fed' = <<c>>, written' = c, pumping' = "over"
        PROVE  Spoken'
  <2>1. WholeIn(fed', written') /\ written' = Joined(fed') \o <<>>
    BY <1>one, OnePiece
  <2> QED
    BY <1>e, <1>one, <2>1 DEF Spoken
<1>1. CASE BuildContext \/ Token \/ Fragment
  <2>1. Feeds(fed', buffer', written') /\ buffer' \in Seq(Nat)
    BY <1>1, Feeding
  <2>2. (\E t \in Seq(Nat) : written' = Joined(fed') \o t) /\ WholeIn(fed', written')
    BY ONLY <2>1, FeedsSpoken
  <2> QED
    BY <2>1, <2>2 DEF Spoken
<1>2. CASE ContextReady \/ Render \/ Flushed \/ SocketDrops \/ Hear \/ Interrupt \/ JoinClauses
           \/ CacheGreeting
  <2>1. UNCHANGED feeder
    BY <1>2 DEF ContextReady, Render, Flushed, SocketDrops, Hear, Interrupt, JoinClauses,
                CacheGreeting
  <2> QED
    BY <1>s, <2>1, StaysSpoken DEF feeder
<1>3. CASE (\E t \in Texts : CacheExpires(t)) \/ (\E p \in 1..Pieces : ClauseAnswered(p))
  <2>1. UNCHANGED feeder
    BY <1>3 DEF CacheExpires, ClauseAnswered
  <2> QED
    BY <1>s, <2>1, StaysSpoken DEF feeder
<1>4. CASE Record
  <2>1. pumping = "run" /\ UNCHANGED <<fed, written, buffer>>
    BY <1>4 DEF Record
  <2> QED
    BY <1>s, <2>1, StaysSpoken
<1>5. CASE GenerationFails \/ Finish \/ EndOfAudio \/ CloseAbandoned \/ ConnectFails
  <2>1. pumping' \in {"finish", "over"} /\ UNCHANGED <<fed, written>>
    BY <1>5 DEF GenerationFails, Finish, EndOfAudio, CloseAbandoned, ConnectFails
  <2> QED
    BY <1>s, <2>1, StaysSpoken
<1>6. CASE LastWord
  <2>1. /\ pumping = "tail" /\ pumping' = "finish" /\ written' = written
        /\ fed' = IF Strip(buffer) # <<>> /\ socket = "open" THEN Append(fed, buffer) ELSE fed
    BY <1>6 DEF LastWord
  <2>2. Feeds(fed, buffer, written)
    BY <1>s, <2>1 DEF Spoken
  <2>3. CASE fed' = fed
    BY <1>s, <2>1, <2>3, StaysSpoken
  <2>4. CASE fed' # fed
    <3>1. fed' = Append(fed, buffer) /\ Strip(buffer) # <<>>
      BY <2>1, <2>4
    <3>2. Joined(fed') = written /\ WholeIn(fed', written)
      BY <1>t, <2>2, <3>1, LastFeeds
    <3>3. written = written \o <<>>
      BY <1>t, ConcatEmptySeq
    <3> QED
      BY <1>e, <2>1, <3>2, <3>3 DEF Spoken
  <2> QED
    BY <2>3, <2>4
<1>7. CASE SendTts
  <2>1. voice = "fallback" /\ pumping' = pumping /\ pumping = "over"
    BY <1>s, <1>7 DEF SendTts, Pumping
  <2>2. CASE queued' = 1
    <3>1. fed' = <<text>> /\ written' = text /\ text # <<>>
      BY <1>7, <1>t, <2>2, TextStarts DEF SendTts
    <3> QED
      BY <1>t, <1>one, <2>1, <3>1
  <2>3. CASE queued' # 1
    <3>1. UNCHANGED <<fed, written>>
      BY <1>7, <2>3 DEF SendTts
    <3> QED
      BY <1>s, <2>1, <3>1, StaysSpoken
  <2> QED
    BY <2>2, <2>3
<1>8. CASE NextCall
  <2>1. text' \in Texts /\ voice \in {"done", "failed"}
    BY <1>8 DEF NextCall, BuildGreeting
  <2>2. CASE cache[text'] # <<>>
    <3>1. /\ fed' = <<cache[text']>> /\ written' = cache[text']
          /\ pumping' = pumping /\ pumping = "over"
      BY <1>s, <1>8, <2>1, <2>2 DEF NextCall, Pumping
    <3>2. cache[text'] \in Seq(Nat)
      BY <2>1 DEF SpeechInv, SpeechTypeOK
    <3> QED
      BY <1>one, <2>2, <3>1, <3>2
  <2>3. CASE cache[text'] = <<>>
    <3>1. fed' = <<>> /\ buffer' = <<>> /\ written' = <<>>
      BY <1>8, <2>3 DEF NextCall
    <3>2. Feeds(fed', buffer', written')
      BY <3>1, NoPiece
    <3>3. (\E t \in Seq(Nat) : written' = Joined(fed') \o t) /\ WholeIn(fed', written')
      BY <1>e, <3>1, NoPiece, FeedsSpoken
    <3> QED
      BY <3>2, <3>3 DEF Spoken
  <2> QED
    BY <2>2, <2>3
<1> QED
  BY <1>1, <1>2, <1>3, <1>4, <1>5, <1>6, <1>7, <1>8 DEF SpeechNext, Tasks

LEMMA PumpingStep ==
  ASSUME SpeechInv, SpeechNext
  PROVE  Pumping'
<1>s. Pumping /\ SpeechTypeOK
  BY DEF SpeechInv
<1>1. CASE BuildContext \/ Token \/ Fragment
  BY <1>s, <1>1, Feeding DEF Pumping, audio
<1>2. CASE ContextReady \/ Render \/ Flushed \/ SocketDrops \/ Hear
  <2>1. UNCHANGED <<mode, pumping, voice>>
    BY <1>2 DEF ContextReady, Render, Flushed, SocketDrops, Hear, source, feeder, audio
  <2> QED
    BY <1>s, <2>1 DEF Pumping
<1>3. CASE (\E t \in Texts : CacheExpires(t)) \/ (\E p \in 1..Pieces : ClauseAnswered(p))
  <2>1. UNCHANGED <<mode, pumping, voice>>
    BY <1>3 DEF CacheExpires, ClauseAnswered, source, feeder, audio
  <2> QED
    BY <1>s, <2>1 DEF Pumping
<1>4. CASE Record \/ LastWord \/ Finish \/ GenerationFails
  <2>1. pumping \in {"run", "tail", "finish"} /\ UNCHANGED <<mode, voice>>
    BY <1>4 DEF Record, LastWord, Finish, GenerationFails, source, audio
  <2> QED
    BY <1>s, <2>1 DEF Pumping
<1>5. CASE EndOfAudio \/ CloseAbandoned \/ ConnectFails
  <2>1. pumping' = "over" /\ mode' = mode
    BY <1>5 DEF EndOfAudio, CloseAbandoned, ConnectFails, source
  <2>2. voice' \in {"collected", "fallback"} => mode = "greeting"
    BY <1>s, <1>5 DEF EndOfAudio, CloseAbandoned, ConnectFails, audio, Pumping
  <2> QED
    BY <2>1, <2>2 DEF Pumping
<1>6. CASE Interrupt \/ JoinClauses
  BY <1>s, <1>6 DEF Interrupt, JoinClauses, Pumping, source, feeder
<1>7. CASE SendTts \/ CacheGreeting
  <2>1. voice \in {"fallback", "collected"} /\ voice' \in {"done", "failed"}
        /\ UNCHANGED <<mode, pumping>>
    BY <1>7 DEF SendTts, CacheGreeting, source, feeder
  <2> QED
    BY <1>s, <2>1 DEF Pumping
<1>8. CASE NextCall
  <2>1. mode = "greeting" /\ mode' = mode /\ voice \in {"done", "failed"}
    BY <1>8 DEF NextCall
  <2>2. (voice' = "done" /\ pumping' = pumping) \/ voice' = "listen"
    BY <1>8 DEF NextCall
  <2> QED
    BY <1>s, <2>1, <2>2 DEF Pumping
<1> QED
  BY <1>1, <1>2, <1>3, <1>4, <1>5, <1>6, <1>7, <1>8 DEF SpeechNext, Tasks

LEMMA OrderedStep ==
  ASSUME SpeechInv, SpeechNext
  PROVE  Ordered'
<1>1. CASE JoinClauses
  BY <1>1 DEF JoinClauses, Ordered
<1>2. CASE ~ JoinClauses
  <2>1. UNCHANGED played
    <3>1. CASE BuildContext \/ Token \/ Fragment
      BY <3>1, Feeding DEF page
    <3>2. CASE ~ (BuildContext \/ Token \/ Fragment)
      BY <1>2, <3>2 DEF SpeechNext, Tasks, ContextReady, Record, LastWord, Finish, Render,
         Flushed, Hear, EndOfAudio, CloseAbandoned, SendTts, CacheGreeting, GenerationFails,
         ClauseAnswered, SocketDrops, Interrupt, ConnectFails, NextCall, CacheExpires, page
    <3> QED
      BY <3>1, <3>2
  <2> QED
    BY <2>1 DEF SpeechInv, Ordered
<1> QED
  BY <1>1, <1>2

-----------------------------------------------------------------------------
(* Where the words come from, and what the transcript says *)

LEMMA StaysSourced ==
  ASSUME Sourced, UNCHANGED <<mode, text, rest, fragment, written>>, gen' \in {gen, "over"},
         pumping' = "run" => pumping = "run"
  PROVE  Sourced'
BY DEF Sourced

\* A token goes from what is left to what was written.
LEMMA TokenMoves ==
  ASSUME SpeechTypeOK, mode # "translated", Token
  PROVE  written' \o rest' = written \o rest
<1>1. rest \in Seq(Nat) /\ written \in Seq(Nat) /\ Len(rest) \in Nat
  BY Types
<1>2. PICK n \in 1..Len(rest) :
         rest' = From(rest, n + 1) /\ written' = written \o SubSeq(rest, 1, n)
  BY DEF Token, Pumped
<1>3. n \in 0..Len(rest)
  BY <1>1
<1>4. /\ SubSeq(rest, 1, n) \in Seq(Nat) /\ From(rest, n + 1) \in Seq(Nat)
      /\ SubSeq(rest, 1, n) \o From(rest, n + 1) = rest
  BY <1>1, <1>3, Halves
<1>5. (written \o SubSeq(rest, 1, n)) \o From(rest, n + 1)
          = written \o (SubSeq(rest, 1, n) \o From(rest, n + 1))
  BY ONLY <1>1, <1>4, Regroup
<1> QED
  BY <1>2, <1>4, <1>5

LEMMA SourcedStep ==
  ASSUME SpeechInv, SpeechNext
  PROVE  Sourced'
<1>t. /\ rest \in Seq(Nat) /\ fragment \in Seq(Nat) /\ written \in Seq(Nat)
      /\ text \in Seq(Nat) /\ Len(rest) \in Nat
  BY Types DEF SpeechInv
<1>s. Sourced /\ Pumping
  BY DEF SpeechInv
<1>1. CASE BuildContext
  <2>1. /\ gen = "context" /\ gen' \in {"tokens", "retrieval"}
        /\ pumping = "run" /\ pumping' = pumping
        /\ UNCHANGED <<mode, text, rest, fragment>>
    BY <1>1 DEF BuildContext
  <2>2. CASE UNCHANGED written
    BY <1>s, <2>1, <2>2 DEF Sourced
  <2>3. CASE written' # written
    <3>1. PICK f \in Fillers : written' = written \o f
      BY <1>1, <2>3 DEF BuildContext, Pumped
    <3>2. written = <<>> /\ rest = text
      BY <1>s, <2>1 DEF Sourced
    <3>3. written' = f
      <4>1. f \in Seq(Nat)
        BY FillerIs
      <4> QED
        BY <3>1, <3>2, <4>1, ConcatEmptySeq
    <3>4. written' \o rest' = f \o text'
      BY <2>1, <3>2, <3>3
    <3>5. mode' # "translated" => fragment' = <<>>
      BY <1>s, <2>1 DEF Sourced
    <3> QED
      BY <2>1, <3>4, <3>5 DEF Sourced
  <2> QED
    BY <2>2, <2>3
<1>2. CASE Token
  <2>1. PICK n \in 1..Len(rest) :
           /\ pumping = "run" /\ gen = "tokens" /\ rest' = From(rest, n + 1)
           /\ IF mode = "translated" THEN UNCHANGED written
              ELSE written' = written \o SubSeq(rest, 1, n) /\ UNCHANGED fragment
           /\ UNCHANGED <<mode, text, gen, pumping>>
    BY <1>2 DEF Token, Pumped
  <2>2. CASE mode = "translated"
    BY <2>1, <2>2 DEF Sourced
  <2>3. CASE mode # "translated"
    <3>1. fragment' = fragment
      BY <2>1, <2>3
    <3>2. written' \o rest' = written \o rest
      BY <1>2, <2>3, TokenMoves DEF SpeechInv
    <3>3. mode' \in {"reply", "greeting"} =>
             \E f \in Fillers \cup {<<>>} : written' \o rest' = f \o text'
      BY <1>s, <2>1, <3>2 DEF Sourced
    <3>4. mode' # "translated" => fragment' = <<>>
      BY <1>s, <2>1, <3>1 DEF Sourced
    <3> QED
      BY <2>1, <3>3, <3>4 DEF Sourced
  <2> QED
    BY <2>2, <2>3
<1>3. CASE Fragment
  <2>1. fragment # <<>> /\ gen = "tokens" /\ gen' = gen /\ mode' = mode
    BY <1>3 DEF Fragment
  <2>2. mode = "translated"
    BY <1>s, <2>1 DEF Sourced
  <2> QED
    BY <2>1, <2>2 DEF Sourced
<1>4. CASE ContextReady
  <2>1. gen' = "tokens" /\ UNCHANGED <<mode, text, rest, fragment, written, pumping>>
    BY <1>4 DEF ContextReady, feeder
  <2> QED
    BY <1>s, <2>1 DEF Sourced
<1>5. CASE Render \/ Flushed \/ SocketDrops \/ Hear \/ Interrupt \/ JoinClauses \/ CacheGreeting
  <2>1. UNCHANGED source /\ UNCHANGED feeder
    BY <1>5 DEF Render, Flushed, SocketDrops, Hear, Interrupt, JoinClauses, CacheGreeting
  <2> QED
    BY <1>s, <2>1, StaysSourced DEF source, feeder
<1>6. CASE (\E t \in Texts : CacheExpires(t)) \/ (\E p \in 1..Pieces : ClauseAnswered(p))
  <2>1. UNCHANGED source /\ UNCHANGED feeder
    BY <1>6 DEF CacheExpires, ClauseAnswered
  <2> QED
    BY <1>s, <2>1, StaysSourced DEF source, feeder
<1>7. CASE Record \/ GenerationFails \/ ConnectFails
  <2>1. /\ gen' = "over" /\ pumping' # "run"
        /\ UNCHANGED <<mode, text, rest, fragment, written>>
    BY <1>7 DEF Record, GenerationFails, ConnectFails
  <2> QED
    BY <1>s, <2>1, StaysSourced
<1>8. CASE LastWord \/ Finish \/ EndOfAudio \/ CloseAbandoned
  <2>1. UNCHANGED source /\ written' = written /\ pumping' # "run"
    BY <1>8 DEF LastWord, Finish, EndOfAudio, CloseAbandoned
  <2> QED
    BY <1>s, <2>1, StaysSourced DEF source
<1>9. CASE SendTts
  <2>1. voice = "fallback" /\ UNCHANGED source /\ pumping' = pumping
    BY <1>9 DEF SendTts
  <2>2. mode = "greeting" /\ pumping = "over"
    BY <1>s, <2>1 DEF Pumping
  <2> QED
    BY <1>s, <2>1, <2>2 DEF Sourced, source
<1>10. CASE NextCall
  <2>1. /\ mode = "greeting" /\ voice \in {"done", "failed"} /\ UNCHANGED <<mode, fragment>>
        /\ text' \in Texts
    BY <1>10 DEF NextCall, BuildGreeting
  <2>2. pumping = "over" /\ gen # "context" /\ fragment = <<>>
    BY <1>s, <2>1 DEF Pumping, Sourced
  <2>3. CASE cache[text'] # <<>>
    <3>1. gen' = gen /\ pumping' = pumping
      BY <1>10, <2>3 DEF NextCall
    <3> QED
      BY <2>1, <2>2, <3>1 DEF Sourced
  <2>4. CASE cache[text'] = <<>>
    <3>1. gen' = "tokens" /\ rest' = text' /\ written' = <<>>
      BY <1>10, <2>4 DEF NextCall
    <3>2. \E f \in Fillers \cup {<<>>} : written' \o rest' = f \o text'
      BY <3>1
    <3> QED
      BY <2>1, <2>2, <3>1, <3>2 DEF Sourced
  <2> QED
    BY <2>3, <2>4
<1> QED
  BY <1>1, <1>2, <1>3, <1>4, <1>5, <1>6, <1>7, <1>8, <1>9, <1>10 DEF SpeechNext, Tasks

\* A fault is remembered.
LEMMA FaultCounts ==
  ASSUME SpeechTypeOK
  PROVE  Fails => faults' # 0
BY Types DEF Fails

\* Nothing is said of a greeting, of a browser's reply, and after a fault.
LEMMA NotRecorded ==
  ASSUME Recorded, UNCHANGED mode,
         mode \in {"greeting", "browser"} \/ faults' # 0,
         recorded' => recorded /\ UNCHANGED <<gen, rest, fragment>>
  PROVE  Recorded'
BY DEF Recorded

LEMMA RecordedStep ==
  ASSUME SpeechInv, SpeechNext
  PROVE  Recorded'
<1>t. /\ fed \in Seq(Seq(Nat)) /\ buffer \in Seq(Nat) /\ Len(fed) \in Nat /\ heard \in Nat
      /\ queued \in Nat /\ heard <= queued /\ queued <= Len(fed)
      /\ faults \in Nat /\ mode \in Modes /\ Joined(fed) \in Seq(Nat)
  <2>1. SpeechTypeOK /\ mode \in Modes
    BY DEF SpeechInv, SpeechTypeOK
  <2>2. fed \in Seq(Seq(Nat))
    BY <2>1, Types
  <2> QED
    BY <2>1, <2>2, Types, JoinedType
<1>s. Recorded /\ Pumping /\ Spoken
  BY DEF SpeechInv
<1>c. Fails => faults' # 0
  BY FaultCounts DEF SpeechInv
<1>m. mode \in {"reply", "translated", "greeting", "browser"}
  BY <1>t DEF Modes
<1> DEFINE Fine == faults = 0 /\ mode \in {"reply", "translated"}
<1>1. CASE BuildContext \/ Token \/ Fragment
  <2>1. /\ pumping = "run" /\ socket = "open" /\ gen \in {"context", "tokens"}
        /\ UNCHANGED <<mode, recorded, pumping, socket, audio, faults>>
    BY <1>1, Feeding
  <2>2. ~ recorded /\ voice # "done"
    BY <1>s, <2>1 DEF Recorded, Pumping
  <2>3. Fine => ~ (ended /\ voice = "listen")
    BY <1>s, <2>1 DEF Recorded
  <2> QED
    BY <1>s, <2>1, <2>2, <2>3 DEF Recorded, audio
<1>2. CASE ContextReady
  <2>1. /\ gen = "retrieval"
        /\ UNCHANGED <<mode, rest, fragment, recorded, feeder, socket, audio, faults>>
    BY <1>2 DEF ContextReady
  <2> QED
    BY <1>s, <2>1 DEF Recorded, feeder, audio
<1>3. CASE Record
  <2>1. /\ pumping = "run" /\ pumping' = "tail" /\ gen' = "over" /\ recorded' = (mode # "greeting")
        /\ rest = <<>> /\ fragment = <<>>
        /\ UNCHANGED <<mode, rest, fragment, socket, audio, faults>>
    BY <1>3 DEF Record
  <2>2. mode # "browser" /\ voice # "done"
    BY <1>s, <2>1 DEF Pumping
  <2>3. Fine => socket = "open" /\ ~ (ended /\ voice = "listen")
    BY <1>s, <2>1 DEF Recorded
  <2> QED
    BY <1>m, <2>1, <2>2, <2>3 DEF Recorded, audio
<1>4. CASE GenerationFails
  <2>1. /\ gen # "over" /\ pumping = "run" /\ UNCHANGED <<mode, rest, fragment, recorded, socket>>
        /\ Fails \/ (socket = "down" /\ UNCHANGED faults)
    BY <1>4 DEF GenerationFails
  <2>2. ~ recorded
    BY <1>s, <2>1 DEF Recorded
  <2>3. faults' # 0 \/ mode \in {"greeting", "browser"}
    BY <1>c, <1>m, <1>s, <2>1 DEF Recorded
  <2> QED
    BY <1>s, <2>1, <2>2, <2>3, NotRecorded
<1>5. CASE LastWord
  <2>1. /\ pumping = "tail" /\ pumping' = "finish"
        /\ fed' = IF Strip(buffer) # <<>> /\ socket = "open" THEN Append(fed, buffer) ELSE fed
        /\ UNCHANGED source /\ UNCHANGED written /\ UNCHANGED socket /\ UNCHANGED audio
        /\ UNCHANGED faults
    BY <1>5 DEF LastWord
  <2>2. Feeds(fed, buffer, written) /\ voice # "done"
    BY <1>s, <2>1 DEF Spoken, Pumping
  <2>3. /\ Strip(buffer) = <<>> => Joined(fed) = written
        /\ Strip(buffer) # <<>> => Joined(Append(fed, buffer)) = written
    BY <1>t, <2>2, LastFeeds
  <2>4. Fine => socket = "open" /\ recorded /\ ~ (ended /\ voice = "listen")
    BY <1>s, <2>1 DEF Recorded
  <2>5. Fine => Joined(fed') = written
    BY <2>1, <2>3, <2>4
  <2> QED
    BY <1>s, <2>1, <2>2, <2>4, <2>5 DEF Recorded, source, audio
<1>6. CASE Finish
  <2>1. /\ pumping = "finish" /\ pumping' = "over"
        /\ socket' = IF socket = "open" THEN "flush" ELSE socket
        /\ UNCHANGED source /\ UNCHANGED <<fed, written>> /\ UNCHANGED audio /\ UNCHANGED faults
    BY <1>6 DEF Finish
  <2>2. voice # "done"
    BY <1>s, <2>1 DEF Pumping
  <2>3. Fine => socket = "open" /\ recorded /\ Joined(fed) = written
                /\ ~ (ended /\ voice = "listen")
    BY <1>s, <2>1 DEF Recorded
  <2> QED
    BY <1>s, <2>1, <2>2, <2>3 DEF Recorded, source, audio
<1>7. CASE Render
  <2>1. /\ ~ ended /\ heard' = heard /\ UNCHANGED <<ended, voice, socket, faults>>
        /\ UNCHANGED source /\ UNCHANGED feeder
    BY <1>7 DEF Render
  <2> QED
    BY <1>s, <2>1 DEF Recorded, source, feeder
<1>8. CASE Flushed
  <2>1. /\ socket = "flush" /\ queued = Len(fed)
        /\ UNCHANGED source /\ UNCHANGED feeder
        /\ UNCHANGED <<socket, queued, heard, voice, faults>>
    BY <1>8 DEF Flushed
  <2> QED
    BY <1>s, <2>1 DEF Recorded, source, feeder
<1>9. CASE SocketDrops
  <2>1. UNCHANGED source /\ faults' # 0
    BY <1>c, <1>9 DEF SocketDrops
  <2> QED
    BY <1>s, <2>1, NotRecorded DEF source
<1>10. CASE Hear
  <2>1. /\ voice = "listen" /\ UNCHANGED source /\ UNCHANGED feeder
        /\ UNCHANGED <<socket, queued, ended, voice, faults>>
    BY <1>10 DEF Hear
  <2> QED
    BY <1>s, <2>1 DEF Recorded, source, feeder
<1>11. CASE EndOfAudio
  <2>1. /\ voice = "listen" /\ ended /\ heard = queued /\ pumping' = "over" /\ socket' = "down"
        /\ voice' = IF mode = "greeting" THEN "collected" ELSE "done"
        /\ UNCHANGED source /\ UNCHANGED <<fed, written, queued, ended, heard, faults>>
    BY <1>11 DEF EndOfAudio
  <2>2. Fine => recorded /\ Joined(fed) = written /\ heard = Len(fed)
    BY <1>s, <2>1 DEF Recorded
  <2> QED
    BY <1>s, <2>1, <2>2 DEF Recorded, source
<1>12. CASE Interrupt
  <2>1. voice' = "gone" /\ UNCHANGED source /\ UNCHANGED feeder
        /\ UNCHANGED <<socket, queued, ended, heard, faults>>
    BY <1>12 DEF Interrupt
  <2> QED
    BY <1>s, <2>1 DEF Recorded, source, feeder
<1>13. CASE CloseAbandoned
  <2>1. voice = "gone" /\ pumping' = "over" /\ socket' = "down"
        /\ UNCHANGED source /\ UNCHANGED <<fed, written>> /\ UNCHANGED audio /\ UNCHANGED faults
    BY <1>13 DEF CloseAbandoned
  <2> QED
    BY <1>s, <2>1 DEF Recorded, source, audio
<1>14. CASE ConnectFails
  <2>1. gen # "over" /\ faults' # 0 /\ UNCHANGED <<mode, recorded>>
    BY <1>c, <1>14 DEF ConnectFails
  <2>2. ~ recorded
    BY <1>s, <2>1 DEF Recorded
  <2> QED
    BY <1>s, <2>1, <2>2, NotRecorded
<1>15. CASE SendTts \/ CacheGreeting
  <2>1. voice \in {"fallback", "collected"} /\ UNCHANGED source
    BY <1>15 DEF SendTts, CacheGreeting
  <2>2. mode = "greeting"
    BY <1>s, <2>1 DEF Pumping
  <2> QED
    BY <1>s, <2>1, <2>2, NotRecorded DEF source
<1>16. CASE NextCall
  <2>1. mode = "greeting" /\ UNCHANGED <<mode, recorded>>
    BY <1>16 DEF NextCall
  <2>2. ~ recorded
    BY <1>s, <2>1 DEF Recorded
  <2> QED
    BY <1>s, <2>1, <2>2, NotRecorded
<1>17. CASE JoinClauses \/ \E p \in 1..Pieces : ClauseAnswered(p)
  <2>1. mode = "browser" /\ UNCHANGED source
    BY <1>17 DEF JoinClauses, ClauseAnswered
  <2> QED
    BY <1>s, <2>1, NotRecorded DEF source
<1>18. CASE \E t \in Texts : CacheExpires(t)
  <2>1. UNCHANGED source /\ UNCHANGED feeder /\ UNCHANGED socket /\ UNCHANGED audio
        /\ UNCHANGED faults
    BY <1>18 DEF CacheExpires
  <2> QED
    BY <1>s, <2>1 DEF Recorded, source, feeder, audio
<1> QED
  BY <1>1, <1>2, <1>3, <1>4, <1>5, <1>6, <1>7, <1>8, <1>9, <1>10, <1>11, <1>12, <1>13, <1>14,
     <1>15, <1>16, <1>17, <1>18 DEF SpeechNext, Tasks

\* Where nothing of what Kept says is touched.
LEMMA StaysKept ==
  ASSUME Kept, UNCHANGED <<mode, text, rest, feeder, socket, audio, cache, faults>>
  PROVE  Kept'
BY DEF Kept, feeder, audio

\* A fault, or another kind of text: the cache is all there is to keep.
LEMMA StaysCached ==
  ASSUME Kept, UNCHANGED <<mode, cache>>, mode # "greeting" /\ faults' = 0 => faults = 0,
         mode # "greeting" \/ faults' # 0
  PROVE  Kept'
BY DEF Kept

LEMMA KeptStep ==
  ASSUME SpeechInv, SpeechNext
  PROVE  Kept'
<1>t. /\ fed \in Seq(Seq(Nat)) /\ buffer \in Seq(Nat) /\ written \in Seq(Nat)
      /\ text \in Seq(Nat) /\ text \in Texts /\ Len(fed) \in Nat /\ heard \in Nat /\ queued \in Nat
      /\ heard <= queued /\ queued <= Len(fed) /\ faults \in Nat
  BY Types DEF SpeechInv
<1>s. Kept /\ Pumping /\ Spoken /\ Sourced /\ SpeechTypeOK
  BY DEF SpeechInv
<1>c. Fails => faults' # 0
  BY FaultCounts DEF SpeechInv
<1>d. Fails => (faults' = 0 => faults = 0)
  BY <1>c
<1> DEFINE Fine == faults = 0 /\ mode = "greeting"
<1>1. CASE BuildContext \/ Fragment
  <2>1. mode # "greeting"
    BY <1>s, <1>1 DEF BuildContext, Fragment, Sourced
  <2>2. UNCHANGED <<mode, cache, faults>>
    BY <1>1 DEF BuildContext, Fragment, keep
  <2> QED
    BY <1>s, <2>1, <2>2, StaysCached
<1>2. CASE Token
  <2>1. /\ pumping = "run" /\ socket = "open"
        /\ UNCHANGED <<mode, text, pumping, socket, audio, keep, faults>>
    BY <1>2 DEF Token
  <2>2. CASE mode # "greeting"
    BY <1>s, <2>1, <2>2, StaysCached DEF keep
  <2>3. CASE mode = "greeting"
    <3>1. written' \o rest' = written \o rest
      BY <1>s, <1>2, <2>3, TokenMoves
    <3>2. voice \in {"listen", "gone"}
      BY <1>s, <2>1 DEF Pumping
    <3>3. Fine => ~ (ended /\ voice = "listen") /\ written \o rest = text /\ voice = "listen"
      BY <1>s, <2>1, <3>2 DEF Kept
    <3> QED
      BY <1>s, <2>1, <2>3, <3>1, <3>2, <3>3 DEF Kept, audio, keep
  <2> QED
    BY <2>2, <2>3
<1>3. CASE ContextReady
  <2>1. UNCHANGED <<mode, text, rest, feeder, socket, audio, cache, faults>>
    BY <1>3 DEF ContextReady, keep
  <2> QED
    BY <1>s, <2>1, StaysKept
<1>4. CASE Record
  <2>1. /\ pumping = "run" /\ pumping' = "tail" /\ rest = <<>>
        /\ UNCHANGED <<mode, text, rest, fed, written, socket, audio, cache, faults>>
    BY <1>4 DEF Record, keep
  <2>2. written \o <<>> = written
    BY <1>t, ConcatEmptySeq
  <2>3. Fine => socket = "open" /\ written = text /\ ~ (ended /\ voice = "listen")
                /\ voice = "listen"
    BY <1>s, <2>1, <2>2 DEF Kept
  <2> QED
    BY <1>s, <2>1, <2>3 DEF Kept, audio
<1>5. CASE GenerationFails
  <2>1. mode # "greeting" /\ UNCHANGED <<mode, cache>>
    BY <1>5 DEF GenerationFails, keep
  <2>2. faults' = 0 => faults = 0
    BY <1>d, <1>5 DEF GenerationFails
  <2> QED
    BY <1>s, <2>1, <2>2, StaysCached
<1>6. CASE LastWord
  <2>1. /\ pumping = "tail" /\ pumping' = "finish"
        /\ fed' = IF Strip(buffer) # <<>> /\ socket = "open" THEN Append(fed, buffer) ELSE fed
        /\ UNCHANGED <<mode, text, rest, written, socket, audio, cache, faults>>
    BY <1>6 DEF LastWord, source, keep
  <2>2. Feeds(fed, buffer, written)
    BY <1>s, <2>1 DEF Spoken
  <2>3. /\ Strip(buffer) = <<>> => Joined(fed) = written
        /\ Strip(buffer) # <<>> => Joined(Append(fed, buffer)) = written
    BY <1>t, <2>2, LastFeeds
  <2>4. Fine => socket = "open" /\ written = text /\ ~ (ended /\ voice = "listen")
                /\ voice = "listen"
    BY <1>s, <2>1 DEF Kept
  <2>5. Fine => Joined(fed') = text
    BY <2>1, <2>3, <2>4
  <2> QED
    BY <1>s, <2>1, <2>4, <2>5 DEF Kept, audio
<1>7. CASE Finish
  <2>1. /\ pumping = "finish" /\ pumping' = "over"
        /\ socket' = IF socket = "open" THEN "flush" ELSE socket
        /\ UNCHANGED <<mode, text, rest, fed, written, audio, cache, faults>>
    BY <1>7 DEF Finish, source, keep
  <2>2. Fine => socket = "open" /\ Joined(fed) = text /\ ~ (ended /\ voice = "listen")
                /\ voice = "listen"
    BY <1>s, <2>1 DEF Kept
  <2> QED
    BY <1>s, <2>1, <2>2 DEF Kept, audio
<1>8. CASE Render \/ Hear
  <2>1. /\ UNCHANGED <<mode, text, rest, feeder, socket, ended, voice, cache, faults>>
        /\ (~ ended /\ heard' = heard) \/ (voice = "listen" /\ queued' = queued)
    BY <1>8 DEF Render, Hear, source, keep
  <2> QED
    BY <1>s, <2>1 DEF Kept, feeder
<1>9. CASE Flushed
  <2>1. /\ socket = "flush" /\ queued = Len(fed)
        /\ UNCHANGED <<mode, text, rest, feeder, socket, queued, heard, voice, cache, faults>>
    BY <1>9 DEF Flushed, source, keep
  <2> QED
    BY <1>s, <2>1 DEF Kept, feeder
<1>10. CASE SocketDrops \/ ConnectFails
  <2>1. UNCHANGED <<mode, cache>> /\ Fails
    BY <1>10 DEF SocketDrops, ConnectFails, source, keep
  <2> QED
    BY <1>c, <1>s, <2>1, StaysCached
<1>11. CASE EndOfAudio
  <2>1. /\ voice = "listen" /\ ended /\ heard = queued /\ pumping' = "over" /\ socket' = "down"
        /\ UNCHANGED <<mode, text, fed, written, heard, cache, faults>>
        /\ voice' # "listen"
    BY <1>11 DEF EndOfAudio, source, keep
  <2>2. Fine => Joined(fed) = text /\ heard = Len(fed)
    BY <1>s, <2>1 DEF Kept
  <2> QED
    BY <1>s, <2>1, <2>2 DEF Kept
<1>12. CASE Interrupt
  <2>1. mode # "greeting" /\ UNCHANGED <<mode, cache, faults>>
    BY <1>12 DEF Interrupt, source, keep
  <2> QED
    BY <1>s, <2>1, StaysCached
<1>13. CASE CloseAbandoned
  <2>1. /\ voice = "gone" /\ pumping' = "over" /\ socket' = "down"
        /\ UNCHANGED <<mode, voice, cache, faults>>
    BY <1>13 DEF CloseAbandoned, source, audio, keep
  <2> QED
    BY <1>s, <2>1 DEF Kept
<1>14. CASE SendTts
  <2>1. /\ voice = "fallback" /\ voice' \in {"done", "failed"} /\ (faults' = 0 => faults = 0)
        /\ UNCHANGED <<mode, text, pumping, socket, cache>>
    BY <1>d, <1>14 DEF SendTts, SynthesizeToMulaw, source, keep
  <2>2. pumping = "over"
    BY <1>s, <2>1 DEF Pumping
  <2> QED
    BY <1>s, <2>1, <2>2 DEF Kept
<1>15. CASE CacheGreeting
  <2>1. /\ voice = "collected" /\ voice' = "done"
        /\ UNCHANGED <<mode, text, rest, feeder, socket, heard>>
        /\ (cache' = [cache EXCEPT ![text] = Joined(SubSeq(fed, 1, heard))] /\ UNCHANGED faults)
           \/ (Fails /\ UNCHANGED cache)
    BY <1>15 DEF CacheGreeting, source
  <2>2. mode = "greeting" /\ pumping = "over"
    BY <1>s, <2>1 DEF Pumping
  <2>3. CASE faults' # 0
    BY <2>3 DEF Kept
  <2>4. CASE faults' = 0
    <3>1. /\ cache' = [cache EXCEPT ![text] = Joined(SubSeq(fed, 1, heard))] /\ faults = 0
      BY <1>c, <2>1, <2>4
    <3>2. Joined(fed) = text /\ heard = Len(fed) /\ socket = "down"
      BY <1>s, <2>1, <2>2, <3>1 DEF Kept
    <3>3. SubSeq(fed, 1, heard) = fed
      BY <1>t, <3>2, SubSeqFull
    <3>4. \A t \in Texts : cache'[t] \in {<<>>, t}
      <4>1. cache'[text] = text /\ \A t \in Texts : t # text => cache'[t] = cache[t]
        BY <1>s, <1>t, <3>1, <3>2, <3>3 DEF SpeechTypeOK
      <4> QED
        BY <1>s, <3>1, <4>1 DEF Kept
    <3> QED
      BY <2>1, <2>2, <3>2, <3>4 DEF Kept, feeder
  <2> QED
    BY <2>3, <2>4
<1>16. ASSUME NEW t \in Texts, CacheExpires(t)
       PROVE  Kept'
  <2>1. /\ cache' = [cache EXCEPT ![t] = <<>>]
        /\ UNCHANGED <<mode, text, rest, feeder, socket, audio, faults>>
    BY <1>16 DEF CacheExpires, source
  <2>2. \A u \in Texts : cache'[u] \in {<<>>, cache[u]}
    BY <1>s, <2>1 DEF SpeechTypeOK
  <2>3. faults = 0 => \A u \in Texts : cache'[u] \in {<<>>, u}
    BY <1>s, <2>2 DEF Kept
  <2> QED
    BY <1>s, <2>1, <2>3 DEF Kept, feeder, audio
<1>17. CASE NextCall
  <2>1. /\ mode = "greeting" /\ voice \in {"done", "failed"} /\ text' \in Texts
        /\ UNCHANGED <<mode, cache, faults>>
    BY <1>17 DEF NextCall, BuildGreeting
  <2>2. pumping = "over" /\ (Fine => socket = "down")
    BY <1>s, <2>1 DEF Pumping, Kept
  <2>3. CASE cache[text'] # <<>>
    <3>1. voice' = "done" /\ pumping' = pumping /\ socket' = socket
      BY <1>17, <2>3 DEF NextCall
    <3> QED
      BY <1>s, <2>1, <2>2, <3>1 DEF Kept
  <2>4. CASE cache[text'] = <<>>
    <3>1. /\ rest' = text' /\ pumping' = "run" /\ socket' = "open" /\ written' = <<>>
          /\ ended' = FALSE /\ voice' = "listen"
      BY <1>17, <2>4 DEF NextCall
    <3>2. written' \o rest' = text'
      BY <2>1, <3>1, TextStarts, ConcatEmptySeq
    <3> QED
      BY <1>s, <2>1, <3>1, <3>2 DEF Kept
  <2> QED
    BY <2>3, <2>4
<1>18. CASE JoinClauses \/ \E p \in 1..Pieces : ClauseAnswered(p)
  <2>1. mode = "browser" /\ UNCHANGED <<mode, cache>>
    BY <1>18 DEF JoinClauses, ClauseAnswered, source, keep
  <2>2. faults' = 0 => faults = 0
    BY <1>d, <1>18 DEF JoinClauses, ClauseAnswered
  <2> QED
    BY <1>s, <2>1, <2>2, StaysCached
<1> QED
  BY <1>1, <1>2, <1>3, <1>4, <1>5, <1>6, <1>7, <1>8, <1>9, <1>10, <1>11, <1>12, <1>13, <1>14,
     <1>15, <1>16, <1>17, <1>18 DEF SpeechNext, Tasks


-----------------------------------------------------------------------------
(* The theorems *)

LEMMA BeginningIs ==
  ASSUME NEW p \in Seq(Nat), NEW t \in Seq(Nat), NEW w, w = p \o t
  PROVE  Len(p) <= Len(w) /\ p = SubSeq(w, 1, Len(p))
<1>1. /\ w \in Seq(Nat) /\ Len(w) = Len(p) + Len(t) /\ Len(p) \in Nat /\ Len(t) \in Nat
      /\ \A i \in 1..Len(p) + Len(t) : w[i] = IF i <= Len(p) THEN p[i] ELSE t[i - Len(p)]
  BY ConcatProperties
<1>2. Len(p) \in 0..Len(w)
  BY <1>1
<1>3. /\ SubSeq(w, 1, Len(p)) \in Seq(Nat) /\ Len(SubSeq(w, 1, Len(p))) = Len(p)
      /\ \A i \in 1..Len(p) : SubSeq(w, 1, Len(p))[i] = w[i]
  BY ONLY <1>1, <1>2, Halves
<1>4. \A i \in 1..Len(p) : i \in 1..Len(p) + Len(t) /\ i <= Len(p)
  BY <1>1
<1>5. \A i \in 1..Len(p) : SubSeq(w, 1, Len(p))[i] = p[i]
  BY <1>1, <1>3, <1>4
<1>6. p = SubSeq(w, 1, Len(p))
  BY ONLY <1>3, <1>5, p \in Seq(Nat), SeqEqual
<1> QED
  BY <1>2, <1>6

LEMMA InOrder ==
  ASSUME SpeechInv
  PROVE  SpokenInOrder
<1>t. /\ fed \in Seq(Seq(Nat)) /\ written \in Seq(Nat) /\ rest \in Seq(Nat) /\ text \in Texts
      /\ Joined(fed) \in Seq(Nat)
  <2>1. fed \in Seq(Seq(Nat))
    BY Types DEF SpeechInv
  <2> QED
    BY <2>1, Types, JoinedType DEF SpeechInv
<1>1. Len(Joined(fed)) <= Len(written) /\ Joined(fed) = SubSeq(written, 1, Len(Joined(fed)))
  <2>1. PICK t \in Seq(Nat) : written = Joined(fed) \o t
    BY DEF SpeechInv, Spoken
  <2> QED
    BY ONLY <1>t, <2>1, BeginningIs
<1>2. ASSUME NEW n \in 1..Len(fed)
      PROVE  ~ SplitsWord(written, Len(Joined(SubSeq(fed, 1, n))))
  <2> DEFINE i == Len(Joined(SubSeq(fed, 1, n)))
  <2>1. i \in 1..Len(written) /\ (written[i] = 0 \/ i = Len(written))
    BY DEF SpeechInv, Spoken, WholeIn, EndAt
  <2>2. Len(written) \in Nat
    BY <1>t
  <2> HIDE DEF i
  <2>3. ~ SplitsWord(written, i)
    BY <2>1, <2>2 DEF SplitsWord
  <2> QED
    BY <2>3 DEF i
<1>3. ASSUME mode = "reply" PROVE ~ Glued(written)
  <2>1. PICK f \in Fillers \cup {<<>>} : written \o rest = f \o text
    BY <1>3 DEF SpeechInv, Sourced
  <2>2. ~ Glued(written \o rest)
    BY <1>t, <2>1, FillerThenText
  <2> QED
    BY <1>t, <2>2, BeginningGlued
<1>4. played \in {<<>>, <<0>>, [p \in 1..Pieces |-> p]}
  BY DEF SpeechInv, Ordered
<1> QED
  BY <1>1, <1>2, <1>3, <1>4 DEF SpokenInOrder

LEMMA OnRecord ==
  ASSUME SpeechInv
  PROVE  RecordedIsSpoken
BY DEF SpeechInv, Recorded, RecordedIsSpoken

(* The invariant holds in every state, whatever the texts, the fillers, the *)
(* lengths of tokens and clauses, and the calls that fail.                  *)
THEOREM SpeechInductive == SpeechSpec => []SpeechInv
<1>1. ASSUME SpeechInv, [SpeechNext]_speechVars PROVE SpeechInv'
  <2>1. CASE SpeechNext
    BY <1>1, <2>1, SpeechTypeStep, PumpingStep, SpokenStep, SourcedStep, RecordedStep, OrderedStep,
       KeptStep
       DEF SpeechInv
  <2>2. CASE UNCHANGED speechVars
    <3>1. SpeechTypeOK' /\ Pumping' /\ Ordered'
      BY <1>1, <2>2 DEF SpeechInv, SpeechTypeOK, Pumping, Ordered, speechVars, source, feeder,
         audio, keep, page
    <3>2. Spoken'
      BY <1>1, <2>2, StaysSpoken DEF SpeechInv, speechVars, feeder
    <3>3. Sourced'
      BY <1>1, <2>2, StaysSourced DEF SpeechInv, speechVars, source, feeder
    <3>4. Recorded'
      BY <1>1, <2>2 DEF SpeechInv, Recorded, speechVars, source, feeder, audio
    <3>5. Kept'
      BY <1>1, <2>2 DEF SpeechInv, Kept, speechVars, source, feeder, audio, keep
    <3> QED
      BY <3>1, <3>2, <3>3, <3>4, <3>5 DEF SpeechInv
  <2> QED
    BY <1>1, <2>1, <2>2
<1> QED
  BY <1>1, SpeechInitially, PTL DEF SpeechSpec

(* Every variable keeps its type: what is queued was sent, and what was heard was *)
(* queued.                                                                        *)
THEOREM SpeechTypeCorrect == SpeechSpec => []SpeechTypeOK
<1>1. SpeechInv => SpeechTypeOK
  BY DEF SpeechInv
<1> QED
  BY <1>1, SpeechInductive, PTL

(* What is sent to be spoken is what was written so far, in its order and in pieces *)
(* that end with a word, a filler does not run into the reply, and a browser hears  *)
(* the clauses in their order: for all texts, fillers and ways to cut them up.      *)
THEOREM SpokenAsWritten == SpeechSpec => []SpokenInOrder
BY InOrder, SpeechInductive, PTL

(* A turn is recorded only when the model has written all of it, and a reply that *)
(* was spoken to its end without a fault is recorded and was heard to its end.    *)
THEOREM RecordedWhenSpoken == SpeechSpec => []RecordedIsSpoken
BY OnRecord, SpeechInductive, PTL

(* What is kept of a greeting is the whole greeting, unless a call failed: only a *)
(* fault, as a socket that is lost under it, makes the cache play a part of it.   *)
THEOREM KeptWhole == SpeechSpec => [](faults = 0 => GreetingWhole)
<1>1. SpeechInv => (faults = 0 => GreetingWhole)
  BY DEF SpeechInv, Kept, GreetingWhole
<1> QED
  BY <1>1, SpeechInductive, PTL
=============================================================================
