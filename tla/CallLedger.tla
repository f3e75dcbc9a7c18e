------------------------------ MODULE CallLedger ------------------------------
(****************************************************************************)
(* What the service promises about the record of a call, whichever of its   *)
(* handlers, deliveries and saves come first: while the session is in Redis *)
(* it only gains turns, a call becomes one conversation at most, and the    *)
(* session goes only when there is one, when its hour is over, or when the  *)
(* database answered that it had inserted no lead.                          *)
(****************************************************************************)
EXTENDS Naturals

CONSTANTS
    Calls,      \* call SIDs
    MaxTurns,   \* bound: turns a call records
    Absent      \* no session

VARIABLES
    begun,      \* calls that were answered
    said,       \* turns each call has recorded
    session,    \* how many of them are kept in Redis
    rows,       \* conversations: the turns of each
    excused     \* calls that may be gone without a conversation

vars == <<begun, said, session, rows, excused>>

Init ==
    /\ begun = {} /\ excused = {}
    /\ said    = [c \in Calls |-> 0]
    /\ session = [c \in Calls |-> Absent]
    /\ rows    = [c \in Calls |-> {}]

\* create_session
Answer(c) ==
    /\ c \notin begun
    /\ begun' = begun \cup {c}
    /\ session' = [session EXCEPT ![c] = 0]
    /\ UNCHANGED <<said, rows, excused>>

\* A reply was spoken to its end.
Speak(c) ==
    /\ c \in begun /\ said[c] < MaxTurns
    /\ said' = [said EXCEPT ![c] = @ + 1]
    /\ UNCHANGED <<begun, session, rows, excused>>

\* save_session, which takes no turn away, and may bring a session back.
Save(c) ==
    \E n \in 0..said[c] :
        /\ c \in begun
        /\ session[c] # Absent => session[c] <= n
        /\ session' = [session EXCEPT ![c] = n]
        /\ UNCHANGED <<begun, said, rows, excused>>

\* The first conversation of the call, which is the only one.
Write(c) ==
    \E n \in 0..said[c] :
        /\ c \in begun /\ rows[c] = {}
        /\ rows' = [rows EXCEPT ![c] = {n}]
        /\ UNCHANGED <<begun, said, session, excused>>

\* The insert of the lead came back empty.
Excuse(c) ==
    /\ c \in begun
    /\ excused' = excused \cup {c}
    /\ UNCHANGED <<begun, said, session, rows>>

\* delete_session
Drop(c) ==
    /\ rows[c] # {} \/ c \in excused
    /\ session' = [session EXCEPT ![c] = Absent]
    /\ UNCHANGED <<begun, said, rows, excused>>

\* SESSION_TTL
Lapse(c) ==
    /\ c \in begun
    /\ session' = [session EXCEPT ![c] = Absent]
    /\ excused' = excused \cup {c}
    /\ UNCHANGED <<begun, said, rows>>

Next ==
    \E c \in Calls :
        Answer(c) \/ Speak(c) \/ Save(c) \/ Write(c) \/ Excuse(c) \/ Drop(c) \/ Lapse(c)

Spec == Init /\ [][Next]_vars
=============================================================================
