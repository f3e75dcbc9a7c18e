------------------------------ MODULE VoiceTurns ------------------------------
(****************************************************************************)
(* Who speaks when on one call: the tasks that media_stream                 *)
(* (app/voice/router.py) runs beside its receive loop, and collect_turn and *)
(* SpokenLog (app/voice/turn_taking.py) under them.                         *)
(*                                                                          *)
(* _greet, _pump_turns and _hard_close share the `speaking' lock, the queue *)
(* of utterances (SttStream puts them there), and the audio Twilio has been *)
(* sent but has not played yet.  Synthesis is faster than speech, so that   *)
(* buffer, not the sending, is what the caller hears.                       *)
(*                                                                          *)
(* Time: a tick is the playing time of one chunk of audio.  Tasks that are  *)
(* ready run within the tick (`Due'); network waits take any number.        *)
(* An utterance is a number in order of delivery, 0 being the sentinel;     *)
(* `ours' holds those whose words the assistant said, be it an echo or a    *)
(* caller repeating them.                                                   *)
(****************************************************************************)
EXTENDS Naturals, Sequences

CONSTANTS
    MaxHeard,   \* bound: utterances delivered
    Calls,      \* bound: the calls: [boxed: the company is an ai_studio, whose calls
                \* have a limit; heard: utterances; chunks: of audio in one piece]
    Window,     \* COALESCE_WINDOW, in ticks
    MaxHold,    \* COALESCE_MAX
    Idle,       \* IDLE_TIMEOUT
    EchoTail,   \* ECHO_TAIL_SECONDS
    Retention   \* RETENTION_SECONDS

ASSUME BoundAssumption ==
    /\ MaxHeard \in Nat
    /\ Calls \subseteq [boxed : BOOLEAN, heard : 0..MaxHeard, chunks : Nat]
ASSUME TimeAssumption  ==
    /\ {Window, MaxHold, Idle, EchoTail, Retention} \subseteq Nat \ {0}
    /\ Window <= MaxHold

VARIABLES
    call,       \* which of Calls this is
    up,         \* the call is connected
    live,       \* words Deepgram is hearing: "none", "caller" or "ours"
    started,    \* stt.speech_started
    queue,      \* stt._queue
    pump,       \* what _pump_turns is doing
    parts,      \* collect_turn: utterances of the turn being gathered
    quiet,      \* ticks its current wait has lasted
    left,       \* ticks to its deadline
    turn,       \* replies begun
    chunks,     \* chunks of audio the speaker in hand has sent
    line,       \* the `speaking' lock: its holder, then who waits for it
    greet,      \* _greet
    close,      \* _hard_close
    nap,        \* ticks _hard_close has slept since its last line
    until,      \* SpokenLog._playing_until, as ticks from now
    lag,        \* ticks since that moment, up to EchoTail + 1
    noted,      \* ticks since note_spoken of the greeting, and of the part of the
                \* reply that is being synthesised
    since,      \* the same, of our own words, by the utterance they are or will be
    buffer      \* Twilio: chunks not played yet: [by: who spoke it; since: the same,
                \* of its text]

\* The world outside, and history.
VARIABLES
    sttUp,      \* Deepgram's socket is open
    heard,      \* utterances delivered
    ours,       \* those whose words were the assistant's
    merged,     \* those whose text was in that of the part before them
    answered,   \* utterances handed to a reply, in order
    age,        \* ticks since the first part of the turn being gathered
    out,        \* who spoke, in the order the audio was sent
    blind       \* some reply had no audio, or some audio was not accounted for

world     == <<up, live, started, sttUp, heard, ours, merged>>
gathering == <<parts, quiet, left, turn, answered, age>>
turnVars  == <<pump, gathering>>
floor     == <<chunks, line>>
tasks     == <<greet, close, nap>>
air       == <<until, lag, buffer, out, blind>>
sound     == <<air, noted, since>>
vars      == <<call, world, queue, turnVars, floor, tasks, sound>>

Greeting == 0                 \* who spoke: 0, the number of a reply, or Goodbye
Goodbye  == MaxHeard + 1
SetOf(s) == {s[i] : i \in DOMAIN s}

-----------------------------------------------------------------------------
(* Audio *)

\* Ticks are counted to the first at which _prune forgets the text.
Older(n) == IF n > Retention THEN n ELSE n + 1

\* _send_media of one chunk, whose text was handed to synthesis n ticks ago.
Send(who, n) ==
    /\ buffer' = Append(buffer, [by |-> who, since |-> n])
    /\ out' = IF out # <<>> /\ out[Len(out)] = who THEN out ELSE Append(out, who)

\* note_audio_sent, then _send_media.
SendNoted(who, n) ==
    /\ Send(who, n)
    /\ until' = until + 1
    /\ lag'   = 0

\* notify_cleared, and Twilio's `clear'.
Clear ==
    /\ buffer' = <<>>
    /\ until'  = 0
    /\ lag'    = 0
    /\ UNCHANGED out

\* echo_score of our own words: zero outside the window, and zero once their text
\* is pruned, which of a long reply it may be while the reply is still playing.
InWindow  == lag <= EchoTail
Pruned(n) == since[n] > Retention
IsEcho(n) == n \in ours /\ InWindow /\ ~Pruned(n)

\* _caller_is_interrupting
Interrupting ==
    /\ started
    /\ \/ live = "caller"
       \/ live = "ours" /\ (~InWindow \/ Pruned(heard + 1))

\* asyncio.Lock hands itself on in the order it was asked for.
Holds(who)  == line # <<>> /\ Head(line) = who
Waits(who)  == line' = Append(line, who)
Releases    == line' = Tail(line)

-----------------------------------------------------------------------------
(* Deepgram and the caller *)

\* SpeechStarted for a breath, a noise, or the tail of what was just said.
SpeechStarts ==
    /\ up /\ sttUp
    /\ started' = TRUE
    /\ UNCHANGED <<turnVars, floor, tasks, sound, up, live, sttUp, heard, ours, merged,
                   queue>>

\* Somebody starts to talk: the caller, at any time, or our own voice, while it
\* is being played: the words are those of the chunk that is.  The voice activity
\* comes before the words.
Words(whose) ==
    /\ up /\ sttUp /\ live = "none"
    /\ heard < call.heard
    /\ \/ whose = "caller" /\ UNCHANGED since
       \/ /\ whose = "ours" /\ buffer # <<>>
          /\ since' = [since EXCEPT ![heard + 1] = Head(buffer).since]
    /\ live' = whose /\ started' = TRUE
    /\ UNCHANGED <<turnVars, floor, tasks, air, noted, up, sttUp, heard, ours, merged,
                   queue>>

\* _flush: the text is complete and goes on the queue.
Delivered ==
    /\ up /\ sttUp /\ live # "none"
    /\ heard' = heard + 1
    /\ queue' = Append(queue, heard + 1)
    /\ ours'  = IF live = "ours" THEN ours \cup {heard + 1} ELSE ours
    /\ live'  = "none"
    /\ UNCHANGED <<turnVars, floor, tasks, sound, up, started, sttUp, merged>>

\* The socket ends: what is held is flushed, then the sentinel.
SttEnds ==
    /\ up /\ sttUp /\ live = "none"
    /\ sttUp' = FALSE
    /\ queue' = Append(queue, 0)
    /\ UNCHANGED <<turnVars, floor, tasks, sound, up, live, started, heard,
                   ours, merged>>

-----------------------------------------------------------------------------
(* collect_turn *)

Gathered ==
    /\ pump'  = "turn"
    /\ turn'  = turn + 1
    /\ answered' = answered \o parts
    /\ parts' = <<>>
    /\ age'   = 0
    /\ Waits("reply")
    /\ UNCHANGED <<quiet, left>>

\* Mutants of TakePart: every part moves the deadline; an echo is only looked
\* for in the first part.
DeadlineMoves ==
    /\ up /\ pump \in {"wait", "gather"} /\ queue # <<>>
    /\ pump = "gather" => left > 0
    /\ Head(queue) # 0 /\ ~IsEcho(Head(queue))
    /\ queue' = Tail(queue)
    /\ parts' = Append(parts, Head(queue))
    /\ pump'  = "gather"
    /\ left'  = MaxHold
    /\ quiet' = 0
    /\ UNCHANGED <<world, floor, tasks, sound, turn, answered, age>>

EchoExtends ==
    /\ up /\ pump \in {"wait", "gather"} /\ queue # <<>>
    /\ pump = "gather" => left > 0
    /\ Head(queue) # 0 /\ (pump = "wait" => ~IsEcho(Head(queue)))
    /\ queue' = Tail(queue)
    /\ parts' = Append(parts, Head(queue))
    /\ pump'  = "gather"
    /\ left'  = IF pump = "wait" THEN MaxHold ELSE left
    /\ quiet' = 0
    /\ UNCHANGED <<world, floor, tasks, sound, turn, answered, age>>

\* merge_utterances: a part whose text is in that of the part before it is left out.
Merge(n) ==
    \/ parts' = Append(parts, n) /\ UNCHANGED merged
    \/ pump = "gather" /\ merged' = merged \cup {n} /\ UNCHANGED parts

\* An utterance that is not ours starts a turn or extends it.
TakePart ==
    /\ up /\ pump \in {"wait", "gather"} /\ queue # <<>>
    /\ pump = "gather" => left > 0
    /\ Head(queue) # 0 /\ ~IsEcho(Head(queue))
    /\ queue' = Tail(queue)
    /\ Merge(Head(queue))
    /\ pump'  = "gather"
    /\ left'  = IF pump = "wait" THEN MaxHold ELSE left
    /\ quiet' = 0
    /\ UNCHANGED <<up, live, started, sttUp, heard, ours, floor, tasks, sound, turn,
                   answered, age>>

\* Our own words: dropped, and the wait starts again.
TakeEcho ==
    /\ up /\ pump \in {"wait", "gather"} /\ queue # <<>>
    /\ pump = "gather" => left > 0
    /\ Head(queue) # 0 /\ IsEcho(Head(queue))
    /\ queue' = Tail(queue)
    /\ quiet' = 0
    /\ UNCHANGED <<world, floor, tasks, sound, pump, parts, left, turn,
                   answered, age>>

\* Mutant of TakeSentinel: the parts in hand are dropped.
SentinelLosesParts ==
    /\ up /\ pump \in {"wait", "gather"} /\ queue # <<>>
    /\ Head(queue) = 0
    /\ queue' = Tail(queue) /\ parts' = <<>>
    /\ pump' = "off"
    /\ UNCHANGED <<world, floor, tasks, sound, quiet, left, turn, answered,
                   age>>

\* The stream is finished: whatever was gathered is still a turn.
TakeSentinel ==
    /\ up /\ pump \in {"wait", "gather"} /\ queue # <<>>
    /\ pump = "gather" => left > 0
    /\ Head(queue) = 0
    /\ queue' = Tail(queue)
    /\ IF pump = "gather" THEN Gathered
       ELSE /\ pump' = "off"
            /\ UNCHANGED <<gathering, line>>
    /\ UNCHANGED <<world, tasks, sound, chunks>>

\* No continuation within the window, or the deadline.
WindowCloses ==
    /\ up /\ pump = "gather"
    /\ \/ left = 0
       \/ queue = <<>> /\ quiet >= Window
    /\ Gathered
    /\ UNCHANGED <<world, tasks, sound, queue, chunks>>

\* "Caller silent - ending turn pump".
IdleEnds ==
    /\ up /\ pump = "wait" /\ queue = <<>> /\ quiet >= Idle
    /\ pump' = "off"
    /\ UNCHANGED <<world, gathering, floor, tasks, sound, queue>>

-----------------------------------------------------------------------------
(* _speak_stream, with the lock held *)

ReplyBegins ==
    /\ up /\ pump = "turn" /\ Holds("reply")
    /\ pump' = "speak" /\ chunks' = 0
    /\ started' = FALSE
    /\ noted' = [noted EXCEPT !.reply = 0]
    /\ UNCHANGED <<gathering, tasks, air, since, up, live, sttUp, heard, ours, merged,
                   queue, line>>

\* The first chunk may fall in BARGE_IN_GRACE, where nobody can interrupt.  Its
\* text was noted when _record_spoken passed it on, after that of the last chunk
\* and before the audio came.
ReplyAudio ==
    /\ up /\ pump = "speak" /\ chunks < call.chunks
    /\ Interrupting => chunks = 0
    /\ chunks' = chunks + 1
    /\ \E n \in 0..noted.reply :
        /\ SendNoted(turn, n)
        /\ noted' = [noted EXCEPT !.reply = n]
    /\ UNCHANGED <<world, turnVars, tasks, queue, line, blind, since>>

BargeIn ==
    /\ up /\ pump = "speak" /\ Interrupting
    /\ pump' = "save"
    /\ Clear
    /\ Releases
    /\ UNCHANGED <<world, gathering, tasks, queue, chunks, blind, noted, since>>

\* The audio ends with the reply; a reply that failed has none at all.
ReplyEnds ==
    /\ up /\ pump = "speak"
    /\ pump' = "save"
    /\ blind' = (blind \/ chunks = 0)
    /\ Releases
    /\ UNCHANGED <<world, gathering, tasks, queue, chunks, until, lag, buffer,
                   out, noted, since>>

\* save_session; back to collect_turn.
Saved ==
    /\ up /\ pump = "save"
    /\ pump' = "wait" /\ quiet' = 0
    /\ UNCHANGED <<world, floor, tasks, sound, queue, parts, left, turn,
                   answered, age>>

\* The synthesis socket cannot be opened, or the save raises: the task is over.
PumpDies ==
    /\ up /\ pump \in {"speak", "save"}
    /\ pump' = "off"
    /\ IF pump = "speak" THEN Releases ELSE UNCHANGED line
    /\ UNCHANGED <<world, gathering, tasks, sound, queue, chunks>>

-----------------------------------------------------------------------------
(* _greet *)

\* `start' has come: the greeting is built and noted, then waits for the lock.
GreetAsks ==
    /\ up /\ greet = "built"
    /\ greet' = "line"
    /\ noted' = [noted EXCEPT !.greet = 0]
    /\ Waits("greet")
    /\ UNCHANGED <<world, turnVars, air, since, queue, chunks, close, nap>>

\* Mutant of GreetAudio: the greeting is sent without the lock.
GreetAudioUnlocked ==
    /\ up /\ greet \in {"line", "speak"}
    /\ greet' = "speak"
    /\ chunks' = IF greet = "line" THEN 1 ELSE chunks + 1
    /\ greet = "speak" => chunks < call.chunks
    /\ SendNoted(Greeting, noted.greet)
    /\ UNCHANGED <<world, turnVars, queue, line, close, nap, blind, noted, since>>

GreetAudio ==
    /\ up /\ greet \in {"line", "speak"} /\ Holds("greet")
    /\ greet' = "speak"
    /\ chunks' = IF greet = "line" THEN 1 ELSE chunks + 1
    /\ greet = "speak" => chunks < call.chunks
    /\ SendNoted(Greeting, noted.greet)
    /\ UNCHANGED <<world, turnVars, queue, line, close, nap, blind, noted, since>>

GreetEnds ==
    /\ up /\ greet \in {"line", "speak"} /\ Holds("greet")
    /\ greet' = "done"
    /\ Releases
    /\ UNCHANGED <<world, turnVars, sound, queue, chunks, close, nap>>

\* Mutant of GreetFallback: it leaves without releasing the lock.
GreetFallbackKeepsLock ==
    /\ up /\ greet \in {"line", "speak"} /\ Holds("greet")
    /\ greet' = "done"
    /\ blind' = TRUE
    /\ Send(Greeting, noted.greet)
    /\ UNCHANGED <<world, turnVars, floor, queue, close, nap, until, lag, noted, since>>

\* Synthesis failed: _send_tts renders it elsewhere, and notes no audio.
GreetFallback ==
    /\ up /\ greet \in {"line", "speak"} /\ Holds("greet")
    /\ greet' = "done"
    /\ blind' = TRUE
    /\ Send(Greeting, noted.greet)
    /\ Releases
    /\ UNCHANGED <<world, turnVars, queue, chunks, close, nap, until, lag, noted, since>>

-----------------------------------------------------------------------------
(* _hard_close, which only an ai_studio call arms *)

\* MAX_CALL_SECONDS are over, the greeting long since; the line is rendered, or
\* could not be.
LimitReached ==
    /\ up /\ close = "armed"
    /\ greet = "done" /\ \A c \in SetOf(buffer) : c.by # Greeting
    /\ \/ close' = "line" /\ Waits("close")
       \/ close' = "hangup" /\ UNCHANGED line
    /\ UNCHANGED <<world, turnVars, sound, queue, chunks, greet, nap>>

CloseSpeaks ==
    /\ up /\ close = "line" /\ Holds("close")
    /\ close' = "sleep" /\ nap' = 0
    /\ SendNoted(Goodbye, 0)
    /\ Releases
    /\ UNCHANGED <<world, turnVars, queue, chunks, greet, blind, noted, since>>

\* It sleeps for the length of its own line (a chunk) and half a second more.
NapOver ==
    /\ up /\ close = "sleep" /\ nap >= 2
    /\ close' = "hangup"
    /\ UNCHANGED <<world, turnVars, floor, sound, queue, greet, nap>>

\* Twilio completes the call.
HangUp ==
    /\ up /\ close = "hangup"
    /\ up' = FALSE /\ close' = "done"
    /\ UNCHANGED <<turnVars, floor, sound, live, started, sttUp, heard, ours, merged, queue,
                   greet, nap>>

-----------------------------------------------------------------------------
(* Time *)

\* Somebody is ready to run, or a timer has gone off: that comes first.  The
\* last two lines are assumptions: an echo is transcribed and settled before its
\* tail is over, and a reply that has begun does not stall for longer than that.
Due ==
    \/ pump \in {"wait", "gather"} /\ queue # <<>>
    \/ pump = "gather" /\ (left = 0 \/ quiet >= Window)
    \/ pump = "wait" /\ quiet >= Idle
    \/ pump = "turn" /\ Holds("reply")
    \/ pump = "save"
    \/ close = "line" /\ Holds("close")
    \/ live = "ours" /\ lag >= EchoTail
    \/ pump = "speak" /\ chunks > 0 /\ lag >= EchoTail

Less(n) == IF n > 0 THEN n - 1 ELSE 0

\* Our own words that are on their way to the pump.  Of those it has taken, all
\* that counts is whether they were pruned.
Coming == (ours \cap SetOf(queue)) \cup (IF live = "ours" THEN {heard + 1} ELSE {})

Tick ==
    /\ up /\ ~Due
    /\ buffer' = [i \in 1..Less(Len(buffer)) |->
                    [buffer[i + 1] EXCEPT !.since = Older(@)]]
    /\ noted' = [greet |-> IF greet \in {"line", "speak"} THEN Older(noted.greet) ELSE 0,
                 reply |-> IF pump = "speak" THEN Older(noted.reply) ELSE 0]
    /\ since' = [n \in 1..MaxHeard |->
                    IF n \in Coming \/ Pruned(n) THEN Older(since[n]) ELSE 0]
    /\ until' = Less(until)
    /\ lag'   = IF until > 0 \/ lag > EchoTail THEN lag ELSE lag + 1
    /\ quiet' = IF pump \in {"wait", "gather"} THEN quiet + 1 ELSE quiet
    /\ left'  = IF pump = "gather" THEN Less(left) ELSE left
    /\ age'   = IF pump = "gather" THEN age + 1 ELSE age
    /\ nap'   = IF close = "sleep" /\ nap < 2 THEN nap + 1 ELSE nap
    /\ UNCHANGED <<call, floor, up, live, started, sttUp, heard, ours, merged, queue,
                   pump, parts, turn, answered, greet, close, out, blind>>

-----------------------------------------------------------------------------
Init ==
    /\ call \in Calls
    /\ up = TRUE /\ live = "none" /\ started = FALSE /\ queue = <<>>
    /\ pump = "wait" /\ parts = <<>> /\ quiet = 0 /\ left = 0
    /\ turn = 0 /\ chunks = 0 /\ line = <<>>
    /\ greet = "built" /\ close = (IF call.boxed THEN "armed" ELSE "off") /\ nap = 0
    /\ until = 0 /\ lag = EchoTail + 1 /\ buffer = <<>>
    /\ noted = [greet |-> 0, reply |-> 0] /\ since = [n \in 1..MaxHeard |-> 0]
    /\ sttUp = TRUE /\ heard = 0 /\ ours = {} /\ merged = {} /\ answered = <<>> /\ age = 0
    /\ out = <<>> /\ blind = FALSE

Stt    == SpeechStarts \/ Delivered \/ SttEnds \/ \E w \in {"caller", "ours"} : Words(w)
Turns  == TakePart \/ TakeEcho \/ TakeSentinel \/ WindowCloses \/ IdleEnds
Reply  == ReplyBegins \/ ReplyAudio \/ BargeIn \/ ReplyEnds \/ Saved \/ PumpDies
Greet  == GreetAsks \/ GreetAudio \/ GreetEnds \/ GreetFallback
Close  == LimitReached \/ CloseSpeaks \/ NapOver \/ HangUp

Next ==
    /\ \/ Stt \/ Turns \/ Reply \/ Greet \/ Close \/ Tick
    /\ UNCHANGED call

Spec == Init /\ [][Next]_vars

\* asyncio runs what is ready, time passes, and synthesis ends one way or the
\* other, and what Deepgram holds is settled.  The caller owes nothing.
Work ==
    /\ \/ Turns \/ ReplyBegins \/ BargeIn \/ ReplyEnds \/ Saved
       \/ GreetAudio \/ GreetEnds \/ GreetFallback \/ CloseSpeaks \/ Delivered
    /\ UNCHANGED call

FairSpec == Spec /\ WF_vars(Work) /\ WF_vars(Tick)

-----------------------------------------------------------------------------
(* Properties *)

Speakers == 0..(MaxHeard + 1)
Ages     == 0..(Retention + 1)
Chunks   == [by : Speakers, since : Ages]

TypeOK ==
    /\ {up, started, sttUp, blind} \subseteq BOOLEAN
    /\ live \in {"none", "caller", "ours"}
    /\ queue \in Seq(0..MaxHeard) /\ parts \in Seq(1..MaxHeard)
    /\ answered \in Seq(1..MaxHeard)
    /\ pump \in {"wait", "gather", "turn", "speak", "save", "off"}
    /\ quiet \in 0..(IF Idle > Window THEN Idle ELSE Window)
    /\ left \in 0..MaxHold
    /\ turn \in 0..MaxHeard /\ heard \in 0..MaxHeard
    /\ call \in Calls /\ chunks \in 0..(call.chunks + 1)
    /\ line \in Seq({"reply", "greet", "close"})
    /\ greet \in {"built", "line", "speak", "done"}
    /\ close \in {"off", "armed", "line", "sleep", "hangup", "done"}
    /\ nap \in 0..2 /\ age \in Nat /\ until \in Nat /\ lag \in 0..(EchoTail + 1)
    /\ noted \in [greet : Ages, reply : Ages] /\ since \in [1..MaxHeard -> Ages]
    /\ buffer \in Seq(Chunks) /\ out \in Seq(Speakers)
    /\ ours \subseteq 1..MaxHeard /\ merged \subseteq 1..MaxHeard

\* Greeting, replies and goodbye are each heard in one piece: once somebody
\* else's audio has been sent, nobody goes on ("overlapping replies would
\* interleave audio").
NeverInterleaved ==
    \A i, j \in DOMAIN out : out[i] = out[j] => i = j

\* Every utterance of the caller is in exactly one turn or on its way to one,
\* in the order it was said, or its text is in the part before it: through
\* coalescing, echoes between the parts, the deadline, the sentinel, and replies
\* that are interrupted or fail.
EachWordInOneTurn ==
    LET all == answered \o parts \o queue  \* and 0, the sentinel
    IN /\ \A i, j \in DOMAIN all : i < j /\ all[j] # 0 => 0 < all[i] /\ all[i] < all[j]
       /\ 1..heard \subseteq SetOf(all) \cup ours \cup merged

\* A talkative caller is answered all the same: from the first utterance of a
\* turn to the end of gathering it no more than COALESCE_MAX passes.
HeldNoLongerThanMax == age <= MaxHold

\* While its replies have audio and all the audio is accounted for, the assistant
\* answers its own words only where they were handed to synthesis longer ago than
\* RETENTION_SECONDS, whatever was waiting in the queue.  It does then, as late in
\* a reply that plays for longer than that, although the comment has it that
\* "the window check below is what actually bounds it" (turn_taking.py 33-34).
NeverAnswersItself == ~blind => \A n \in ours \cap SetOf(answered) : Pruned(n)

\* No utterance waits for good behind the greeting, the goodbye or another
\* reply, as long as the pump runs and the call is up: time and again none waits.
EveryUtteranceTaken ==
    []<>(\/ SetOf(queue) \subseteq {0} /\ parts = <<>> /\ pump # "turn"
         \/ pump = "off" \/ ~up)
=============================================================================
