------------------------------ MODULE SttStream ------------------------------
(***************************************************************************)
(* DeepgramStream (app/voice/stt_stream.py): turning what Deepgram sends   *)
(* into the caller's utterances, put on a queue for the pump of turns.     *)
(*                                                                         *)
(* Two tasks share the held text: the read loop, which Deepgram's messages *)
(* drive, and the settle loop, a timer.  Either may flush.  What Deepgram  *)
(* sends is external: it analyses the audio in order, as slowly as it      *)
(* likes, repeats itself, finalises a segment when it likes or never, and  *)
(* may or may not say that the caller has stopped.                         *)
(*                                                                         *)
(* Data abstraction: the audio forwarded is a sequence of slots, each a    *)
(* word or silence, and a slot is one SILENCE_SECONDS.  Words are numbered *)
(* in the order they are said; a text is a sequence of word numbers and    *)
(* Content gives the wording, so two words may read the same.              *)
(***************************************************************************)
EXTENDS Naturals, Sequences, FiniteSets

CONSTANTS
    MaxSlots,   \* bound: audio slots of the call
    Content     \* wording of the i-th word said

ASSUME SlotsAssumption   == MaxSlots \in Nat
ASSUME ContentAssumption == DOMAIN Content = 1..MaxSlots

VARIABLES
    track,      \* the audio: which slots carry a word
    voiceUntil, \* _voice_until: last slot our own VAD took for voice
    processed,  \* _processed_to: how far Deepgram says it has analysed
    segStart,   \* Deepgram: words it has finalised
    final,      \* _final, its segments joined
    interim,    \* _interim
    idle,       \* 0, 1, 2: held text unchanged for < SETTLE, >= SETTLE, >= HARD
    delivered,  \* _delivered
    queue,      \* _queue; the empty text is the sentinel
    reader,     \* the read loop: "running" or "ended"
    closed,     \* _closed, once the settle loop has made its last pass
    answered    \* history: the words put on the queue so far

streamVars == <<track, voiceUntil, processed, segStart, final, interim, idle,
                delivered, queue, reader, closed, answered>>

audioVars == <<track, voiceUntil>>
engine    == <<processed, segStart>>
held      == <<final, interim, idle>>
output    == <<delivered, queue, answered>>

\* Words said in the first n slots.
WordsBy(n) == Cardinality({k \in 1..n : k <= Len(track) /\ track[k]})

Text(a, b)   == [i \in 1..(b - a) |-> a + i]       \* words a+1 .. b
Wording(t)   == [i \in DOMAIN t |-> Content[t[i]]]
WordSet(t)   == {t[i] : i \in DOMAIN t}
Holding      == final # <<>> \/ interim # <<>>
\* Mutant of live_text: interim results hide what is already final.
InterimFirst == IF interim # <<>> THEN interim ELSE final

live_text    == final \o interim

_matches_delivered(text) ==
    delivered # <<>> /\ Wording(text) = Wording(delivered)

\* Mutant of _caller_finished: silence of the transcript is silence.
CallerAssumedFinished == TRUE

\* Has Deepgram analysed far enough past the caller's last word?
_caller_finished == voiceUntil = 0 \/ processed >= voiceUntil + 1

-----------------------------------------------------------------------------
\* note_audio and send: one more slot, and whether the VAD takes it for voice.
\* The VAD compares peaks with a noise floor, so it can be wrong both ways.
Audio(word, voiced) ==
    /\ ~closed
    /\ Len(track) < MaxSlots
    /\ track' = Append(track, word)
    /\ voiceUntil' = IF voiced THEN Len(track) + 1 ELSE voiceUntil
    /\ UNCHANGED <<engine, held, output, reader, closed>>

\* _flush of the text t: clear what is held, remember it, queue it.
Flush(t) ==
    /\ final' = <<>> /\ interim' = <<>> /\ idle' = 0
    /\ IF t # <<>>
       THEN /\ delivered' = t
            /\ queue' = Append(queue, t)
            /\ answered' = answered \cup WordSet(t)
       ELSE UNCHANGED output

\* A Results message for the current segment, analysed up to slot p.
Analysed(p) ==
    /\ reader = "running"
    /\ p \in processed..Len(track)
    /\ processed' = p

Segment(p) == Text(segStart, WordsBy(p))

ResultsRepeat(p, isFinal) ==
    /\ Analysed(p)
    /\ Segment(p) # <<>>
    /\ _matches_delivered(Segment(p))
    /\ segStart' = IF isFinal THEN WordsBy(p) ELSE segStart
    /\ UNCHANGED <<audioVars, held, output, reader, closed>>

ResultsInterim(p) ==
    LET text == Segment(p) IN
    /\ Analysed(p)
    /\ ~(text # <<>> /\ _matches_delivered(text))
    /\ IF Wording(text) # Wording(interim)
       THEN interim' = text /\ idle' = 0
       ELSE UNCHANGED <<interim, idle>>
    /\ UNCHANGED <<audioVars, segStart, final, output, reader, closed>>

ResultsFinal(p, speechFinal) ==
    LET text == Segment(p) IN
    /\ Analysed(p)
    /\ ~(text # <<>> /\ _matches_delivered(text))
    /\ segStart' = WordsBy(p)
    /\ IF speechFinal
       THEN Flush(IF text # <<>> THEN final \o text ELSE live_text)
       ELSE /\ IF text # <<>>
               THEN final' = final \o text /\ interim' = <<>> /\ idle' = 0
               ELSE UNCHANGED held
            /\ UNCHANGED output
    /\ UNCHANGED <<audioVars, reader, closed>>

\* Mutant of UtteranceEnd: only finalised segments are flushed.
FlushesFinalOnly ==
    /\ reader = "running"
    /\ Flush(final)
    /\ UNCHANGED <<audioVars, engine, reader, closed>>

UtteranceEnd ==
    /\ reader = "running"
    /\ Flush(live_text)
    /\ UNCHANGED <<audioVars, engine, reader, closed>>

\* The settle loop's two tests, made every 0.1 s while something is held.
Settle ==
    /\ ~closed
    /\ Holding
    /\ idle = 1 /\ _caller_finished
    /\ Flush(live_text)
    /\ UNCHANGED <<audioVars, engine, reader, closed>>

\* Mutant of HardSettle: it, too, waits for Deepgram to be past the voice.
HardSettleWaits ==
    /\ ~closed
    /\ Holding
    /\ idle = 2 /\ _caller_finished
    /\ Flush(live_text)
    /\ UNCHANGED <<audioVars, engine, reader, closed>>

HardSettle ==
    /\ ~closed
    /\ Holding
    /\ idle = 2
    /\ Flush(live_text)
    /\ UNCHANGED <<audioVars, engine, reader, closed>>

\* Time passes over a held text that does not change.
Tick ==
    /\ Holding
    /\ idle < 2
    /\ idle' = idle + 1
    /\ UNCHANGED <<audioVars, engine, final, interim, output, reader, closed>>

\* send finds the socket closed, or close(): the settle loop, asleep between two
\* passes, makes one more and then stops.
Closes ==
    /\ ~closed
    /\ closed' = TRUE
    /\ UNCHANGED <<audioVars, engine, held, output, reader>>

\* The socket ends, an exception, or close() cancels the task: the finally
\* flushes and puts the sentinel.
ReaderEnds ==
    /\ reader = "running"
    /\ reader' = "ended"
    /\ final' = <<>> /\ interim' = <<>> /\ idle' = 0
    /\ delivered' = IF Holding THEN live_text ELSE delivered
    /\ queue' = (IF Holding THEN Append(queue, live_text) ELSE queue) \o <<<<>>>>
    /\ answered' = answered \cup WordSet(live_text)
    /\ UNCHANGED <<audioVars, engine, closed>>

\* next_utterance
Take ==
    /\ queue # <<>>
    /\ queue' = Tail(queue)
    /\ UNCHANGED <<audioVars, engine, held, delivered, answered, reader, closed>>

-----------------------------------------------------------------------------
StreamInit ==
    /\ track = <<>> /\ voiceUntil = 0
    /\ processed = 0 /\ segStart = 0
    /\ final = <<>> /\ interim = <<>> /\ idle = 0
    /\ delivered = <<>> /\ queue = <<>> /\ answered = {}
    /\ reader = "running" /\ closed = FALSE

Results(p) ==
    \/ \E b \in BOOLEAN : ResultsRepeat(p, b) \/ ResultsFinal(p, b)
    \/ ResultsInterim(p)

StreamNext ==
    \/ \E word, voiced \in BOOLEAN : Audio(word, voiced)
    \/ \E p \in 0..MaxSlots : Results(p)
    \/ UtteranceEnd
    \/ Settle
    \/ HardSettle
    \/ Tick
    \/ Closes
    \/ ReaderEnds
    \/ Take

StreamSpec == StreamInit /\ [][StreamNext]_streamVars

\* Deepgram works through the audio it was sent, time passes, the settle loop
\* polls, and the consumer takes what is queued.  Finals, speech_final and
\* UtteranceEnd are owed by nobody: about half the time they never come.
StreamFairSpec ==
    /\ StreamSpec
    /\ WF_streamVars(\E p \in 0..MaxSlots : p > processed /\ Results(p))
    /\ WF_streamVars(Tick)
    /\ WF_streamVars(Settle)
    /\ WF_streamVars(HardSettle)
    /\ WF_streamVars(Take)
    /\ WF_streamVars(closed /\ ReaderEnds)

-----------------------------------------------------------------------------
Said == WordsBy(Len(track))
Heard == WordsBy(processed)
WordSeq == Seq(1..MaxSlots)

StreamTypeOK ==
    /\ track \in Seq(BOOLEAN) /\ Len(track) <= MaxSlots
    /\ voiceUntil \in 0..Len(track)
    /\ processed \in 0..Len(track)
    /\ segStart \in 0..MaxSlots
    /\ final \in WordSeq /\ interim \in WordSeq /\ delivered \in WordSeq
    /\ queue \in Seq(WordSeq)
    /\ idle \in 0..2
    /\ answered \in SUBSET (1..MaxSlots)
    /\ reader \in {"running", "ended"}
    /\ closed \in BOOLEAN

\* Every word Deepgram has analysed has been queued or is being held, through
\* interims that are replaced, finals that overlap them, repeats that are
\* skipped and flushes from either loop.  It holds
\* where all words read differently: a word that reads like the one delivered
\* before is taken for Deepgram repeating itself.
NoWordLost ==
    1..Heard \subseteq answered \cup WordSet(live_text)

\* The words put on the queue are always an initial part of what the caller said,
\* and each utterance on it is a stretch of it: finals, interims and the flushes
\* of two loops leave no word out and turn no words around, within an utterance
\* or between them.  (A word may be queued again, when a segment flushed with
\* the one before it is repeated: _matches_delivered compares whole utterances.)
AnsweredInOrder ==
    /\ answered = 1..Cardinality(answered)
    /\ \A i \in 1..Len(queue) : \E a, b \in 0..MaxSlots : queue[i] = Text(a, b)

\* A transcript that has merely stalled is not a caller who stopped: a turn
\* settled on SETTLE_SECONDS holds every word up to the last frame our own VAD
\* took for voice (the call that was cut off in mid-question at "Hi. What
\* properties do you have").
SettlesOnlyWhatIsComplete ==
    [][Settle => 1..WordsBy(voiceUntil) \subseteq answered']_streamVars

\* A caller who was transcribed is answered although Deepgram never sends
\* speech_final or UtteranceEnd: every word said reaches the queue, unless the
\* socket ends first.
EveryWordAnswered ==
    \A w \in 1..MaxSlots : [](Said >= w => <>(w \in answered \/ reader = "ended"))
=============================================================================
