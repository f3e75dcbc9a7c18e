----------------------------- MODULE Synthesis ------------------------------
(*****************************************************************************)
(* How a text becomes speech: a reply goes word by word into a synthesis     *)
(* socket while the model still writes it (app/voice/tts_live.py, the        *)
(* generator stream_voice_turn of app/voice/conversation.py), the greeting   *)
(* goes the same way and is kept in Redis (app/voice/router.py), and a       *)
(* browser gets clauses that were synthesised at the same time               *)
(* (app/voice/tts.py).  One text, spoken once; a greeting is spoken on two   *)
(* calls.                                                                    *)
(*                                                                           *)
(* Text is a sequence of characters: 0 is a space, n > 0 a letter of the     *)
(* n-th word, and a word of Stops ends a sentence.  Three tasks share the    *)
(* socket: the pump that feeds it, the reader that queues its audio and ends *)
(* the queue with a sentinel, and the consumer, which may turn away when the *)
(* caller talks over the reply.                                              *)
(*****************************************************************************)
EXTENDS Naturals, Sequences, FiniteSets, FiniteSetsExt

CONSTANTS
    Texts,      \* bound: the texts, single spaces between words
    Stops,      \* words with punctuation at their end
    Fillers,    \* _RETRIEVAL_FILLERS: they end with a space
    MinChunk, MaxChunk,  \* MIN_CHUNK_CHARS, MAX_CHUNK_CHARS
    MaxToken,   \* bound: characters of a token
    Pieces,     \* clauses of a browser reply, at least two
    MaxFaults   \* bound: calls that fail

ASSUME SynthesisAssumption ==
    /\ Texts \subseteq Seq(Nat) \ {<<>>} /\ Fillers \subseteq Seq(Nat) /\ Stops \subseteq Nat
    /\ {MinChunk, MaxChunk, MaxToken, Pieces, MaxFaults} \subseteq Nat
    /\ MaxChunk > 1 /\ MaxToken > 0 /\ Pieces > 1

\* Two words with no space between them.
Glued(s) == \E i \in 1..Len(s) - 1 : s[i] # s[i + 1] /\ 0 \notin {s[i], s[i + 1]}

\* It starts with a word, and spaces are single.
Spaced(s) == s[1] # 0 /\ \A i \in 1..Len(s) - 1 : 0 \in {s[i], s[i + 1]} => s[i] # s[i + 1]

ASSUME TextAssumption ==
    /\ \A t \in Texts \cup Fillers : t # <<>> /\ Spaced(t) /\ ~Glued(t)
    /\ \A f \in Fillers : f[Len(f)] = 0

Modes == {"reply", "translated", "greeting", "browser"}

VARIABLES
    mode, text,
    rest,      \* what the model has not written yet
    gen,       \* stream_voice_turn, or the greeting's _one
    fragment,  \* the buffer of sentence_chunks
    buffer,    \* the buffer of the pump
    pumping,
    socket,    \* "open", "flush" when Flush was sent, "down"
    fed,       \* what was sent to be spoken, piece by piece
    queued,    \* pieces whose audio is in the queue or was taken
    ended,     \* the sentinel is in the queue
    heard,     \* pieces the consumer passed to Twilio
    voice,     \* the consumer
    recorded,  \* the turn is in the session's transcript
    cache,     \* greeting_mulaw:{text}: what the audio under a text says
    calls,     \* greetings that are over
    part,      \* the clauses' requests
    played,    \* what the browser is given: clauses in order, or the whole (0)
    faults

\* History.
VARIABLE written  \* all that was passed to the pump

source == <<mode, text, rest, gen, fragment, recorded>>
feeder == <<buffer, pumping, fed, written>>
audio  == <<queued, ended, heard, voice>>
keep   == <<cache, calls>>
page   == <<part, played>>
speechVars == <<source, feeder, socket, audio, keep, page, faults>>

Phone == mode # "browser"
Fails == faults < MaxFaults /\ faults' = faults + 1

Spaces(s)  == {i \in 1..Len(s) : s[i] = 0}
Letters(s) == (1..Len(s)) \ Spaces(s)
Strip(s)   == IF Letters(s) = {} THEN <<>> ELSE SubSeq(s, Min(Letters(s)), Max(Letters(s)))
From(s, i) == SubSeq(s, i, Len(s))

Joined(pieces) ==
    LET join[i \in 0..Len(pieces)] == IF i = 0 THEN <<>> ELSE join[i - 1] \o pieces[i]
    IN  join[Len(pieces)]

-----------------------------------------------------------------------------
(* The model's tokens, and sentence_chunks *)

\* Where sentence_chunks cuts its buffer: after this many characters, or 0.
\* Without a full stop in sight at the last space, or in the middle of a word.
Cut(b) ==
    LET spaces == {i \in Spaces(b) : i \in 2..MaxChunk}
        stops  == {i \in Spaces(b) : i > 1 /\ b[i - 1] \in Stops
                                     /\ Len(Strip(SubSeq(b, 1, i - 1))) >= MinChunk}
    IN  IF Len(b) >= MaxChunk
        THEN IF spaces = {} THEN MaxChunk ELSE Max(spaces) - 1
        ELSE IF stops = {} THEN 0 ELSE Min(stops) - 1

\* Mutant of Ready: everything that is there is sent, words or not.
AllOfIt(b) == Len(b)

\* How much of its buffer the pump sends: to the last space.
Ready(b) == IF Spaces(b) = {} THEN 0 ELSE Max(Spaces(b))

\* The pump adds a token to its buffer, and sends the words that are whole.
Pumped(token) ==
    LET b == buffer \o token
        n == Ready(b)
    IN  /\ written' = written \o token
        /\ buffer' = From(b, n + 1)
        /\ fed' = IF Strip(SubSeq(b, 1, n)) = <<>> THEN fed ELSE Append(fed, SubSeq(b, 1, n))

\* Retrieval took less than FILLER_AFTER_SECONDS, or a filler is spoken into it.
\* Past the hard close CLOSING_LINE, one of the texts, is the only token.
BuildContext ==
    /\ gen = "context" /\ pumping = "run" /\ socket = "open"
    /\ \/ gen' = "tokens" /\ UNCHANGED <<buffer, fed, written>>
       \/ gen' = "retrieval" /\ \E f \in Fillers : Pumped(f)
    /\ UNCHANGED <<mode, text, rest, fragment, recorded, pumping, socket, audio, keep, page,
                   faults>>

ContextReady ==
    /\ gen = "retrieval" /\ pumping = "run" /\ gen' = "tokens"
    /\ UNCHANGED <<mode, text, rest, fragment, recorded, feeder, socket, audio, keep, page,
                   faults>>

\* A token of the model; a greeting is one token.
Token ==
    \E n \in 1..Len(rest) :
        /\ n = Len(rest) \/ (n <= MaxToken /\ mode # "greeting")
        /\ gen = "tokens" /\ pumping = "run" /\ socket = "open"
        /\ rest' = From(rest, n + 1)
        /\ IF mode = "translated"
           THEN /\ Cut(fragment) = 0
                /\ fragment' = fragment \o SubSeq(rest, 1, n)
                /\ UNCHANGED <<buffer, fed, written>>
           ELSE Pumped(SubSeq(rest, 1, n)) /\ UNCHANGED fragment
        /\ UNCHANGED <<mode, text, gen, recorded, pumping, socket, audio, keep, page, faults>>

\* A fragment of sentence_chunks, translated; the last one is what is left.
Fragment ==
    LET n == IF Cut(fragment) # 0 THEN Cut(fragment) ELSE Len(fragment) IN
    /\ gen = "tokens" /\ pumping = "run" /\ socket = "open"
    /\ fragment # <<>> /\ (Cut(fragment) # 0 \/ rest = <<>>)
    /\ Pumped(Strip(SubSeq(fragment, 1, n)))
    /\ fragment' = LET left == From(fragment, n + 1) IN
                   IF Letters(left) = {} THEN <<>> ELSE From(left, Min(Letters(left)))
    /\ UNCHANGED <<mode, text, rest, gen, recorded, pumping, socket, audio, keep, page, faults>>

\* The pump asks for another token, and the generator records the turn and ends.
Record ==
    /\ gen = "tokens" /\ pumping = "run" /\ rest = <<>> /\ fragment = <<>>
    /\ gen' = "over" /\ recorded' = (mode # "greeting")
    /\ pumping' = "tail"
    /\ UNCHANGED <<mode, text, rest, fragment, buffer, fed, written, socket, audio, keep, page,
                   faults>>

\* The model, the translation or a send raises, which is logged.
GenerationFails ==
    /\ gen \in {"context", "retrieval", "tokens"} /\ mode # "greeting" /\ pumping = "run"
    /\ Fails \/ (socket = "down" /\ UNCHANGED faults)
    /\ gen' = "over" /\ pumping' = "finish"
    /\ UNCHANGED <<mode, text, rest, fragment, recorded, buffer, fed, written, socket, audio,
                   keep, page>>

\* Mutant of LastWord: what follows the last space is forgotten.
ForgetLastWord ==
    /\ pumping = "tail" /\ pumping' = "finish"
    /\ buffer' = <<>>
    /\ UNCHANGED <<source, fed, written, socket, audio, keep, page, faults>>

\* The end of the pump: the last word, then Flush.
LastWord ==
    /\ pumping = "tail" /\ pumping' = "finish"
    /\ fed' = IF Strip(buffer) # <<>> /\ socket = "open" THEN Append(fed, buffer) ELSE fed
    /\ buffer' = <<>>
    /\ UNCHANGED <<source, written, socket, audio, keep, page, faults>>

Finish ==
    /\ pumping = "finish" /\ pumping' = "over"
    /\ socket' = IF socket = "open" THEN "flush" ELSE socket
    /\ UNCHANGED <<source, buffer, fed, written, audio, keep, page, faults>>

-----------------------------------------------------------------------------
(* The socket, the reader and the consumer *)

\* Deepgram renders in order, and the reader queues what comes.
Render ==
    /\ socket # "down" /\ ~ended /\ queued < Len(fed)
    /\ queued' = queued + 1
    /\ UNCHANGED <<source, feeder, socket, ended, heard, voice, keep, page, faults>>

\* "Flushed": the reader is done.
Flushed ==
    /\ socket = "flush" /\ queued = Len(fed) /\ ~ended
    /\ ended' = TRUE
    /\ UNCHANGED <<source, feeder, socket, queued, heard, voice, keep, page, faults>>

\* Mutant of SocketDrops: the sentinel is only queued where the loop ends well.
DropsUnnoticed ==
    /\ Phone /\ socket # "down" /\ voice = "listen" /\ Fails
    /\ socket' = "down"
    /\ UNCHANGED <<source, feeder, audio, keep, page>>

\* The connection is lost, and the reader ends all the same.
SocketDrops ==
    /\ Phone /\ socket # "down" /\ voice = "listen" /\ Fails
    /\ socket' = "down" /\ ended' = TRUE
    /\ UNCHANGED <<source, feeder, queued, heard, voice, keep, page>>

Hear ==
    /\ voice = "listen" /\ heard < queued
    /\ heard' = heard + 1
    /\ UNCHANGED <<source, feeder, socket, queued, ended, voice, keep, page, faults>>

\* The sentinel.  speak_tokens cancels the pump if it still runs, and closes.
EndOfAudio ==
    /\ voice = "listen" /\ ended /\ heard = queued
    /\ voice' = IF mode = "greeting" THEN "collected" ELSE "done"
    /\ pumping' = "over" /\ socket' = "down"
    /\ UNCHANGED <<source, buffer, fed, written, queued, ended, heard, keep, page, faults>>

\* The caller talks over the reply; the generator that is left is closed later.
Interrupt ==
    /\ voice = "listen" /\ mode \in {"reply", "translated"} /\ heard < queued
    /\ voice' = "gone"
    /\ UNCHANGED <<source, feeder, socket, queued, ended, heard, keep, page, faults>>

CloseAbandoned ==
    /\ voice = "gone" /\ socket # "down"
    /\ pumping' = "over" /\ socket' = "down"
    /\ UNCHANGED <<source, buffer, fed, written, audio, keep, page, faults>>

\* SpeakStream.__aenter__ raises: a greeting is synthesised another way, a reply
\* is not heard.
ConnectFails ==
    /\ Phone /\ voice = "listen" /\ socket = "open" /\ written = <<>>
    /\ gen \in {"context", "tokens"} /\ rest = text /\ fragment = <<>> /\ Fails
    /\ voice' = IF mode = "greeting" THEN "fallback" ELSE "failed"
    /\ pumping' = "over" /\ socket' = "down" /\ gen' = "over"
    /\ UNCHANGED <<mode, text, rest, fragment, recorded, buffer, fed, written, queued, ended,
                   heard, keep, page>>

\* synthesize_to_mulaw: the audio of the whole text, or none.
SynthesizeToMulaw ==
    \/ queued' = 1 /\ UNCHANGED faults
    \/ UNCHANGED queued /\ Fails

\* _send_tts: that audio is sent at once and not kept; without it Twilio is asked
\* to <Say> the text, which ends the stream, or nobody says it.
SendTts ==
    /\ voice = "fallback" /\ SynthesizeToMulaw
    /\ heard' = queued'
    /\ IF queued' = 1 THEN voice' = "done" /\ fed' = <<text>> /\ written' = text
                      ELSE voice' = "failed" /\ UNCHANGED <<fed, written>>
    /\ UNCHANGED <<source, buffer, pumping, socket, ended, keep, page>>

-----------------------------------------------------------------------------
(* The greeting's cache *)

\* What was collected is kept for the next call.
CacheGreeting ==
    /\ voice = "collected" /\ voice' = "done"
    /\ \/ cache' = [cache EXCEPT ![text] = Joined(SubSeq(fed, 1, heard))] /\ UNCHANGED faults
       \/ Fails /\ UNCHANGED cache
    /\ UNCHANGED <<source, feeder, socket, queued, ended, heard, calls, page>>

CacheExpires(t) ==
    /\ cache[t] # <<>> /\ cache' = [cache EXCEPT ![t] = <<>>]
    /\ UNCHANGED <<source, feeder, socket, audio, calls, page, faults>>

\* _build_greeting: by the company's name and its listings, which may change
\* between two calls; a plain opener when they cannot be read.
BuildGreeting == text' \in Texts

\* The next call: what is in Redis under its text is played, or the text is
\* spoken anew.
NextCall ==
    /\ mode = "greeting" /\ voice \in {"done", "failed"} /\ calls = 0 /\ calls' = 1
    /\ BuildGreeting
    /\ IF cache[text'] # <<>>
       THEN /\ fed' = <<cache[text']>> /\ written' = cache[text'] /\ queued' = 1 /\ heard' = 1
            /\ voice' = "done"
            /\ UNCHANGED <<rest, gen, buffer, pumping, socket, ended>>
       ELSE /\ rest' = text' /\ gen' = "tokens" /\ pumping' = "run" /\ socket' = "open"
            /\ buffer' = <<>> /\ fed' = <<>> /\ written' = <<>>
            /\ queued' = 0 /\ ended' = FALSE /\ heard' = 0 /\ voice' = "listen"
    /\ UNCHANGED <<mode, fragment, recorded, cache, page, faults>>

-----------------------------------------------------------------------------
(* A browser's reply: synthesize_browser *)

ClauseAnswered(p) ==
    /\ mode = "browser" /\ part[p] = "asked"
    /\ \/ part' = [part EXCEPT ![p] = "audio"] /\ UNCHANGED faults
       \/ Fails /\ \E s \in {"empty", "raised"} : part' = [part EXCEPT ![p] = s]
    /\ UNCHANGED <<source, feeder, socket, audio, keep, played>>

\* All of them in the order of the text, or the whole text at once, which may
\* come to nothing.  An exception does not wait for the others.
JoinClauses ==
    LET raised == \E p \in 1..Pieces : part[p] = "raised" IN
    /\ mode = "browser" /\ voice = "listen" /\ voice' = "done"
    /\ raised \/ \A p \in 1..Pieces : part[p] # "asked"
    /\ IF \A p \in 1..Pieces : part[p] = "audio"
       THEN played' = [p \in 1..Pieces |-> p] /\ UNCHANGED faults
       ELSE \/ played' = <<0>> /\ UNCHANGED faults
            \/ played' = <<>> /\ Fails
    /\ UNCHANGED <<source, feeder, socket, queued, ended, heard, keep, part>>

-----------------------------------------------------------------------------
SpeechInit ==
    /\ mode \in Modes /\ text \in Texts
    /\ rest = text
    /\ gen = IF mode = "greeting" THEN "tokens" ELSE "context"
    /\ fragment = <<>> /\ recorded = FALSE
    /\ buffer = <<>> /\ fed = <<>> /\ written = <<>>
    /\ pumping = IF Phone THEN "run" ELSE "over"
    /\ socket = IF Phone THEN "open" ELSE "down"
    /\ queued = 0 /\ ended = FALSE /\ heard = 0 /\ voice = "listen"
    /\ cache = [t \in Texts |-> <<>>] /\ calls = 0
    /\ part = [p \in 1..Pieces |-> "asked"] /\ played = <<>>
    /\ faults = 0

Tasks ==
    \/ BuildContext \/ ContextReady \/ Token \/ Fragment \/ Record \/ LastWord \/ Finish
    \/ Render \/ Flushed \/ Hear \/ EndOfAudio \/ CloseAbandoned \/ SendTts
    \/ CacheGreeting
    \/ (socket = "down" /\ GenerationFails)
    \/ JoinClauses \/ \E p \in 1..Pieces : ClauseAnswered(p)

SpeechNext ==
    \/ Tasks
    \/ GenerationFails \/ SocketDrops \/ Interrupt \/ ConnectFails
    \/ NextCall \/ \E t \in Texts : CacheExpires(t)

SpeechSpec     == SpeechInit /\ [][SpeechNext]_speechVars
SpeechFairSpec == SpeechSpec /\ WF_speechVars(Tasks)

SpeechTypeOK ==
    /\ mode \in Modes /\ text \in Texts
    /\ rest \in Seq(Nat) /\ fragment \in Seq(Nat) /\ buffer \in Seq(Nat) /\ written \in Seq(Nat)
    /\ gen \in {"context", "retrieval", "tokens", "over"}
    /\ pumping \in {"run", "tail", "finish", "over"} /\ socket \in {"open", "flush", "down"}
    /\ fed \in Seq(Seq(Nat)) /\ heard \in 0..Len(fed) /\ queued \in heard..Len(fed)
    /\ voice \in {"listen", "collected", "fallback", "done", "gone", "failed"}
    /\ ended \in BOOLEAN /\ recorded \in BOOLEAN /\ calls \in {0, 1}
    /\ cache \in [Texts -> Seq(Nat)]
    /\ part \in [1..Pieces -> {"asked", "audio", "empty", "raised"}] /\ faults \in 0..MaxFaults

-----------------------------------------------------------------------------
\* Does a piece of s end inside a word?
SplitsWord(s, i) == i < Len(s) /\ s[i] # 0 /\ s[i + 1] = s[i]

(* "Whole words are sent rather than raw tokens", in the order they were          *)
(* written: nothing is left out between two pieces, no piece ends inside a word,  *)
(* and a filler does not run into the reply; and the browser hears the clauses in *)
(* their order or the whole text, whenever their requests are answered.           *)
SpokenInOrder ==
    /\ LET said == Joined(fed) IN
       /\ Len(said) <= Len(written) /\ said = SubSeq(written, 1, Len(said))
       /\ \A n \in 1..Len(fed) : ~SplitsWord(written, Len(Joined(SubSeq(fed, 1, n))))
       /\ mode = "reply" => ~Glued(written)
    /\ played \in {<<>>, <<0>>, [p \in 1..Pieces |-> p]}

(* The transcript and the voice: a turn is recorded only when the model has *)
(* written all of it; and one that was spoken to its end without a fault is *)
(* recorded, and every word that went to the pump was heard.                *)
RecordedIsSpoken ==
    /\ recorded => rest = <<>> /\ fragment = <<>> /\ mode \in {"reply", "translated"}
    /\ voice = "done" /\ faults = 0 /\ mode \in {"reply", "translated"} =>
          recorded /\ Joined(fed) = written /\ heard = Len(fed)

(* Nobody waits for audio that will not come: whether the reply is finished, the *)
(* model fails or the socket is lost, the speaker's loop over the audio ends.    *)
VoiceEnds == (voice = "listen") ~> (voice # "listen")

(* "A cache hit replays the rendered audio": what is kept of a greeting is the    *)
(* whole greeting.                                                                *)
GreetingWhole == \A t \in Texts : cache[t] \in {<<>>, t}
=============================================================================
