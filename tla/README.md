# NexaDesk in TLA+

NexaDesk (`src/app`) is a receptionist for companies: it answers their telephone
and their website's chat with a language model, turns what callers and visitors
say into leads, and tells other systems about them. This directory holds TLA+
models of the parts in which something can go wrong that a test would hardly
reach, TLC runs that check them, and machine-checked proofs.

## 1. Inventory

FastAPI, one asyncio event loop per uvicorn worker, several workers. Shared
state is in Supabase (Postgres), Redis and Qdrant; Twilio, Deepgram, the
language models, Google Calendar, HubSpot and Zoho are outside. Nothing but a
Redis lock in the webhook loop coordinates workers. A handler can be interrupted
at every `await`, and a synchronous database call made in the event loop stops
everything else of that worker.

| Component | State it keeps | Operations | Interacts with | Hard behaviour | What makes it correct | Module |
|---|---|---|---|---|---|---|
| Call lifecycle `voice/router.py`, `call_session.py` | Redis session of a call (TTL 1 h), rows `leads`, `conversations` | `inbound_call`, `media_stream`, `call_status`, `_finalize_call` | Twilio webhooks and media WebSocket; fires no event itself | stream and status callback race for one session; repeated callbacks; failures; TTL; 10 s drain | no call is lost, no turn is lost, one lead per call | `CallLifecycle`, implementing `CallLedger` |
| Live transcription `voice/stt_stream.py` | held final and interim text, the last delivered text, queue | `send`, `note_audio`, `_read_loop`, `_settle_loop`, `next_utterance`, `close` | Deepgram WebSocket; `collect_turn` takes from its queue | two loops flush the same text; missing, late and repeated messages | every word in order, none left out, and in the end | `SttStream` |
| Turn taking and speaking `voice/turn_taking.py`, `voice/router.py` | parts of a turn, `SpokenLog`, the `speaking` lock, what Twilio has buffered | `collect_turn`, `_speak_stream`, `_speak_greeting`, `_hard_close` | `SttStream`'s queue, synthesis, Twilio | three tasks speak; echo; barge-in; deadlines | one voice at a time, each utterance in one turn, no answering itself | `VoiceTurns` |
| Speech synthesis `voice/tts*.py`, the greeting's cache in `voice/router.py` | queue of audio per reply, `greeting_mulaw:{text}` in Redis | `SpeakStream`, `speak_tokens`, `sentence_chunks`, `_speak_greeting`, `synthesize_browser` | Deepgram's speech socket, Redis, the model's tokens | three tasks share a socket that fails inside a reply | words whole and in order, the end is always seen | `Synthesis` |
| Voice conversation, closing `voice/conversation.py`, `shared/closing.py` | history, closing stage, caller details in the session | `stream_voice_turn`, `build_greeting` | RAG, models | a turn broken off is not recorded | what is recorded was spoken | `Synthesis`, `CallLifecycle` (partly) |
| Chat `chat/*`, `agents/*` | Redis history (30 min), `conversations` row, `leads` rows | `POST /chat/message`, capture and placeholder of leads | models, RAG, live context | overlapping requests; read-modify-write; cache and row differ | no turn lost, history is right, one placeholder per visitor | `ChatSession` (partly) |
| Outgoing webhooks `integrations/events.py`, `router.py`, `main.py` | `webhook_logs`, `webhook_endpoints`, Redis lock, the Qdrant collection | `fire_event`, `_deliver`, `retry_failed_webhooks`, `lifespan` | leads and appointments fire events | lock expiry, crash between POST and update, workers that start together | every POST counted, retries to the end, nothing undone | `Webhooks` |
| CRM connections `integrations/crm*` | `crm_connections` with tokens, OAuth states in Redis | OAuth callback, `_sync_to_crms`, disconnect | HubSpot, Zoho; events | concurrent refresh of one token; reconnection under a sync | a usable token is not replaced by a stale one | `Crm` |
| Knowledge base `rag/*` | `documents`, chunks in Qdrant, job statuses in Redis | ingestion in the background, deletion, search | uploads, e-mail, properties | deletion during ingestion; partial ingestion; a restart | status is true, a chunk without its document is explained | `Knowledge` |
| Properties `properties/*` | `properties`, a text of each in Qdrant | CRUD, backfill script | knowledge base | texts of former states, in any order | the newest text is found | `Knowledge` |
| Live page context `rag/live_fetch.py`, `chat/router.py` | Redis context of a visitor under three keys | fetch, read, clear | chat, voice | expiry, two spellings of a number, a store after the clearing | a page is read by its call, and only that | `Visits` |
| Site analytics `analytics/*` | `site_visits`, `site_reviews`, `site_visitors` | tracking, reviews, digest | e-mail | events after the digest, two digests of one visitor | nothing learned is erased | `Visits` |
| Demo and limits `public/*`, `shared/session_store.py` | counters in Redis | `incr`, the endpoints behind a limit | every public endpoint | crash between INCR and EXPIRE | a limit ends | `Limits` |
| Pricing `pricing/*` | discount stage in Redis | `offer_discount` | models | read-modify-write | an offer never falls | `Limits` |
| Leads, appointments `leads/*` | `leads`, `appointments`, calendar tokens and events | CRUD, booking, cancelling | Google Calendar, webhooks, CRM | two systems written in turn | no event without an appointment, what is stored is announced | `Leads` |
| API keys, v1, MCP `api_keys_router.py`, `v1/*`, `mcp/*` | `api_keys` | create, revoke, validate, insert a lead | webhooks | count, then insert; a key revoked under use | at most `MAX_KEYS_PER_COMPANY` keys | `Access`, `Leads` (MCP partly) |
| Authentication `dependencies.py`, `auth/*`, `shared/jwks.py` | cache of signing keys, cache of a user's company | verify, resolve | Supabase Auth | overlapping fetches, stale caches | a withdrawn key ends, nobody is served for a company that is gone | `Access`, `Accounts` (partly) |
| Companies, invitations `companies/*`, `onboarding/*`, `admin/*` | `companies`, `demo_requests`, invite tokens in Redis | booking, activation link, child company | Supabase Auth, its trigger | one-use token, rollback without a transaction | a link works once, no orphan company | `Accounts` |
| Assistant, shared helpers | none | one model call over data read once | models | | | not modelled |
| Schema | tables | uniqueness, cascades, the new-user trigger | every writer | | | parts in `CallLifecycle`, `ChatSession`, `Accounts`, `Leads` |
| Dashboard, demo site, deployment, scripts, tests | | | | | | not modelled |

`PROJECT.json` lists every component with its files and what is left out of it,
and under `hazards` each place where this code can go wrong in a way that is
hard to test, with the properties that watch it.

How the components interact in the models: `Visits` extends `Limits`, `Accounts`
extends `Access` and `Leads` extends `Crm`, each pair one state machine whose
requests go through both; `CallLifecycle` instantiates `CallLedger`. `VoiceTurns`
takes utterances as `SttStream` delivers them (in order, none left out, what
`AnsweredInOrder` checks, and now and then one again) and speaks replies as
`Synthesis` produces them (pieces that end, one way or another: `VoiceEnds`). The
events `Leads` announces are the `Events` of `Webhooks`.

## 2. Plan

Order of work, most important behaviour first:

1. `CallLifecycle`, what a telephone call leaves behind; its proofs. Done.
2. `SttStream`, `VoiceTurns`: the pipeline inside a call. Done.
3. `Webhooks`, `ChatSession`. Done.
4. `Knowledge`, documents, chunks and listings; its proofs. Done.
5. `CallLedger`, what the handlers of a call promise together; the refinement
   checked and proved. Done.
6. The stores behind the rest: `Limits` and `Visits`, `Access` and `Accounts`,
   `Crm` and `Leads`. Done.
7. `Synthesis`, the speech of a reply, a greeting and a browser. Done.
8. Proofs about the invariants of `Webhooks`, `ChatSession`, `Access` and
   `Accounts`, `Limits` and `Visits`, `Crm` and `Leads`; and about the turns of a
   call, `VoiceTurns`. Done.
9. Proofs about the rest of the inside of a call: `SttStream` and `Synthesis`. Done.

Not begun: further abstract specifications, as a floor held by one speaker for
`VoiceTurns` and a log of deliveries for `Webhooks`. What they would promise,
`NeverInterleaved` and `PostsAccountedFor` say of the modules themselves.

Modules are written to be proved about: parameters are CONSTANTS with named
assumptions, one action per step between awaits, no recursive operator.

## 3. Modules

A step of a model is what a handler does between two awaits, or an await whose
outcome matters. Awaits that only read, or whose failure is caught without a
trace, are part of the step that follows. A handler whose database calls are
synchronous is interleaved with others all the same: they run in other workers.
*History variables* record what happened so that a property can speak of it; no
action's guard reads them, except where a bound on failures counts them. Where a
module takes `Plans`, a plan says what each request of a behaviour may ask: it
bounds the kinds of request that meet, never what one of them does. `TypeOK` is
each module's type invariant. Modules that meet in one proof module carry a prefix:
`StreamInit`, `StreamSpec` and so on in `SttStream`, `SpeechInit` in `Synthesis`.

### CallLifecycle

`stored` is the Redis value of `call_session:{sid}`, `live` the copy
`media_stream` loaded once and works on, `snap` the copy a status delivery
loaded. A session is the number of turns in its transcript, which only grows at
its end. `phase` is Twilio's view of a call. `Hooks` are deliveries of a terminal
status callback: Twilio may send more than one, and each is about the call
`target` says.

| Actions | Code |
|---|---|
| `Inbound`, `InboundRefused` | `inbound_call`, `_resolve_company_id`, `create_session` |
| `Connect`, `StreamStops`, `DrainEnds`, `FinalSave`, `StreamDies` | `media_stream`: load, receive loop, both `finally` blocks |
| `TurnStarts`, `TurnRecorded`, `TurnDropped`, `TurnSaved`, `PumpEnds` | `_pump_turns`, `stream_voice_turn`, `_speak_stream`, `save_session` |
| `Deliver`, `LoadMissing`, `LoadSession`, `InsertLead`, `InsertLeadEmpty`, `InsertConversation`, `DeleteSession`, `Raises` | `call_status`, `_finalize_call` |
| `Expire` | `SESSION_TTL` |

`Raises` includes an insert whose answer was lost, and the second conversation of
a call, which the UNIQUE `session_id` refuses (`Written`).

### CallLedger

What all of that is for: per call, the turns that were `said`, how many of them
the `session` keeps, and its conversation in `rows`. Its seven steps are `Answer`,
`Speak`, `Save` (which takes no turn away), `Write` (once), `Excuse` (the insert of
the lead came back empty), `Drop` (only behind a conversation or an excuse) and
`Lapse` (the hour is over). `CallLifecycle` maps its state on it: `said` is `live`,
`session` is `stored`, `rows` and `begun` are read off what the deliveries wrote
and the phases of the calls. `KeepsLedger` is `Ledger!Spec`.

### SttStream

The audio is a sequence of slots of `SILENCE_SECONDS`, a word or silence each.
Deepgram (external) analyses it in order, as slowly as it likes: `processed` is
how far it says it is, `segStart` where its current segment begins. Words are
numbered as they are said; `Content` gives their wording, so that two words may
read the same. `final`, `interim`, `delivered`, `voiceUntil`, `queue` are the
fields with an underscore. `idle` counts, in two steps, how long the held text
has not changed: `SETTLE_SECONDS`, then `SETTLE_HARD_SECONDS`.
`ResultsRepeat`, `ResultsInterim`, `ResultsFinal`, `UtteranceEnd`, `ReaderEnds`
are the branches of `_read_loop`; `Settle`, `HardSettle`, `Closes` the loop beside
it; `Audio` is `note_audio` and `send`, `Take` is `next_utterance`.

### VoiceTurns

The tasks of one call beside its receive loop. `pump` follows `collect_turn` and
`_speak_stream`, `greet` and `close` the other two speakers, `line` is the
`speaking` lock with those who wait for it in order. A tick of time is the playing
time of one chunk; `buffer` is what Twilio has not played, `until` and `lag` the
clock of `SpokenLog`. `ours` marks utterances whose words are the assistant's own,
which is what `is_echo` compares. It compares with what was noted within
`RETENTION_SECONDS` only (`_prune`), and a text is noted when it is synthesised, long
before it is heard: so each chunk in `buffer` carries the age of its text, `noted`
has that of the text being synthesised, and `since` that of each utterance of our
own words, which are those of the chunk that plays when they begin. Once an age is
above `Retention` the text is `Pruned` and the utterance is the caller's. Ages are
counted no further, and only as long as they can still be asked for (`Coming`). `merged` those that `merge_utterances` leaves
out because the part before contains them. `Calls` gives the kinds of call: with
or without the time limit of `_hard_close`, how many utterances, how many chunks
to a reply. An action that is ready comes before a tick (`Due`), as in an event
loop whose work takes no time. Two lines of `Due` are assumptions on the outside,
not code: an echo is transcribed before the tail in which it is recognised is
over, and a reply that has begun does not stall for longer than that.

### Synthesis

One text, spoken once in one of four modes, as a sequence of characters: a space,
or a letter of the n-th word. `gen` follows the generator `stream_voice_turn` (the
filler, `Token` by token, `Fragment` of a translation, `Record`, or
`GenerationFails`), the pump, at `pumping`, cuts what it yields at spaces (`Ready`, `Pumped`,
`LastWord`, `Finish`), the reader puts audio into the queue (`Render`) and ends it
(`Flushed`, `DropsUnnoticed`, `SocketDrops`), the consumer plays it (`Hear`,
`EndOfAudio`) or turns away (`Interrupt`, `CloseAbandoned`). A greeting falls back
to one request when the socket cannot be opened (`ConnectFails`,
`SynthesizeToMulaw`, `SendTts`) and is stored under its text (`CacheGreeting`);
`NextCall` plays it again, and its text may have changed (`BuildGreeting`).
`ClauseAnswered` and `JoinClauses` are the clauses of `synthesize_browser`, which
are asked for at once and come in any order.

`TextAssumption` is how a text is written down: white space between two words is one
space, letters of two words do not touch, and a filler ends with a space. The pump
skips a piece of nothing but white space (`if not text.strip()`); where the model
writes such a piece, what is spoken differs from what was written in spaces only.

### Webhooks

A row of `webhook_logs` is an event and an endpoint. A task (a dispatch, or one
worker's tick of the retry loop) reads rows into `todo` with their attempts,
POSTs one, and then records the answer from what it read: three steps, with a
crash or a failing update possible between them. `LockExpires` frees the lock
whoever works; `overran` counts when it does so under a running batch. A dispatch
runs in whichever worker took the request; the crash of a worker is the crash of
each of its tasks. An endpoint is created, switched and deleted (`endpoint`), its
rows with it, under whatever task holds them. Workers start at the same time
(`ListCollections`, `CreateCollection`, `CreateIndexes`): one creates the collection
in Qdrant and the others pass over the conflict; one whose start fails is assumed
to be started again, as uvicorn's supervisor does.

### ChatSession

The requests of one visitor's chat session. `pc` is where a request stands,
`cache` the history in Redis, `row` the transcript in `conversations`, `rowLead`
its lead, `leads` the rows inserted. A turn is the request that made it. A
request sends a lead it was told of (`told`), or, if `Forgetful`, none. `Answer`,
`AnswerCaptures` and `CaptureFails` are the orchestrator's turn by what it
extracts; `FindRow`, `WriteTurn`, `InsertRefused`, `PersistFails` are
`_persist_turn`; `LookForLead`, `InsertPlaceholder`, `LinkLead` are
`_get_or_create_session_lead`. Any request may die anywhere (`RequestDies`).

### Knowledge

`Files`, `Texts`, `Voices`, `Emails` are ingestions by how they came in; `step` is
where each is in `ingest_file` or `ingest_text`, and every external call of theirs
is a step that may fail, or take effect and raise all the same. `doc` is the row in
`documents`, `job` the status in Redis, `points` what Qdrant holds, `del` how far
`delete_document` got. It deletes the row only where that is of the caller's company,
and the chunks in any case: for a parent, whose list has its child companies'
documents, `DeleteRow` leaves the row and `DeleteChunks` takes the chunks (`stripped`). An e-mail is its attachment, through `ingest_file`, then its
body, whatever became of the attachment. `Dies` is the restart of the worker,
whose background tasks nobody takes up.

A listing has a version per save; `pending` are the saves whose text is being
ingested, `texts` those in Qdrant, by the save (`run` 0) or by a run of
`scripts/backfill_property_rag.py`. The script reads its rows once and clears and
stores one after the other. One run of it at a time is assumed.

### Limits and Visits

`Limits` is what Redis counts for anonymous visitors. `Count` is `INCR`, and only
the request that created the key goes on to `SetExpiry`; `CounterFails` is the
failing command or the death in between, which may leave a counter `unset`, without
an end. `ReadStage`, `WriteStage`, `SayOffer` are `offer_discount`, three awaits
around the stage of a haggle, and `Climb` the ladder.

`Visits` extends it with what the counted endpoints do. `Track`, `Review` and
`EndVisit` store; a digest then sleeps (`Sleep`), gathers the visit (`Gather`), and
reads and writes the visitor's one row (`ReadVisitor`, `UpsertVisitor`), beside the
digest of another visit. A page's text is stored under the session (`Store`), the
number as typed and the canonical number (`StoreAlias`); `Clear` is the page's
farewell, `CallEnds` and `ClearRaw` the end of a call, which clears by what a call
knows (`CallKeys`).

### Access and Accounts

`Access` has one worker's cache of Supabase's signing keys. `UseCache`,
`BeginFetch`, `FetchAnswered`, `FillCache`, `FetchFails` are `get_signing_key`: a
request that misses fetches, several may at once, and each fills the cache with
what it was answered when it asked. `Rotate` and `Retire` are Supabase's. `CountKeys`,
`InsertKey`, `RevokeKey` are the API keys of a company.

`Accounts` extends it with how an account comes to be. `Throttle` to `MailLink` are
`book_demo`; `Consume` the link, which is read and deleted in
one command; `ReadBooking`, `Invite`, `MarkInvited` the invitation;
`InsertChild`, `InviteChild`, `RollBack` a child company, whose request undoes
itself; `NewUser` the database's trigger. `Invites` and `InviteRaises` are the call
to Supabase: it may make the user and raise all the same. `CompanyFromCache`,
`LookUpCompany`, `CacheCompany`, `Serve` are `get_company_id`.

### Crm and Leads

`Crm` has the row of a connection (`conn`) and the refresh tokens the provider
honours (`live`). `IssueState`, `TakeState`, `ExchangeCode`, `UpsertConnection` are
OAuth; a sync reads the row (`ReadConnection`), may refresh (`Refresh`), stores
(`StoreTokens`, which updates the row with the id it read) and sends the lead
(`SendLead`). A provider may answer with a new refresh token, and the one before is
then void. Nothing keeps two syncs, or a sync and a reconnection, apart.

`Leads` extends it with the rows and the calendar. `ReadTokens`, `CreateEvent`,
`InsertAppointment`, `MarkLead`, `FireBooked` are `create_appointment`;
`ReadAppointment`, `DeleteEvent`, `DeleteAppointment` its deletion;
`InsertLead`, `UpdateLead`, `UpdateStatus`, `DeleteLead` the leads, `ValidateKey`
and `TouchLastUsed` the way in through an API key. `Fire` spawns the webhook dispatch
and, for a lead, the sync.

## 4. Runs

Passing runs check invariants, action properties and liveness together.

| Run | Bounds | What it shows |
|---|---|---|
| `call` | 1 call, 2 deliveries, 2 turns | `NothingLost`: a session that is gone was written down, or its hour was over. `DuplicateLeadExplained`: two leads only by overlap, failure, or a session saved again. `CompleteOnceClosed`: who finds the stream closed writes every turn. `TranscriptNeverShrinks`. `KeepsLedger`: the handlers implement `CallLedger`. `SessionGone`. |
| `call_complete` | 1 call, 1 delivery, 1 turn | *Violated*: `TranscriptComplete`. |
| `stt` | 4 slots | `NoWordLost`, `AnsweredInOrder`, `SettlesOnlyWhatIsComplete`, and `EveryWordAnswered` although Deepgram owes no end of utterance. |
| `turns` | a call with the time limit, 1 utterance and 2 chunks; without, 2 utterances and 2 chunks, or 3 utterances and 1 chunk; window 2 ticks, deadline 3, idle limit 2, echo tail 1, retention 2 | `NeverInterleaved`: each voice is heard in one piece. `EachWordInOneTurn`, `HeldNoLongerThanMax`. `NeverAnswersItself`: an echo is answered only when its text was pruned. `EveryUtteranceTaken`. |
| `webhooks` | 1 event, 1 endpoint, 2 workers, 2 retries, 1 fault, 1 expiry under a batch | `PostsAccountedFor`, `DeliveredIsFinal` while no batch outlives the lock; `RetriedToTheEnd` also when one does. |
| `chat` | 3 requests, 1 turn of history, 1 failure | `NoTurnLost`: a turn is missing only by a clash or a failure. `RemembersSession`, `OnePlaceholder`. |
| `knowledge` | any 3 requests among an upload, a voice note, an e-mail, 2 saves of a listing, deletions, 2 backfills | `StatusTellsTruth`: but for a deletion by a parent company. `OrphanExplained`, `NewestKnown`, `BackfillReplaces`; `EveryDocumentSettles`: only a crash or a failed write leaves a document processing. |
| `visits` | 3 requests in five plans, limit 1, 1 fault, 2 sessions, a digest that sleeps 1 tick | `LadderKept`: an offer never falls. `VisitRemembered`: no visit erases another. `PageFollowsCaller`: a page is there for its call and gone after it. `LimitEnds`. |
| `accounts` | 3 requests in six plans, 1 API key, caches of 2 ticks, fetches of 1, a clock of 5, 2 faults, 2 addresses | `RetiredKeyEnds`: a withdrawn key is honoured for a fetch and a cache's life at most. `KeyLimit`, `NoOrphanCompany`, `LinkWorksOnce`. |
| `leads` | 3 requests in four plans, 2 CRM accounts, 2 calendars, 2 faults | `ConnectionUsable`: the stored token works unless refreshes overlapped or one was lost. `CalendarAgrees`, `Announced`. |
| `synthesis` | 3 texts and every way to cut them into tokens of up to 3 characters, pieces of 2 to 5, 3 clauses, 2 faults | `SpokenInOrder`, `RecordedIsSpoken`; `VoiceEnds`. |
| `synthesis_greeting` | the same, 1 fault | *Violated*: `GreetingWhole`. |

Why these bounds are enough.

- `call`: two deliveries are needed for every race between deliveries, and a
  third adds no new pair; two turns let a save be followed by a further one, so
  that an old copy can overwrite a newer. Calls share nothing, one is checked.
- `stt`: four slots give two utterances with silence between them, a segment
  split and a repeat.
- `turns`: two chunks let another speaker come between the pieces of one; three
  utterances are a turn with a first, a middle and a last part; the window is
  shorter than the deadline so that the deadline can be the one that ends a turn.
  The retention is longer than the tail, and shorter than a greeting and a reply of
  two chunks each take to play, so that text is pruned while it is still to be heard.
- `webhooks`: two workers and one row already allow two stale records; two
  retries let an attempt be neither the first nor the last.
- `chat`: three requests let two clash beside one that does not; the history of
  one turn makes trimming happen with the second.
- `knowledge`: three requests are an upload, its deletion and the deletion again
  after it failed; two saves and a backfill; or a save and two backfills. A
  pasted text is a voice note from its extraction on, so there is none.
- `visits`: three requests are one more than a discount ladder has steps, two
  that pass a limit of one and one that resets nothing; two visits whose digests
  overlap and a third that follows; a page, a call and a clearing. The plans are
  the groups of endpoints that share state.
- `accounts`: two requests with a token beside a rotation make fetches overlap,
  and the clock reaches past a fetch and a cache's life; with a limit of one key
  two requests pass it together; a booking and two clicks; a child company and a
  booking or an invitation of the same address, with a failure of the call and one
  of the rollback.
- `leads`: one connection made, two syncs of it, or a sync and a reconnection;
  two accounts tell a row from the one it replaced; a booking beside its
  cancellation and a calendar connected anew; two faults are a failed call and a
  failed repair.
- `synthesis`: the texts have two sentences, one too short to stand alone, and a
  word longer than a fragment may be; tokens of three characters can end in a
  word, at its end and after the space.

Deadlock is not checked: calls, sessions and requests end.

Violated runs. Each states what the repository says of itself (the quotation is in
`PROJECT.json`) and TLC finds the execution in which the code does otherwise:

- `call_status` does not wait for the stream, which may still be draining a turn;
  the conversation and the e-mail then miss it.
- A synthesis socket that is lost under a greeting ends its audio like one that is
  over; the part that was heard is stored, and later calls play it for a day.

What the models do as the code does, and a reader may not expect:

- A word said again after it was answered is taken for Deepgram repeating itself,
  and `merge_utterances` leaves out a part that the part before contains.
- A segment that was flushed together with the one before it is queued again when
  Deepgram repeats it, as `_matches_delivered` compares with the whole utterance,
  not with its parts (the comment in `stt_stream.py`, lines 216 to 218, means
  to skip every repeat). `merge_utterances` leaves it out if it comes within the
  turn.
- The pump of turns ends after the idle limit, the call does not: a caller who
  speaks later is not answered.
- A reply, or a greeting and what is queued behind it, that plays for longer than
  `RETENTION_SECONDS` after it was synthesised comes back unrecognised: its echo is in
  the window, but its text is pruned, and it interrupts and is answered
  (`NeverAnswersItself` excuses it). The comment on the constant calls 20 s generous,
  "because the window check below is what actually bounds it".
- A parent company that deletes a child company's document deletes its chunks and
  not its row: it stays "completed" and cannot be searched (`StatusTellsTruth`
  excuses it).
- A lead captured from a chat message is not reported to the client, so later
  messages of the session may capture another.
- A document deleted while it is ingested is stored afterwards, and no row is left
  to delete it by (`OrphanExplained` excuses it).
- A lead sent again is a new deal at HubSpot (only a contact with an e-mail address
  is updated) and a new lead at Zoho, although the docstrings say "upsert".
- Fragments of a translated reply are joined without the space between them,
  which is why `SpokenInOrder` asks for it in a plain reply only.
- A reply whose socket is lost before any audio came is silent: the audio ends as
  if it were over, and nothing is said in its place.
- `update_lead` may change a status without the event `update_lead_status` fires;
  an appointment that is moved keeps its event at the former time.
- An escalated chat without a lead flags nothing.

## 5. Fairness

All of it is weak fairness.

- `CallLifecycle`: Twilio ends calls and closes their streams, waits are bounded
  (the drain by 10 s, clients by their timeouts), Redis expires keys. No callback
  and no failure is owed.
- `SttStream`: Deepgram works through its audio, time passes, the settle loop
  polls, the consumer takes. No final, `speech_final` or `UtteranceEnd` is owed.
- `VoiceTurns`: asyncio runs what is ready, time passes, synthesis ends one way
  or another. The caller owes nothing.
- `Webhooks`: a worker that starts gets on with it, workers poll every minute, the
  lock and `next_retry_at` pass, a POST ends by its timeout. No request, crash or
  toggle is owed.
- `Knowledge`: every wait of a running task ends. No request, deletion or backfill
  is owed, and a task that died owes nothing.
- `Visits`: a request that created a counter goes on to set its expiry, or fails;
  an expiry that was set passes.
- `Synthesis`: the tasks of a reply run when they can, and a socket answers, ends
  or fails. The caller need not listen to the end.

`ChatSession`, `Accounts` and `Leads` are checked for safety only: their requests
owe each other nothing.

## 6. Proofs

The first part of `VoiceCallProofs` proves, for any calls, deliveries and bound on turns, that
`CallLifecycle` satisfies its type invariant (`TypeCorrect`), `NothingLost`
(`NoCallLost`), `DuplicateLeadExplained` (`DuplicateLeads`), `CompleteOnceClosed`
(`CompleteTranscript`) and `TranscriptNeverShrinks` (`MonotoneTranscript`). The
assumptions are that `MaxTurns` is a natural number and that `Absent` is none.

None of these is inductive. `IInv` adds what they rest on:

- `Placement`: a stream exists only for an answered call, its pump only while it
  reads or drains, and a delivery is about a call that is over;
- `InHand`: what a delivery has loaded and written by the time it is at a step;
  in particular it deletes only after it wrote a conversation, or got no lead;
- `Copies`: Redis never holds more turns than the stream's copy, and as many once
  the stream has closed with its save. The save on the way out and the order of
  load and close make `CompleteOnceClosed` follow;
- `Released`: a delivery that ended well took the session with it, unless a save
  brought it back. A later delivery therefore finds nothing, which is `Explained`.

`Inductive` proves `IInv` of every reachable state, with one lemma per conjunct and
in it one step per action that can disturb it.

It goes on to prove from `IInv` that `CallLifecycle` implements `CallLedger`
(`LedgerKept`), for the same constants. Initial states map to initial states
(`LedgerInit`), and every step to one of the ledger's or to a stutter: one lemma
per kind of step, from those the ledger does not see (`Silent`) to the saves and
turns of the stream (`CallRefines`), the end of the call (`HookRefines`), the
conversation (`WriteRefines`), the empty lead (`EmptyRefines`) and the deletion
(`DeleteRefines`). The mapped `rows` and `said` stay within bounds by `LInv`, which
adds to `IInv` that no copy has more turns than the stream recorded
(`WithinAlways`).

The second part of `VoiceCallProofs` is about `SttStream`, for any number of slots
and any wording. `StreamTypeCorrect` is its type invariant. `ReadsLikeIt` needs
nothing of the wording: every word Deepgram has analysed is queued or held, or reads
like a word that is. That is all the code can promise, as it compares texts
(`_matches_delivered`) and a word that is said twice may be taken for a repetition.
`NoWordLost` (`NoWordIsLost`), `AnsweredInOrder` (`OrderKept`) and
`SettlesOnlyWhatIsComplete` (`SettledComplete`) have the hypothesis `AllDiffer`, that
no two words read the same, as on the instance of the run. The invariants:

- `Caught`: up to `segStart` a word is queued or in `_final`, after it queued or in
  `_interim`, up to words that read alike; what was delivered last was queued;
- `Initial`, with `AllDiffer`: the words queued are a beginning of those said,
  `_final` has none that was not finalised, and `_interim` has old ones only, or
  those that follow without a gap. It is preserved because a flush takes both;
- `Stretches`, with `AllDiffer`: each text consists of words that follow one
  another, `_final` up to `segStart` and `_interim` from there. What makes it
  inductive is that a text held is not the one delivered, nor will it grow into
  that: so a repeat, which moves `segStart` on and is skipped, finds nothing held
  (`RepeatFindsNothing`), and no segment can go missing between two held ones.

The third part is about `Synthesis`, for any texts, fillers, tokens, fragments and
faults: its type invariant (`SpeechTypeCorrect`), `SpokenInOrder`
(`SpokenAsWritten`) and `RecordedIsSpoken` (`RecordedWhenSpoken`). `SpeechInv` adds:

- `Spoken`: what was sent is a beginning of what was written, in pieces that end at
  a space or with the last word, and while the pump runs its buffer is the rest,
  without a space;
- `Sourced`: what was written and what is left are a filler, or none, and the text;
- `Recorded`: without a fault there is one way to the end of a reply, through the
  record of it and `Flush`;
- `Pumping`, `Ordered`: for whom the pump runs, and the clauses;
- `Kept`: without a fault, a greeting goes the same way into the cache.

`KeptWhole` follows from the last one: only a fault makes the cache hold a part of a
greeting, which is the finding `GreetingWhole` from its other side. Most lemmas are
about `Joined`, the function that puts the pieces together: it is defined by
recursion, and that such a function exists, is the only one, and goes from n pieces
to n + 1 as one expects is shown from the least counterexample, which a well-founded
relation on the natural numbers has (`WFMin`), as induction over an operator is
beyond the provers. The assumptions are `SynthesisAssumption` and `TextAssumption`.

`KnowledgeProofs` proves, for any ingestions, listings and bounds, the type
invariant (`TypeCorrect`), `StatusTellsTruth` (`TruthfulStatus`), `OrphanExplained`
(`Orphans`), `NewestKnown` (`NewestText`) and `BackfillReplaces`
(`ReplacedNotDuplicated`). The assumptions are that the bounds are natural numbers
and that an ingestion is of one kind. Its `IInv` adds:

- `Placement`: which kinds take which steps;
- `Unstored`: before the upsert there is neither a point nor a final status;
- `Rows`: a row goes by a deletion only and does not come back (`Kept`: it is there);
- `Success`, `Failure`: who is about to report success has stored its text or had
  none, unless it was deleted, its row with it or not; who reports failure has stored none, or a write
  raised after the upsert;
- `Listed`: a listing for sale has been saved, so the backfill reads a version;
- `Cleared`: the listing the backfill is at has no text of an earlier run.

Documents and listings do not meet (`ListingsAside`, `DocumentsAside`), which cuts
every lemma in two.

`WebhooksProofs` proves, for any events, endpoints, workers and bounds, the type
invariant, `PostsAccountedFor` (`EveryPostCounted`) and `DeliveredIsFinal`
(`Delivered`, an action property). The assumptions are that a worker is not an
event and the bounds are natural numbers. That a POST is counted follows from
nobody else working on the same row, and that from three things together:

- `Locked`: a worker with a batch has the lock, unless a batch outlived it, which
  `overran` counts; all that follows is stated for `overran = 0`;
- `Untouched`: an event that was not dispatched has left no trace;
- `Fresh`: what a task has in hand still has the attempts it read and was not
  delivered. A dispatch's rows are not due until it has recorded its answer, which
  keeps the workers away from them; `Owned` and `NotInHand` say so of each task.

`ChatSessionProofs` proves, for any overlapping requests, length of the history and
failures, the type invariant, `NoTurnLost` (`TurnsAreKept`), `RemembersSession`
(`SessionIsRemembered`) and `OnePlaceholder` (`PlaceholderIsLinked`). The assumptions
are that the history keeps at least one turn and that `Absent` and `None` are no
transcript and no lead. `IInv` adds:

- `Seen`: only answered requests are in a transcript, or in what was read of it;
- `Clashes`: who writes the transcript beside no other finds it as it read it, but
  for the turns of requests that clashed or failed themselves;
- `Alone`, `Remembered`: without overlaps there is one request at a time, and what
  it and the cache know is the end of the transcript, but for the turn being saved;
- `Placeholders`: who is about to link a lead beside another is in `race`, and a
  placeholder of one who is not is linked, or about to be.

`AccountsProofs` proves, for any requests and addresses, any life of the key cache
and any failures, the type invariant of `Access` and `Accounts`, `RetiredKeyEnds`
(`RetirementIsHonoured`), `KeyLimit` (`KeysAreLimited`), `NoOrphanCompany`
(`NoCompanyOrphaned`) and `LinkWorksOnce` (`LinksWorkOnce`). Requests are numbered
from 1, as 0 is the link of none; the bounds are natural numbers. `IInv` adds:

- `Flow`: which requests can be at which step;
- `Keyring`: an answer has the withdrawn key only if it was asked for before the
  withdrawal, and waits no longer than a fetch; the cache has it only if it was
  filled by such an answer;
- `Counted`: what a request at the limit counted is no less than what there is, or
  another inserted since and made it `raced`; the keys above the limit are counted
  against the requests in `raced`;
- `Children`, `Served`: a child company and its user belong to the request that
  made them, and whoever is served, or cached, has a company with a user unless
  its rollback came after all;
- `Linked`, `TakenOnce`, `Spent`: a taken link is gone for good, no two clicks took
  the same, and its click or its user is found.

`VisitsProofs` proves, for any requests, sessions and limits and any time a digest
waits, the type invariant of `Limits` and `Visits`, `LadderKept` (`LadderIsKept`),
`VisitRemembered` (`VisitsAreRemembered`) and `PageFollowsCaller`
(`PageIsTheCallers`). It assumes natural numbers for bounds, and of the keys that a
session's is not a telephone number's. `IInv` adds `Ladder` (nothing was given while
no stage is remembered, and beyond the first stage somebody was offered 10%),
`Digests` (who is about to write the visitor's row read the one that is there,
unless another crossed it; who looks for the events has slept) and `Cleared` (the
end of a call deletes the canonical key before the raw one). That the row counts
every digest is an argument about the cardinality of those that were sent.

`LeadsProofs` proves, for any requests, accounts, calendars and failures, the type
invariant of `Crm` and `Leads`, `ConnectionUsable` (`ConnectionsAreUsable`),
`CalendarAgrees` (`CalendarsAgree`) and `Announced` (`EventsAreTrue`). It assumes
that requests and accounts are numbered from 1. `IInv` adds:

- `Numbered`, `Distinct`, `OneRow`: refresh tokens are told apart by the number
  they were issued under; what a request was given and has not stored is nowhere
  else; whoever read a token read it with the id of its row;
- `Renewing`, `Usable`: what a sync stores is of the account it read, and a row
  whose token is void has a sync about to replace it, with another;
- `Eventful`: an appointment's event is that of the account its request read,
  which is the company's still unless the calendar was connected again;
- `Cancelled`: when a row is about to go, its event is gone or was left by a
  failure;
- `Told`: the last part of `Announced` for every sync, not only an announced one.

`VoiceTurnsProofs` proves, for any calls, lengths of the windows and chunks of
audio, the type invariant, `NeverInterleaved` (`OneVoice`), `EachWordInOneTurn`
(`WordsKept`), `HeldNoLongerThanMax` (`HeldBriefly`) and `NeverAnswersItself`
(`EchoesHeeded`). The assumptions are that the bounds are natural numbers, the five
spans of time positive, and `COALESCE_WINDOW` no longer than `COALESCE_MAX`. `IInv` adds:

- `Locked`, `Spoken`: the lock has each user once at most and who speaks is at its
  head; who has not had it has sent nothing, and who has it sent the last chunk;
- `InOrder`, `Everywhere`: what was answered lies below what is gathered and that
  below the queue, with nothing behind the sentinel. A turn has an utterance behind
  it, which is why turns never outnumber them;
- `Held`: while a turn is gathered its age and what is left of the deadline add up;
- `Heeded`: while all audio is accounted for, Twilio's buffer is no longer than
  `_playing_until`, and our own words are on their way or in the queue only within
  the tail, or while the pump takes nothing. It uses the two assumptions of `Due`;
- `Unanswered`: our own words that were answered, or are being gathered, were pruned
  when they were taken, and what is pruned stays so (`PrunedKept`).

It begins with lemmas about sequences (appending, taking the head, joining) for the
three kinds of order.

In `AccountsProofs`, `VisitsProofs` and `LeadsProofs`, `Next` has some thirty actions.
`Progress` says once which request a step moves and how (it arrives, goes on, or
stays), and `Parts` which actions may change which variables, so that a lemma about a
conjunct argues from the few actions that touch it. In all proof modules `Inductive`
proves `IInv` of every reachable state (`StreamInductive` and `SpeechInductive` those
of parts two and three), and every invariant above was checked with TLC on the
instance of its run before it was proved.

Only model-checked: liveness (`SessionGone`, `EveryWordAnswered`,
`EveryUtteranceTaken`, `RetriedToTheEnd`, `EveryDocumentSettles`, `LimitEnds`,
`VoiceEnds`), which is beyond the prover, and the two findings, which are
executions. Every other invariant and action property of the runs is a theorem.

## 7. Not modelled

- Texts: prompts, extraction of details, the stages of a closing, scoring,
  chunking, similarity, echo's word comparison. The models keep the decision and
  leave it open or tie it to who spoke.
- Payloads and signatures of webhooks; which vendor renders speech, and in what
  encoding. `stream_speech` and `run_voice_streaming` are called by nothing, nor is
  `bootstrap_company`.
- In `ChatSession`: the escalation flag and the score, the read-only endpoints.
- In `Crm`: more than one provider (a failure with one does not end the loop over
  them); contact and deal are one step; one callback per OAuth state.
- In `Accounts`: an insert of a child company that takes effect and raises, which no
  step of the handler follows; a deployment without `RESEND_API_KEY`, in which no link is mailed.
- Lists, figures and dashboards that only read.
- That a query carries its company filter: a property of the query's text.
- The assistant's endpoint and the shared helpers, which keep no state; the
  dashboard, the demo site, deployment, and scripts other than the backfill.
