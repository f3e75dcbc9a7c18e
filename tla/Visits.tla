------------------------------- MODULE Visits -------------------------------
(****************************************************************************)
(* What a visitor of the public site leaves behind (app/analytics), and the *)
(* page of theirs the assistant may read while they talk to it              *)
(* (app/rag/live_fetch.py, app/chat/router.py).  One address, one site, one *)
(* telephone number; its sessions are visits.                               *)
(*                                                                          *)
(* A session's end starts a digest in the background: it sleeps, gathers    *)
(* what the visit left, and reads and writes back the one row that sums up  *)
(* the visitor.  Digests of two visits may overlap, and each database call  *)
(* may fail, which is logged and no more.                                   *)
(*                                                                          *)
(* A page's text is kept in Redis under the session, and, once a number is  *)
(* given, under that number as it was typed and in the canonical form of    *)
(* phone_key, which is what a call can know.                                *)
(****************************************************************************)
EXTENDS Limits, FiniteSets

CONSTANTS
    Sessions,  \* visits, at least one
    Settle,    \* DIGEST_SETTLE_SECONDS, in ticks
    Plans,     \* bound: what each request may ask, [Requests -> SUBSET Kinds]
    None

\* A session's key is not a telephone number's.
ASSUME VisitAssumption ==
    /\ Settle \in Nat /\ Plans \subseteq [Requests -> SUBSET Kinds]
    /\ "typed" \notin Sessions /\ "canonical" \notin Sessions

VARIABLES
    plan,     \* the plan of this behaviour
    of,       \* the session a request names
    events,   \* sessions whose last batch of events is in site_visits
    reviews,  \* sessions with a row in site_reviews
    pages,    \* sessions with a row in site_live_fetches
    ctx,      \* the keys live_fetch:{key} in Redis
    call,     \* the visitor's call to the number: how far it and its end are
    e164,     \* the visitor typed the number as Twilio writes it
    digest,   \* where the digest of an "end" request is
    slept,    \* ticks it has slept
    found,    \* what it gathered
    prior,    \* the row it read
    row       \* site_visitors

\* History.
VARIABLES
    prompt,   \* sessions whose last batch came while their digest slept
    spoiled,  \* digests of which a query or the upsert failed
    crossed,  \* digests that had read the row when another wrote it
    uncleared, \* the end of the call could not clear its keys
    late,      \* call keys stored again when the call had ended
    aged       \* the page kept for a call was there for its 15 minutes

Fields  == {"url", "review"}
NoRow   == [count |-> 0, knows |-> {}]
Keys    == Sessions \cup {"typed", "canonical"}
\* The keys _finalize_call clears, and a call reads: phone_key and its `From'.
CallKeys == {"canonical"} \cup (IF e164 THEN {"typed"} ELSE {})

Telephones == \E r \in Requests : "dial" \in plan[r]

HasStored(r) == kind[r] = "dial" /\ step[r] \in {"log", "done"}

store   == <<events, reviews, pages>>
calling == <<uncleared, late>>
context == <<ctx, call, e164, calling, aged>>
digests == <<digest, slept, found, prior, row, prompt, spoiled, crossed>>
vars    == <<limits, plan, of, store, context, digests>>

Acts(r, k) == kind[r] = k /\ step[r] = "act"
Rest       == <<kind, counters, haggle, plan, of>>

\* A handler's last step that only ends it; FALSE is an insert that failed,
\* which is caught.
Inserts(r) ==
    \/ Goto(r, "done")   /\ UNCHANGED faults
    \/ Goto(r, "failed") /\ Fails

Arrive(r, k, s) ==
    /\ k \in plan[r] /\ Ask(r, k)
    /\ of' = [of EXCEPT ![r] = s]
    /\ UNCHANGED <<plan, store, context, digests>>

-----------------------------------------------------------------------------
(* Tracking *)

\* track: the events are inserted, or the failure is logged.
Track(r) ==
    /\ Acts(r, "track") /\ Inserts(r)
    /\ IF step'[r] = "done"
       THEN /\ events' = events \cup {of[r]}
            /\ prompt' = prompt \cup {s \in {of[r]} : \A q \in Requests :
                              kind[q] = "end" /\ of[q] = s => slept[q] < Settle}
       ELSE UNCHANGED <<events, prompt>>
    /\ UNCHANGED <<Rest, reviews, pages, context, digest, slept, found, prior, row,
                   spoiled, crossed>>

\* submit_review.
Review(r) ==
    /\ Acts(r, "review") /\ Inserts(r)
    /\ reviews' = IF step'[r] = "done" THEN reviews \cup {of[r]} ELSE reviews
    /\ UNCHANGED <<Rest, events, pages, context, digests>>

\* session_end answers and leaves the digest to run.
EndVisit(r) ==
    /\ Acts(r, "end") /\ Goto(r, "done")
    /\ digest' = [digest EXCEPT ![r] = "settle"]
    /\ UNCHANGED <<Rest, faults, store, context, slept, found, prior, row, prompt,
                   spoiled, crossed>>

Sleep(r) ==
    /\ digest[r] = "settle" /\ slept[r] < Settle
    /\ slept' = [slept EXCEPT ![r] = @ + 1]
    /\ UNCHANGED <<limits, plan, of, store, context, digest, found, prior, row, prompt,
                   spoiled, crossed>>

\* The queries after asyncio.sleep: events, the page, the review, each of which
\* may fail and is then taken for nothing.  The conversation only goes into the
\* e-mail.
Gather(r) ==
    LET s    == of[r]
        left == {"events" : x \in events \cap {s}} \cup {"url" : x \in pages \cap {s}}
                \cup {"review" : x \in reviews \cap {s}} IN
    /\ digest[r] = "settle" /\ slept[r] = Settle
    /\ digest' = [digest EXCEPT ![r] = "visitor"]
    /\ \/ found' = [found EXCEPT ![r] = left] /\ UNCHANGED <<faults, spoiled>>
       \/ /\ Fails /\ spoiled' = spoiled \cup {r}
          /\ \E part \in SUBSET left : found' = [found EXCEPT ![r] = part]
    /\ UNCHANGED <<Rest, step, store, context, slept, prior, row, prompt, crossed>>

\* select * of the visitor's row; a failure is taken for no row.
ReadVisitor(r) ==
    /\ digest[r] = "visitor"
    /\ digest' = [digest EXCEPT ![r] = "upsert"]
    /\ \/ prior' = [prior EXCEPT ![r] = row] /\ UNCHANGED <<faults, spoiled>>
       \/ /\ Fails /\ spoiled' = spoiled \cup {r}
          /\ prior' = [prior EXCEPT ![r] = NoRow]
    /\ UNCHANGED <<Rest, step, store, context, slept, found, row, prompt, crossed>>

\* Mutant of Merged: the row gets what this visit knows.
MergedFresh(r) == [count |-> prior[r].count + 1, knows |-> found[r] \cap Fields]

\* session_count and keep().
Merged(r) == [count |-> prior[r].count + 1,
              knows |-> prior[r].knows \cup (found[r] \cap Fields)]

\* The upsert of the whole row, and the e-mail, which is sent in any case.
UpsertVisitor(r) ==
    /\ digest[r] = "upsert"
    /\ digest' = [digest EXCEPT ![r] = "sent"]
    /\ \/ /\ row' = Merged(r)
          /\ crossed' = crossed \cup {q \in Requests \ {r} : digest[q] = "upsert"}
          /\ UNCHANGED <<faults, spoiled>>
       \/ Fails /\ spoiled' = spoiled \cup {r} /\ UNCHANGED <<row, crossed>>
    /\ UNCHANGED <<Rest, step, store, context, slept, found, prior, prompt>>

-----------------------------------------------------------------------------
(* A page for the assistant to read *)

\* set_live_context with a number: the session's copy of the same URL is taken.
Look(r) ==
    /\ step[r] = "look"
    /\ \/ of[r] \in ctx /\ Goto(r, "store")
       \/ Goto(r, "count")
    /\ UNCHANGED <<Rest, faults, store, context, digests>>

\* fetch_page_text: read directly or through the reader, or refused (422).
Fetch(r) ==
    /\ Acts(r, "page") \/ Acts(r, "dial")
    /\ \E s \in {"store", "failed"} : Goto(r, s)
    /\ UNCHANGED <<Rest, faults, store, context, digests>>

\* store_live_context under the key of the request, then under phone_key.
Keep(key) ==
    /\ ctx'  = ctx \cup {key}
    /\ late' = IF call \in {"raw", "over"} THEN late \cup ({key} \ Sessions) ELSE late

Store(r) ==
    /\ step[r] = "store"
    /\ Keep(IF kind[r] = "dial" THEN "typed" ELSE of[r])
    /\ Goto(r, IF kind[r] = "dial" THEN "alias" ELSE "log")
    /\ UNCHANGED <<Rest, faults, store, call, e164, uncleared, aged, digests>>

StoreAlias(r) ==
    /\ step[r] = "alias"
    /\ Keep("canonical")
    /\ Goto(r, "log")
    /\ UNCHANGED <<Rest, faults, store, call, e164, uncleared, aged, digests>>

\* The row in site_live_fetches; a failure is passed over.
LogFetch(r) ==
    /\ step[r] = "log" /\ Goto(r, "done")
    /\ \/ pages' = pages \cup {of[r]} /\ UNCHANGED faults
       \/ Fails /\ UNCHANGED pages
    /\ UNCHANGED <<Rest, events, reviews, context, digests>>

\* clear_live_context_route, with either key the page knows.
Clear(r) ==
    /\ Acts(r, "clear") /\ Goto(r, "done")
    /\ \E key \in {of[r], "typed"} : ctx' = ctx \ {key}
    /\ UNCHANGED <<Rest, faults, store, call, e164, calling, aged, digests>>

ContextExpires(key) ==
    /\ key \in ctx
    /\ ctx'  = ctx \ {key}
    /\ aged' = (aged \/ key = "canonical")
    /\ UNCHANGED <<limits, plan, of, store, call, e164, calling, digests>>

\* The call, and the first statements of _finalize_call: two deletions, a
\* failure of either passed over.
CallBegins ==
    /\ call = "none" /\ Telephones /\ call' = "on"
    /\ UNCHANGED <<limits, plan, of, store, ctx, e164, calling, aged, digests>>

\* Mutant of CallEnds: the key is built from the number as Twilio writes it.
CallEndsRaw ==
    /\ call = "on" /\ call' = "raw"
    /\ UNCHANGED <<limits, plan, of, store, ctx, e164, calling, aged, digests>>

CallEnds ==
    /\ call = "on" /\ call' = "raw"
    /\ ctx' = ctx \ {"canonical"}
    /\ UNCHANGED <<limits, plan, of, store, e164, calling, aged, digests>>

ClearRaw ==
    /\ call = "raw" /\ call' = "over"
    /\ ctx' = IF e164 THEN ctx \ {"typed"} ELSE ctx
    /\ UNCHANGED <<limits, plan, of, store, e164, calling, aged, digests>>

ClearFails ==
    /\ call \in {"on", "raw"} /\ call' = "over" /\ Fails
    /\ uncleared' = TRUE
    /\ UNCHANGED <<Rest, step, store, ctx, e164, late, aged, digests>>

-----------------------------------------------------------------------------
Init ==
    /\ LimitsInit
    /\ plan \in Plans
    /\ of = [r \in Requests |-> None]
    /\ events = {} /\ reviews = {} /\ pages = {}
    /\ ctx = {}
    /\ call = "none" /\ e164 \in (IF Telephones THEN BOOLEAN ELSE {TRUE})
    /\ digest = [r \in Requests |-> "none"]
    /\ slept  = [r \in Requests |-> 0]
    /\ found  = [r \in Requests |-> {}]
    /\ prior  = [r \in Requests |-> NoRow]
    /\ row    = NoRow
    /\ prompt = {} /\ spoiled = {} /\ crossed = {}
    /\ uncleared = FALSE /\ late = {} /\ aged = FALSE

Next ==
    \/ LimitsNext /\ UNCHANGED <<plan, of, store, context, digests>>
    \/ \E r \in Requests :
          \/ \E k \in Kinds, s \in Sessions : Arrive(r, k, s)
          \/ Track(r) \/ Review(r) \/ EndVisit(r)
          \/ Sleep(r) \/ Gather(r) \/ ReadVisitor(r) \/ UpsertVisitor(r)
          \/ Look(r) \/ Fetch(r) \/ Store(r) \/ StoreAlias(r) \/ LogFetch(r) \/ Clear(r)
    \/ \E key \in Keys : ContextExpires(key)
    \/ CallBegins \/ CallEnds \/ ClearRaw \/ ClearFails

Spec     == Init /\ [][Next]_vars
FairSpec == Spec /\ LimitsFairness

TypeOK ==
    /\ LimitsTypeOK /\ plan \in Plans
    /\ of \in [Requests -> Sessions \cup {None}]
    /\ events \subseteq Sessions /\ reviews \subseteq Sessions /\ pages \subseteq Sessions
    /\ prompt \subseteq events
    /\ ctx \subseteq Keys /\ late \subseteq Keys
    /\ call \in {"none", "on", "raw", "over"} /\ e164 \in BOOLEAN
    /\ digest \in [Requests -> {"none", "settle", "visitor", "upsert", "sent"}]
    /\ slept \in [Requests -> 0..Settle]
    /\ found \in [Requests -> SUBSET (Fields \cup {"events"})]
    /\ row \in [count : Nat, knows : SUBSET Fields]
    /\ prior \in [Requests -> [count : Nat, knows : SUBSET Fields]]
    /\ spoiled \subseteq Requests /\ crossed \subseteq Requests
    /\ uncleared \in BOOLEAN /\ aged \in BOOLEAN

-----------------------------------------------------------------------------
\* What the digests that are over know of the fields the row sums up.
Learned == UNION {found[r] \cap Fields : r \in {q \in Requests : digest[q] = "sent"}}

(* "Never let a later, emptier visit erase what an earlier one learned": the *)
(* row counts every visit and keeps what any of them left, unless a query    *)
(* failed or two digests overlapped; and a digest misses the last events of  *)
(* its visit only if they took longer than DIGEST_SETTLE_SECONDS.            *)
VisitRemembered ==
    /\ spoiled = {} /\ crossed = {} =>
          row = [count |-> Cardinality({r \in Requests : digest[r] = "sent"}),
                 knows |-> Learned]
    /\ \A r \in Requests \ spoiled :
          of[r] \in prompt /\ digest[r] \in {"visitor", "upsert", "sent"}
              => "events" \in found[r]

(* The page a visitor gave with their number is there for the call they make, *)
(* whatever way they wrote the number, until its 15 minutes are over; and the *)
(* end of the call takes it away, so that no later call reads it, unless the  *)
(* deletion failed or the request was still storing it.                       *)
PageFollowsCaller ==
    /\ call \in {"none", "on"} /\ ~aged =>
          \A r \in Requests : HasStored(r) => "canonical" \in ctx
    /\ call = "over" /\ ~uncleared => ctx \cap CallKeys \subseteq late
=============================================================================
