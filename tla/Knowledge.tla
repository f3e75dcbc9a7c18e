----------------------------- MODULE Knowledge -----------------------------
(****************************************************************************)
(* What the assistant can find (app/rag, app/properties): the rows of       *)
(* `documents', the points Qdrant holds, and the job statuses in Redis that *)
(* tell an uploader how it went.                                            *)
(*                                                                          *)
(* Ingestion runs behind the request that asked for it: uploads, pasted     *)
(* texts and voice notes in background tasks, the parts of an e-mail in     *)
(* Resend's own request.  Nothing ties it to a later deletion of the        *)
(* document.  A listing is ingested again under a new doc_id whenever it is *)
(* saved; scripts/backfill_property_rag.py does the same under an id made   *)
(* from the listing's.                                                      *)
(*                                                                          *)
(* A text is what was ingested at one time; its chunks go into Qdrant by    *)
(* one upsert, so that they are one point here.                             *)
(****************************************************************************)
EXTENDS Naturals

CONSTANTS
    Files,         \* uploads
    Texts,         \* texts pasted in the dashboard
    Voices,        \* voice notes
    Emails,        \* e-mails forwarded, each with an attachment and a body
    Listings,      \* properties for sale
    MaxVersion,    \* bound: times a listing is saved
    MaxBackfills,  \* bound: runs of the backfill script
    MaxRequests    \* bound: requests of all kinds

ASSUME BoundAssumption == {MaxVersion, MaxBackfills, MaxRequests} \subseteq Nat
ASSUME KindAssumption  ==
    /\ Files \cap (Texts \cup Voices \cup Emails) = {}
    /\ Texts \cap (Voices \cup Emails) = {}
    /\ Voices \cap Emails = {}

Tracked == Files \cup Emails           \* ingest_file: a row in documents
Jobs    == Files \cup Texts \cup Voices  \* a job id in Redis
Ingests == Tracked \cup Jobs
Saves   == Listings \X (1..MaxVersion)

VARIABLES
    step,       \* where each ingestion is
    job,        \* rag:job:{job_id}
    doc,        \* documents.status, "none" where there is no row
    points,     \* ingestions whose chunks are in Qdrant
    bodies,     \* e-mails whose body is
    del,        \* DELETE /rag/documents/{doc_id}
    version,    \* times a listing was saved
    alive,      \* rows of properties
    pending,    \* saves whose ingestion is under way
    texts,      \* listing texts in Qdrant
    todo,       \* backfill: rows it read and has not come to
    cur,        \* the row it is at
    runs,       \* runs begun
    requests    \* requests made, backfills included

\* History.
VARIABLES
    blank,      \* ingestions whose text came to no chunks
    late,       \* those of which a step raised after the upsert took effect
    outrun,     \* those stored when their document's deletion was over
    cut,        \* those that died, or whose failure could not be recorded
    missed,     \* saves whose ingestion failed or died
    swallowed,  \* listings of which the backfill failed to clear the old text
    stripped    \* documents a deletion took the chunks of and left the row

taskVars    == <<step, job, points, bodies>>
listingVars == <<version, alive, pending, texts>>
scriptVars  == <<todo, cur, runs>>
hist        == <<blank, late, outrun, cut, missed, swallowed, stripped>>
vars        == <<taskVars, doc, del, listingVars, scriptVars, requests, hist>>

Goto(i, s) == step' = [step EXCEPT ![i] = s]

\* What follows the upsert, the failure of a step, and the end of ingest_file.
Stored(i)  == IF i \in Tracked THEN "markCompleted" ELSE "report"
Failed(i)  == IF i \in Tracked THEN "markFailed" ELSE "reportFailed"
Ended(i, s) == IF i \in Emails THEN "body" ELSE s

Asks == requests < MaxRequests /\ requests' = requests + 1

-----------------------------------------------------------------------------
(* Ingestion *)

\* ingest_document, ingest_text_endpoint, ingest_voice: the job is announced,
\* then the task is left to run after the response.
Request(i) ==
    /\ i \in Jobs /\ step[i] = "idle" /\ Asks
    /\ job' = [job EXCEPT ![i] = IF i \in Voices THEN "transcribing" ELSE "processing"]
    /\ Goto(i, IF i \in Files THEN "track"
               ELSE IF i \in Voices THEN "transcribe" ELSE "extract")
    /\ UNCHANGED <<points, bodies, doc, del, listingVars, scriptVars, hist>>

\* inbound_email, once the e-mail has been fetched.
EmailArrives(m) ==
    /\ m \in Emails /\ step[m] = "idle" /\ Asks
    /\ Goto(m, "track")
    /\ UNCHANGED <<job, points, bodies, doc, del, listingVars, scriptVars, hist>>

\* Transcribed and purified; silence, like an exception, makes the job fail.
Transcribe(i) ==
    /\ step[i] = "transcribe"
    /\ \E s \in {"extract", "reportFailed"} : Goto(i, s)
    /\ UNCHANGED <<job, points, bodies, doc, del, listingVars, scriptVars,
                   requests, hist>>

\* The upsert of the row, status processing.
Track(i) ==
    /\ step[i] = "track"
    /\ doc' = [doc EXCEPT ![i] = "processing"]
    /\ Goto(i, "extract")
    /\ UNCHANGED <<job, points, bodies, del, listingVars, scriptVars, requests,
                   hist>>

\* It is outside the try of ingest_file: the attachment cannot be fetched, the
\* row is refused, or it is there and the answer is lost.
TrackFails(i) ==
    /\ step[i] = "track"
    /\ \/ UNCHANGED <<doc, cut>>
       \/ doc' = [doc EXCEPT ![i] = "processing"] /\ cut' = cut \cup {i}
    /\ Goto(i, Ended(i, "reportFailed"))
    /\ UNCHANGED <<job, points, bodies, del, listingVars, scriptVars, requests,
                   blank, late, outrun, missed, swallowed, stripped>>

\* Detection, extraction, cleaning, chunking, embedding.
Extract(i) ==
    /\ step[i] = "extract"
    /\ \E s \in {"store", Failed(i)} : Goto(i, s)
    /\ UNCHANGED <<job, points, bodies, doc, del, listingVars, scriptVars,
                   requests, hist>>

\* store_chunks of no chunks: it returns 0 and the ingestion goes on.
ExtractBlank(i) ==
    /\ step[i] = "extract"
    /\ Goto(i, Stored(i))
    /\ blank' = blank \cup {i}
    /\ UNCHANGED <<job, points, bodies, doc, del, listingVars, scriptVars,
                   requests, late, outrun, cut, missed, swallowed, stripped>>

\* Mutant of Store: a refusal is taken for success.
StoreUnchecked(i) ==
    /\ step[i] = "store"
    /\ Goto(i, Stored(i))
    /\ \E done \in BOOLEAN :
        points' = IF done THEN points \cup {i} ELSE points
    /\ outrun' = outrun \cup {j \in {i} \cap Tracked : del[j] = "done"}
    /\ UNCHANGED <<job, bodies, doc, del, listingVars, scriptVars, requests,
                   blank, late, cut, missed, swallowed, stripped>>

\* store_chunks: the upsert, whether its answer comes back or not.
Store(i) ==
    /\ step[i] = "store"
    /\ points' = points \cup {i}
    /\ outrun' = outrun \cup {j \in {i} \cap Tracked : del[j] = "done"}
    /\ \/ Goto(i, Stored(i)) /\ UNCHANGED late
       \/ Goto(i, Failed(i)) /\ late' = late \cup {i}
    /\ UNCHANGED <<job, bodies, doc, del, listingVars, scriptVars, requests,
                   blank, cut, missed, swallowed, stripped>>

StoreRefused(i) ==
    /\ step[i] = "store"
    /\ Goto(i, Failed(i))
    /\ UNCHANGED <<job, points, bodies, doc, del, listingVars, scriptVars,
                   requests, hist>>

\* An update touches the row if there still is one.
Update(i, s) == doc' = [doc EXCEPT ![i] = IF @ = "none" THEN @ ELSE s]

\* A write that raises may have been made all the same.
MarkCompleted(i) ==
    /\ step[i] = "markCompleted"
    /\ \/ /\ Update(i, "completed")
          /\ Goto(i, Ended(i, "report"))
          /\ UNCHANGED late
       \/ /\ Goto(i, "markFailed")
          /\ late' = late \cup {i}
          /\ UNCHANGED doc \/ Update(i, "completed")
    /\ UNCHANGED <<job, points, bodies, del, listingVars, scriptVars, requests,
                   blank, outrun, cut, missed, swallowed, stripped>>

\* Mutant of MarkFailed: the exception is passed on without a word to the row.
MarkNothing(i) ==
    /\ step[i] = "markFailed"
    /\ Goto(i, Ended(i, "reportFailed"))
    /\ UNCHANGED <<job, points, bodies, doc, del, listingVars, scriptVars,
                   requests, hist>>

\* The handler of ingest_file, which passes the exception on.  Where its own
\* update raises, the row stays as it is.
MarkFailed(i) ==
    /\ step[i] = "markFailed"
    /\ \/ Update(i, "failed") /\ UNCHANGED cut
       \/ UNCHANGED doc /\ cut' = cut \cup {i}
    /\ Goto(i, Ended(i, "reportFailed"))
    /\ UNCHANGED <<job, points, bodies, del, listingVars, scriptVars, requests,
                   blank, late, outrun, missed, swallowed, stripped>>

\* _run_ingest_*: the last word on the job.  An exception of Redis is handled
\* like one of the ingestion.
Report(i) ==
    /\ step[i] = "report"
    /\ \/ /\ job' = [job EXCEPT ![i] = "completed"]
          /\ Goto(i, "over")
          /\ UNCHANGED late
       \/ /\ Goto(i, "reportFailed")
          /\ late' = late \cup {i}
          /\ UNCHANGED job \/ job' = [job EXCEPT ![i] = "completed"]
    /\ UNCHANGED <<points, bodies, doc, del, listingVars, scriptVars, requests,
                   blank, outrun, cut, missed, swallowed, stripped>>

ReportFailed(i) ==
    /\ step[i] = "reportFailed"
    /\ \/ job' = [job EXCEPT ![i] = "failed"]
       \/ UNCHANGED job
    /\ Goto(i, "over")
    /\ UNCHANGED <<points, bodies, doc, del, listingVars, scriptVars, requests,
                   hist>>

\* The body of an e-mail, ingested or not, whatever became of the attachment.
ReadBody(m) ==
    /\ step[m] = "body"
    /\ \E done \in BOOLEAN :
        bodies' = IF done THEN bodies \cup {m} ELSE bodies
    /\ Goto(m, "over")
    /\ UNCHANGED <<job, points, doc, del, listingVars, scriptVars, requests,
                   hist>>

\* The worker is restarted.  Nobody takes the task up again.
Dies(i) ==
    /\ step[i] \notin {"idle", "over"}
    /\ Goto(i, "over")
    /\ cut' = cut \cup {i}
    /\ UNCHANGED <<job, points, bodies, doc, del, listingVars, scriptVars,
                   requests, blank, late, outrun, missed, swallowed, stripped>>

\* JOB_TTL_SECONDS after the last word.
JobExpires(i) ==
    /\ job[i] # "none"
    /\ job' = [job EXCEPT ![i] = "none"]
    /\ UNCHANGED <<step, points, bodies, doc, del, listingVars, scriptVars,
                   requests, hist>>

-----------------------------------------------------------------------------
(* delete_document *)

\* Mutant of DeleteRow: the chunks are left to a later clean-up.
DeleteRowOnly(i) ==
    /\ doc[i] # "none" /\ del[i] = "no" /\ Asks
    /\ doc' = [doc EXCEPT ![i] = "none"]
    /\ del' = [del EXCEPT ![i] = "done"]
    /\ UNCHANGED <<taskVars, listingVars, scriptVars, hist>>

\* Of a document the dashboard lists, which it still does where the last attempt
\* failed: it takes the document off its list after the answer.  The row goes
\* where it is the caller's company's; a parent, which is shown the documents of
\* its child companies, asks in vain and is not told.
DeleteRow(i) ==
    /\ doc[i] # "none" \/ del[i] = "failed"
    /\ del[i] # "chunks" /\ Asks
    /\ doc' = [doc EXCEPT ![i] = "none"] \/ UNCHANGED doc
    /\ del' = [del EXCEPT ![i] = "chunks"]
    /\ UNCHANGED <<taskVars, listingVars, scriptVars, hist>>

\* A document whose row stayed can be deleted again.
Answered(i, s) == del' = [del EXCEPT ![i] = IF doc[i] = "none" THEN s ELSE "no"]

\* delete_doc_chunks, which goes by doc_id alone.
DeleteChunks(i) ==
    /\ del[i] = "chunks"
    /\ points' = points \ {i}
    /\ stripped' = stripped \cup {j \in {i} \cap points : doc[j] # "none"}
    /\ \E s \in {"done", "failed"} : Answered(i, s)
    /\ UNCHANGED <<step, job, bodies, doc, listingVars, scriptVars, requests,
                   blank, late, outrun, cut, missed, swallowed>>

\* Qdrant refuses, or the worker is restarted.
DeleteChunksFails(i) ==
    /\ del[i] = "chunks"
    /\ Answered(i, "failed")
    /\ UNCHANGED <<taskVars, doc, listingVars, scriptVars, requests, hist>>

-----------------------------------------------------------------------------
(* Listings *)

Text(p, v, r) == [of |-> p, version |-> v, run |-> r]

\* create_property, update_property: the row, and the ingestion of the row as
\* it was then.
Save(p) ==
    /\ p \in alive \/ version[p] = 0
    /\ version[p] < MaxVersion /\ Asks
    /\ version' = [version EXCEPT ![p] = @ + 1]
    /\ alive'   = alive \cup {p}
    /\ pending' = pending \cup {<<p, version[p] + 1>>}
    /\ UNCHANGED <<taskVars, doc, del, texts, scriptVars, hist>>

\* delete_property: the texts stay.
DeleteListing(p) ==
    /\ p \in alive /\ Asks
    /\ alive' = alive \ {p}
    /\ UNCHANGED <<taskVars, doc, del, version, pending, texts, scriptVars, hist>>

\* _auto_ingest_property, under a doc_id of its own.  Two saves may be ingested
\* in either order.
IngestListing(s) ==
    /\ s \in pending
    /\ pending' = pending \ {s}
    /\ texts'   = texts \cup {Text(s[1], s[2], 0)}
    /\ UNCHANGED <<taskVars, doc, del, version, alive, scriptVars, requests, hist>>

\* Nobody learns of it, and nothing retries it.
IngestListingFails(s) ==
    /\ s \in pending
    /\ pending' = pending \ {s}
    /\ missed'  = missed \cup {s}
    /\ UNCHANGED <<taskVars, doc, del, version, alive, texts, scriptVars,
                   requests, blank, late, outrun, cut, swallowed, stripped>>

-----------------------------------------------------------------------------
(* scripts/backfill_property_rag.py, one run at a time *)

Busy == todo # {} \/ cur # <<>>

\* The rows are read once.
BackfillStarts ==
    /\ ~Busy /\ runs < MaxBackfills /\ Asks
    /\ runs' = runs + 1
    /\ todo' = {<<p, version[p]>> : p \in alive}
    /\ UNCHANGED <<taskVars, doc, del, listingVars, cur, hist>>

Comes(s) ==
    /\ cur = <<>> /\ s \in todo
    /\ cur'  = s
    /\ todo' = todo \ {s}

\* Texts of an earlier run.
Filled(p) == {x \in texts : x.of = p /\ x.run > 0}

\* Mutants of BackfillClears: it clears by listing, and not at all.
ClearsListing(s) ==
    /\ Comes(s)
    /\ texts' = {x \in texts : x.of # s[1]}
    /\ UNCHANGED <<taskVars, doc, del, version, alive, pending, runs, requests,
                   hist>>

ClearsNothing(s) ==
    /\ Comes(s)
    /\ UNCHANGED <<taskVars, doc, del, listingVars, runs, requests, hist>>

\* delete_doc_chunks of the id made from the listing's.
BackfillClears(s) ==
    /\ Comes(s)
    /\ texts' = texts \ Filled(s[1])
    /\ UNCHANGED <<taskVars, doc, del, version, alive, pending, runs, requests,
                   hist>>

\* Its failure is swallowed.
BackfillClearFails(s) ==
    /\ Comes(s)
    /\ swallowed' = swallowed \cup {s[1]}
    /\ UNCHANGED <<taskVars, doc, del, listingVars, runs, requests, blank, late,
                   outrun, cut, missed, stripped>>

BackfillStores ==
    /\ cur # <<>>
    /\ texts' = texts \cup {Text(cur[1], cur[2], runs)}
    /\ cur' = <<>>
    /\ UNCHANGED <<taskVars, doc, del, version, alive, pending, todo, runs,
                   requests, hist>>

\* "FAIL", and on to the next.
BackfillFails ==
    /\ cur # <<>>
    /\ cur' = <<>>
    /\ UNCHANGED <<taskVars, doc, del, listingVars, todo, runs, requests, hist>>

BackfillStops ==
    /\ Busy
    /\ todo' = {} /\ cur' = <<>>
    /\ UNCHANGED <<taskVars, doc, del, listingVars, runs, requests, hist>>

-----------------------------------------------------------------------------
Init ==
    /\ step = [i \in Ingests |-> "idle"]
    /\ job  = [i \in Jobs |-> "none"]
    /\ doc  = [i \in Tracked |-> "none"]
    /\ del  = [i \in Tracked |-> "no"]
    /\ points = {} /\ bodies = {}
    /\ version = [p \in Listings |-> 0]
    /\ alive = {} /\ pending = {} /\ texts = {}
    /\ todo = {} /\ cur = <<>> /\ runs = 0 /\ requests = 0
    /\ blank = {} /\ late = {} /\ outrun = {} /\ cut = {}
    /\ missed = {} /\ swallowed = {} /\ stripped = {}

\* The steps of a running ingestion, however they turn out.
Works(i) ==
    \/ Transcribe(i) \/ Track(i) \/ TrackFails(i)
    \/ Extract(i) \/ ExtractBlank(i) \/ Store(i) \/ StoreRefused(i)
    \/ MarkCompleted(i) \/ MarkFailed(i)
    \/ Report(i) \/ ReportFailed(i) \/ ReadBody(i)

Deletes(i) == DeleteRow(i) \/ DeleteChunks(i) \/ DeleteChunksFails(i)

Backfills ==
    \/ BackfillStarts \/ BackfillStores \/ BackfillFails \/ BackfillStops
    \/ \E s \in todo : BackfillClears(s) \/ BackfillClearFails(s)

Next ==
    \/ \E i \in Ingests  : Request(i) \/ EmailArrives(i) \/ Works(i) \/ Dies(i)
    \/ \E i \in Jobs     : JobExpires(i)
    \/ \E i \in Tracked  : Deletes(i)
    \/ \E p \in Listings : Save(p) \/ DeleteListing(p)
    \/ \E s \in pending  : IngestListing(s) \/ IngestListingFails(s)
    \/ Backfills

Spec == Init /\ [][Next]_vars

\* Every wait of a task ends, by its timeout if need be.  Nobody owes a request.
FairSpec == Spec /\ \A i \in Ingests : WF_vars(Works(i))

-----------------------------------------------------------------------------
(* Properties *)

Steps == {"idle", "transcribe", "track", "extract", "store", "markCompleted",
          "markFailed", "report", "reportFailed", "body", "over"}

TypeOK ==
    /\ step \in [Ingests -> Steps]
    /\ job \in [Jobs -> {"none", "transcribing", "processing", "completed", "failed"}]
    /\ doc \in [Tracked -> {"none", "processing", "completed", "failed"}]
    /\ del \in [Tracked -> {"no", "chunks", "done", "failed"}]
    /\ {points, blank, late, cut} \subseteq SUBSET Ingests
    /\ {outrun, stripped} \subseteq SUBSET Tracked
    /\ bodies \subseteq Emails
    /\ version \in [Listings -> 0..MaxVersion]
    /\ {alive, swallowed} \subseteq SUBSET Listings
    /\ {pending, missed, todo} \subseteq SUBSET Saves
    /\ texts \subseteq [of : Listings, version : 1..MaxVersion, run : 0..MaxBackfills]
    /\ cur \in Saves \cup {<<>>}
    /\ runs \in 0..MaxBackfills /\ requests \in 0..MaxRequests

\* What an uploader is told is so: a document or a job that is "completed" can
\* be searched, unless it had no text, was deleted since, or a parent company
\* deleted it: then the chunks are gone and the row is still "completed"
\* (rag/router.py 194-196).  One that "failed" cannot be searched, unless a
\* write after the upsert is what failed.
StatusTellsTruth ==
    /\ \A i \in Tracked :
        /\ doc[i] = "completed" => i \in points \cup blank \cup stripped
        /\ doc[i] = "failed" /\ i \in points => i \in late
    /\ \A i \in Jobs :
        /\ job[i] = "completed" /\ (i \in Tracked => doc[i] # "none")
               => i \in points \cup blank \cup stripped
        /\ job[i] = "failed" /\ i \in points => i \in late

\* The assistant quotes a document that is gone only while its deletion is
\* under way, after it failed half-way, or where an ingestion, still running
\* when the document was deleted, stored it afterwards.
OrphanExplained ==
    \A i \in Tracked :
        i \in points /\ doc[i] = "none" =>
            del[i] \in {"chunks", "failed"} \/ i \in outrun

\* The newest text of a listing for sale can be found, whatever order the saves
\* were ingested in and whenever the backfill ran, unless its ingestion failed.
NewestKnown ==
    \A p \in alive :
        LET s == <<p, version[p]>>
        IN s \in pending \cup missed \/ Text(p, s[2], 0) \in texts

\* backfill_property_rag.py 11-12: "Re-running is safe: ... a property is
\* replaced rather than duplicated", as long as clearing it did not fail.
BackfillReplaces ==
    \A p \in Listings \ swallowed :
        \A x, y \in Filled(p) : x = y

\* No document is "processing" for ever, unless its task died or the failure
\* itself could not be recorded.
EveryDocumentSettles ==
    \A i \in Tracked :
        doc[i] = "processing" ~> doc[i] # "processing" \/ i \in cut
=============================================================================
