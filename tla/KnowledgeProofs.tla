--------------------------- MODULE KnowledgeProofs ---------------------------
(****************************************************************************)
(* Proofs about Knowledge, for any ingestions of each kind, any listings    *)
(* and any bounds.                                                          *)
(*                                                                          *)
(* The inductive invariant says which kinds take which steps (Placement),   *)
(* that nothing is stored or reported before the upsert (Unstored), how a   *)
(* row and its deletion are related (Rows), what an ingestion has behind it *)
(* when it reports (Success, Failure), that a listing for sale has been     *)
(* saved (Listed), and that the backfill has cleared the one it is at       *)
(* (Cleared).                                                               *)
(****************************************************************************)
EXTENDS Knowledge, TLAPS

Placement ==
    \A i \in Ingests :
        /\ step[i] = "transcribe" => i \in Voices
        /\ step[i] \in {"track", "markCompleted", "markFailed"} => i \in Tracked
        /\ step[i] \in {"report", "reportFailed"} => i \in Jobs
        /\ step[i] = "body" => i \in Emails

Early == {"idle", "transcribe", "track", "extract", "store"}

Unstored ==
    \A i \in Ingests : step[i] \in Early =>
        /\ i \notin points
        /\ i \in Tracked => doc[i] \in {"none", "processing"}
        /\ i \in Jobs => job[i] \notin {"completed", "failed"}

Rows ==
    \A i \in Tracked :
        /\ step[i] \in {"idle", "track"} => del[i] = "no" /\ doc[i] = "none"
        /\ step[i] \in {"extract", "store"} /\ doc[i] = "none" => del[i] # "no"

Kept(i) == i \in Tracked => doc[i] # "none"

Success ==
    \A i \in Ingests :
        step[i] \in {"markCompleted", "report"} /\ Kept(i) => i \in points \cup blank \cup stripped

Failure ==
    \A i \in Ingests :
        step[i] \in {"markFailed", "reportFailed"} /\ i \in points => i \in late

Listed == \A p \in alive : version[p] > 0

Cleared == cur # <<>> /\ cur[1] \notin swallowed => Filled(cur[1]) = {}

IInv ==
    /\ TypeOK
    /\ Placement
    /\ Unstored
    /\ Rows
    /\ Success
    /\ Failure
    /\ StatusTellsTruth
    /\ OrphanExplained
    /\ Listed
    /\ NewestKnown
    /\ Cleared
    /\ BackfillReplaces

-----------------------------------------------------------------------------
\* Nothing but listings changes when a listing is saved, deleted or ingested, or
\* the backfill runs.
Aside == UNCHANGED <<taskVars, doc, del, blank, late, outrun, cut, stripped>>

LEMMA ListingsAside ==
  ASSUME \/ \E p \in Listings : Save(p) \/ DeleteListing(p)
         \/ \E s \in pending  : IngestListing(s) \/ IngestListingFails(s)
         \/ Backfills
  PROVE  Aside
BY DEF Aside, Save, DeleteListing, IngestListing, IngestListingFails,
   Backfills, BackfillStarts, BackfillStores, BackfillFails, BackfillStops,
   BackfillClears, BackfillClearFails, Comes, hist

\* The other way round for documents.
LEMMA DocumentsAside ==
  ASSUME \/ \E i \in Ingests : Request(i) \/ EmailArrives(i) \/ Works(i) \/ Dies(i)
         \/ \E i \in Jobs    : JobExpires(i)
         \/ \E i \in Tracked : Deletes(i)
  PROVE  UNCHANGED <<listingVars, scriptVars, missed, swallowed>>
BY DEF Request, EmailArrives, Works, Dies, JobExpires, Deletes, Transcribe,
   Track, TrackFails, Extract, ExtractBlank, Store, StoreRefused,
   MarkCompleted, MarkFailed, Report, ReportFailed, ReadBody, DeleteRow,
   DeleteChunks, DeleteChunksFails, Answered, hist

-----------------------------------------------------------------------------
\* Types.
LEMMA TypeOKStep ==
  ASSUME IInv, Next
  PROVE  TypeOK'
<1> USE BoundAssumption DEF Ingests, Tracked, Jobs
<1>1. ASSUME NEW i \in Ingests, Request(i) \/ EmailArrives(i)
      PROVE  TypeOK'
  <2>1. step' \in [Ingests -> Steps]
    BY <1>1 DEF IInv, TypeOK, Steps, Request, EmailArrives, Goto
  <2>2. job' \in [Jobs -> {"none", "transcribing", "processing", "completed", "failed"}]
    BY <1>1 DEF IInv, TypeOK, Request, EmailArrives
  <2> QED
    BY <1>1, <2>1, <2>2 DEF IInv, TypeOK, Request, EmailArrives, Asks,
       listingVars, scriptVars, hist
<1>2. ASSUME NEW i \in Ingests,
             \/ Transcribe(i) \/ Track(i) \/ TrackFails(i) \/ Extract(i)
             \/ ExtractBlank(i) \/ StoreRefused(i) \/ ReadBody(i) \/ Dies(i)
      PROVE  TypeOK'
  <2>1. step' \in [Ingests -> Steps]
    BY <1>2 DEF IInv, TypeOK, Steps, Transcribe, Track, TrackFails, Extract,
       ExtractBlank, StoreRefused, ReadBody, Dies, Goto, Ended, Stored, Failed
  <2>2. /\ doc' \in [Tracked -> {"none", "processing", "completed", "failed"}]
        /\ {blank', cut'} \subseteq SUBSET Ingests /\ bodies' \subseteq Emails
    BY <1>2 DEF IInv, TypeOK, Placement, Transcribe, Track, TrackFails, Extract,
       ExtractBlank, StoreRefused, ReadBody, Dies, hist
  <2> QED
    BY <1>2, <2>1, <2>2 DEF IInv, TypeOK, Transcribe, Track, TrackFails,
       Extract, ExtractBlank, StoreRefused, ReadBody, Dies, listingVars,
       scriptVars, hist
<1>3. ASSUME NEW i \in Ingests, Store(i)
      PROVE  TypeOK'
  <2>1. step' \in [Ingests -> Steps]
    BY <1>3 DEF IInv, TypeOK, Steps, Store, Goto, Stored, Failed
  <2> QED
    BY <1>3, <2>1 DEF IInv, TypeOK, Store, listingVars, scriptVars
<1>4. ASSUME NEW i \in Ingests, MarkCompleted(i) \/ MarkFailed(i)
      PROVE  TypeOK'
  <2>1. step' \in [Ingests -> Steps]
    BY <1>4 DEF IInv, TypeOK, Steps, MarkCompleted, MarkFailed, Goto, Ended
  <2>2. doc' \in [Tracked -> {"none", "processing", "completed", "failed"}]
    BY <1>4 DEF IInv, TypeOK, MarkCompleted, MarkFailed, Update
  <2>3. {late', cut'} \subseteq SUBSET Ingests
    BY <1>4 DEF IInv, TypeOK, MarkCompleted, MarkFailed
  <2> QED
    BY <1>4, <2>1, <2>2, <2>3 DEF IInv, TypeOK, MarkCompleted, MarkFailed,
       listingVars, scriptVars
<1>5. ASSUME NEW i \in Ingests, Report(i) \/ ReportFailed(i)
      PROVE  TypeOK'
  <2>1. step' \in [Ingests -> Steps]
    BY <1>5 DEF IInv, TypeOK, Steps, Report, ReportFailed, Goto
  <2>2. job' \in [Jobs -> {"none", "transcribing", "processing", "completed", "failed"}]
    BY <1>5 DEF IInv, TypeOK, Report, ReportFailed
  <2>3. {late', cut'} \subseteq SUBSET Ingests
    BY <1>5 DEF IInv, TypeOK, Report, ReportFailed, hist
  <2> QED
    BY <1>5, <2>1, <2>2, <2>3 DEF IInv, TypeOK, Report, ReportFailed,
       listingVars, scriptVars, hist
<1>6. ASSUME NEW i \in Jobs, JobExpires(i)
      PROVE  TypeOK'
  BY <1>6 DEF IInv, TypeOK, JobExpires, listingVars, scriptVars, hist
<1>7. ASSUME NEW i \in Tracked, DeleteRow(i)
      PROVE  TypeOK'
  BY <1>7 DEF IInv, TypeOK, DeleteRow, Asks, taskVars, listingVars,
     scriptVars, hist
<1>8. ASSUME NEW i \in Tracked, DeleteChunks(i) \/ DeleteChunksFails(i)
      PROVE  TypeOK'
  BY <1>8 DEF IInv, TypeOK, DeleteChunks, DeleteChunksFails, Answered, taskVars,
     listingVars, scriptVars, hist
<1>9. ASSUME NEW p \in Listings, Save(p)
      PROVE  TypeOK'
  <2>1. /\ version' \in [Listings -> 0..MaxVersion] /\ alive' \subseteq Listings
        /\ pending' \subseteq Saves /\ requests' \in 0..MaxRequests
    BY <1>9 DEF IInv, TypeOK, Saves, Save, Asks
  <2> QED
    BY <1>9, <2>1 DEF IInv, TypeOK, Save, taskVars, scriptVars, hist
<1>10. ASSUME NEW p \in Listings, DeleteListing(p)
      PROVE  TypeOK'
  BY <1>10 DEF IInv, TypeOK, DeleteListing, Asks, taskVars, scriptVars, hist
<1>11. ASSUME NEW s \in pending, IngestListing(s) \/ IngestListingFails(s)
      PROVE  TypeOK'
  BY <1>11 DEF IInv, TypeOK, Saves, Text, IngestListing, IngestListingFails,
     taskVars, scriptVars, hist
<1>12. CASE BackfillStarts
  BY <1>12 DEF IInv, TypeOK, Listed, Saves, BackfillStarts, Asks, taskVars,
     listingVars, hist
<1>13. ASSUME NEW s \in todo, BackfillClears(s) \/ BackfillClearFails(s)
      PROVE  TypeOK'
  BY <1>13 DEF IInv, TypeOK, BackfillClears, BackfillClearFails, Comes,
     taskVars, listingVars, hist, Saves
<1>14. CASE BackfillStores \/ BackfillFails \/ BackfillStops
  BY <1>14 DEF IInv, TypeOK, Saves, Text, BackfillStores, BackfillFails,
     BackfillStops, taskVars, listingVars, hist
<1> QED
  BY <1>1, <1>2, <1>3, <1>4, <1>5, <1>6, <1>7, <1>8, <1>9, <1>10, <1>11,
     <1>12, <1>13, <1>14 DEF Next, Works, Deletes, Backfills

\* Which kinds take which steps.
LEMMA PlacementStep ==
  ASSUME IInv, Next
  PROVE  Placement'
<1> USE KindAssumption
<1>1. ASSUME NEW i \in Ingests, Request(i) \/ EmailArrives(i)
      PROVE  Placement'
  BY <1>1 DEF IInv, TypeOK, Placement, Goto, Tracked, Jobs, Ingests, Request,
     EmailArrives
<1>2. ASSUME NEW i \in Ingests, Transcribe(i)
      PROVE  Placement'
  BY <1>2 DEF IInv, TypeOK, Placement, Goto, Tracked, Jobs, Ingests,
     Transcribe
<1>3. ASSUME NEW i \in Ingests,
             \/ Track(i) \/ TrackFails(i) \/ Extract(i) \/ ExtractBlank(i)
             \/ Store(i) \/ StoreRefused(i)
      PROVE  Placement'
  BY <1>3 DEF IInv, TypeOK, Placement, Goto, Tracked, Jobs, Ingests, Track,
     TrackFails, Extract, ExtractBlank, Store, StoreRefused, Ended, Stored,
     Failed
<1>4. ASSUME NEW i \in Ingests,
             \/ MarkCompleted(i) \/ MarkFailed(i) \/ Report(i)
             \/ ReportFailed(i) \/ ReadBody(i) \/ Dies(i)
      PROVE  Placement'
  BY <1>4 DEF IInv, TypeOK, Placement, Goto, Tracked, Jobs, Ingests,
     MarkCompleted, MarkFailed, Report, ReportFailed, ReadBody, Dies, Ended
<1>5. ASSUME NEW i \in Jobs, JobExpires(i)
      PROVE  Placement'
  BY <1>5 DEF IInv, TypeOK, Placement, Ingests, JobExpires
<1>6. ASSUME NEW i \in Tracked, DeleteRow(i)
      PROVE  Placement'
  BY <1>6 DEF IInv, TypeOK, Placement, Ingests, DeleteRow, taskVars
<1>7. ASSUME NEW i \in Tracked, DeleteChunks(i) \/ DeleteChunksFails(i)
      PROVE  Placement'
  BY <1>7 DEF IInv, TypeOK, Placement, Ingests, DeleteChunks,
     DeleteChunksFails, taskVars
<1>8. ASSUME Aside
      PROVE  Placement'
  BY <1>8 DEF IInv, Placement, Aside, taskVars
<1> QED
  BY <1>1, <1>2, <1>3, <1>4, <1>5, <1>6, <1>7, <1>8, ListingsAside DEF Next,
     Works, Deletes

\* Nothing is stored or reported before the upsert.
LEMMA UnstoredStep ==
  ASSUME IInv, Next
  PROVE  Unstored'
<1>1. ASSUME NEW i \in Ingests, Request(i) \/ EmailArrives(i)
      PROVE  Unstored'
  BY <1>1 DEF IInv, TypeOK, Unstored, Early, Goto, Request, EmailArrives
<1>2. ASSUME NEW i \in Ingests, Transcribe(i)
      PROVE  Unstored'
  BY <1>2 DEF IInv, TypeOK, Unstored, Early, Goto, Transcribe
<1>3. ASSUME NEW i \in Ingests,
             \/ Track(i) \/ TrackFails(i) \/ Extract(i) \/ ExtractBlank(i)
      PROVE  Unstored'
  BY <1>3 DEF IInv, TypeOK, Unstored, Early, Goto, Track, TrackFails, Extract,
     ExtractBlank, Ended, Stored, Failed
<1>4. ASSUME NEW i \in Ingests, Store(i) \/ StoreRefused(i)
      PROVE  Unstored'
  BY <1>4 DEF IInv, TypeOK, Unstored, Early, Goto, Store, StoreRefused,
     Stored, Failed
<1>5. ASSUME NEW i \in Ingests, MarkCompleted(i)
      PROVE  Unstored'
  BY <1>5 DEF IInv, TypeOK, Unstored, Early, Goto, MarkCompleted, Ended,
     Update
<1>6. ASSUME NEW i \in Ingests, MarkFailed(i)
      PROVE  Unstored'
  BY <1>6 DEF IInv, TypeOK, Unstored, Early, Goto, MarkFailed, Ended, Update
<1>7. ASSUME NEW i \in Ingests,
             \/ Report(i) \/ ReportFailed(i) \/ ReadBody(i) \/ Dies(i)
      PROVE  Unstored'
  BY <1>7 DEF IInv, TypeOK, Unstored, Early, Goto, Report, ReportFailed,
     ReadBody, Dies, Ended
<1>8. ASSUME NEW i \in Jobs, JobExpires(i)
      PROVE  Unstored'
  BY <1>8 DEF IInv, TypeOK, Unstored, Early, JobExpires
<1>9. ASSUME NEW i \in Tracked, DeleteRow(i)
      PROVE  Unstored'
  BY <1>9 DEF IInv, TypeOK, Unstored, Early, DeleteRow, taskVars
<1>10. ASSUME NEW i \in Tracked, DeleteChunks(i) \/ DeleteChunksFails(i)
      PROVE  Unstored'
  BY <1>10 DEF IInv, TypeOK, Unstored, Early, DeleteChunks, DeleteChunksFails,
     taskVars
<1>11. ASSUME Aside
      PROVE  Unstored'
  BY <1>11 DEF IInv, Unstored, Aside, taskVars
<1> QED
  BY <1>1, <1>2, <1>3, <1>4, <1>5, <1>6, <1>7, <1>8, <1>9, <1>10, <1>11,
     ListingsAside DEF Next, Works, Deletes

\* A document is deleted once it is there, and does not come back.
LEMMA RowsStep ==
  ASSUME IInv, Next
  PROVE  Rows'
<1> USE KindAssumption
<1>1. ASSUME NEW i \in Ingests, Request(i) \/ EmailArrives(i)
      PROVE  Rows'
  BY <1>1 DEF IInv, TypeOK, Rows, Goto, Ingests, Tracked, Jobs, Request,
     EmailArrives
<1>2. ASSUME NEW i \in Ingests, Transcribe(i)
      PROVE  Rows'
  BY <1>2 DEF IInv, TypeOK, Rows, Goto, Ingests, Transcribe, Placement,
     Tracked
<1>3. ASSUME NEW i \in Ingests, Track(i) \/ TrackFails(i)
      PROVE  Rows'
  BY <1>3 DEF IInv, TypeOK, Rows, Goto, Ingests, Track, TrackFails, Ended
<1>4. ASSUME NEW i \in Ingests,
             \/ Extract(i) \/ ExtractBlank(i) \/ Store(i) \/ StoreRefused(i)
      PROVE  Rows'
  BY <1>4 DEF IInv, TypeOK, Rows, Goto, Ingests, Extract, ExtractBlank, Store,
     StoreRefused, Stored, Failed
<1>5. ASSUME NEW i \in Ingests, MarkCompleted(i)
      PROVE  Rows'
  BY <1>5 DEF IInv, TypeOK, Rows, Goto, Ingests, MarkCompleted, Ended, Update
<1>6. ASSUME NEW i \in Ingests, MarkFailed(i)
      PROVE  Rows'
  BY <1>6 DEF IInv, TypeOK, Rows, Goto, Ingests, MarkFailed, Ended, Update
<1>7. ASSUME NEW i \in Ingests,
             \/ Report(i) \/ ReportFailed(i) \/ ReadBody(i) \/ Dies(i)
      PROVE  Rows'
  BY <1>7 DEF IInv, TypeOK, Rows, Goto, Ingests, Report, ReportFailed,
     ReadBody, Dies
<1>8. ASSUME NEW i \in Jobs, JobExpires(i)
      PROVE  Rows'
  BY <1>8 DEF IInv, TypeOK, Rows, Ingests, JobExpires
<1>9. ASSUME NEW i \in Tracked, DeleteRow(i)
      PROVE  Rows'
  BY <1>9 DEF IInv, TypeOK, Rows, Ingests, DeleteRow, taskVars
<1>10. ASSUME NEW i \in Tracked, DeleteChunks(i) \/ DeleteChunksFails(i)
      PROVE  Rows'
  BY <1>10 DEF IInv, TypeOK, Rows, Ingests, DeleteChunks, DeleteChunksFails, Answered,
     taskVars
<1>11. ASSUME Aside
      PROVE  Rows'
  BY <1>11 DEF IInv, Rows, Aside, taskVars
<1> QED
  BY <1>1, <1>2, <1>3, <1>4, <1>5, <1>6, <1>7, <1>8, <1>9, <1>10, <1>11,
     ListingsAside DEF Next, Works, Deletes

\* Who is about to report success has stored the text, or there was none, or a
\* deletion has come between.
LEMMA SuccessStep ==
  ASSUME IInv, Next
  PROVE  Success'
<1>1. ASSUME NEW i \in Ingests, Request(i) \/ EmailArrives(i)
      PROVE  Success'
  BY <1>1 DEF IInv, TypeOK, Success, Goto, Kept, Request, EmailArrives, hist
<1>2. ASSUME NEW i \in Ingests, Transcribe(i) \/ ReadBody(i)
      PROVE  Success'
  BY <1>2 DEF IInv, TypeOK, Success, Goto, Kept, Transcribe, ReadBody, hist
<1>3. ASSUME NEW i \in Ingests, Track(i) \/ TrackFails(i)
      PROVE  Success'
  BY <1>3 DEF IInv, TypeOK, Success, Goto, Kept, Track, TrackFails, Ended,
     hist
<1>4. ASSUME NEW i \in Ingests, Extract(i) \/ StoreRefused(i)
      PROVE  Success'
  BY <1>4 DEF IInv, TypeOK, Success, Goto, Kept, Extract, StoreRefused, hist,
     Failed
<1>5. ASSUME NEW i \in Ingests, ExtractBlank(i)
      PROVE  Success'
  BY <1>5 DEF IInv, TypeOK, Success, Goto, Kept, ExtractBlank, Stored
<1>6. ASSUME NEW i \in Ingests, Store(i)
      PROVE  Success'
  BY <1>6 DEF IInv, TypeOK, Success, Goto, Kept, Store, Stored, Failed
<1>7. ASSUME NEW i \in Ingests, MarkCompleted(i)
      PROVE  Success'
  BY <1>7 DEF IInv, TypeOK, Success, Goto, Kept, MarkCompleted, Ended,
     Update, Tracked, Jobs
<1>8. ASSUME NEW i \in Ingests, MarkFailed(i)
      PROVE  Success'
  BY <1>8 DEF IInv, TypeOK, Success, Goto, Kept, MarkFailed, Ended, Update
<1>9. ASSUME NEW i \in Ingests, Report(i) \/ ReportFailed(i)
      PROVE  Success'
  BY <1>9 DEF IInv, TypeOK, Success, Goto, Kept, Report, ReportFailed, hist
<1>10. ASSUME NEW i \in Ingests, Dies(i)
      PROVE  Success'
  BY <1>10 DEF IInv, TypeOK, Success, Goto, Kept, Dies
<1>11. ASSUME NEW i \in Jobs, JobExpires(i)
      PROVE  Success'
  BY <1>11 DEF IInv, TypeOK, Success, Kept, JobExpires, hist
<1>12. ASSUME NEW i \in Tracked, DeleteRow(i)
      PROVE  Success'
  BY <1>12 DEF IInv, TypeOK, Success, Kept, DeleteRow, taskVars, hist, Rows
<1>13. ASSUME NEW i \in Tracked, DeleteChunks(i) \/ DeleteChunksFails(i)
      PROVE  Success'
  BY <1>13 DEF IInv, TypeOK, Success, Kept, DeleteChunks, DeleteChunksFails,
     taskVars, hist, Rows
<1>14. ASSUME Aside
      PROVE  Success'
  BY <1>14 DEF IInv, Success, Aside, taskVars, Kept
<1> QED
  BY <1>1, <1>2, <1>3, <1>4, <1>5, <1>6, <1>7, <1>8, <1>9, <1>10, <1>11,
     <1>12, <1>13, <1>14, ListingsAside DEF Next, Works, Deletes

\* Who is about to report failure has stored nothing, or knows no better.
LEMMA FailureStep ==
  ASSUME IInv, Next
  PROVE  Failure'
<1>1. ASSUME NEW i \in Ingests, Request(i) \/ EmailArrives(i)
      PROVE  Failure'
  BY <1>1 DEF IInv, TypeOK, Failure, Goto, Request, EmailArrives, hist
<1>2. ASSUME NEW i \in Ingests, Transcribe(i) \/ ReadBody(i)
      PROVE  Failure'
  BY <1>2 DEF IInv, TypeOK, Failure, Goto, Transcribe, ReadBody, hist,
     Unstored, Early
<1>3. ASSUME NEW i \in Ingests, Track(i) \/ TrackFails(i)
      PROVE  Failure'
  BY <1>3 DEF IInv, TypeOK, Failure, Goto, Track, TrackFails, Ended, hist,
     Unstored, Early
<1>4. ASSUME NEW i \in Ingests, Extract(i) \/ StoreRefused(i)
      PROVE  Failure'
  BY <1>4 DEF IInv, TypeOK, Failure, Goto, Extract, StoreRefused, hist,
     Failed, Unstored, Early
<1>5. ASSUME NEW i \in Ingests, ExtractBlank(i)
      PROVE  Failure'
  BY <1>5 DEF IInv, TypeOK, Failure, Goto, ExtractBlank, Stored
<1>6. ASSUME NEW i \in Ingests, Store(i)
      PROVE  Failure'
  BY <1>6 DEF IInv, TypeOK, Failure, Goto, Store, Stored, Failed
<1>7. ASSUME NEW i \in Ingests, MarkCompleted(i)
      PROVE  Failure'
  BY <1>7 DEF IInv, TypeOK, Failure, Goto, MarkCompleted, Ended
<1>8. ASSUME NEW i \in Ingests, MarkFailed(i)
      PROVE  Failure'
  BY <1>8 DEF IInv, TypeOK, Failure, Goto, MarkFailed, Ended
<1>9. ASSUME NEW i \in Ingests, Report(i) \/ ReportFailed(i)
      PROVE  Failure'
  BY <1>9 DEF IInv, TypeOK, Failure, Goto, Report, ReportFailed, hist
<1>10. ASSUME NEW i \in Ingests, Dies(i)
      PROVE  Failure'
  BY <1>10 DEF IInv, TypeOK, Failure, Goto, Dies
<1>11. ASSUME NEW i \in Jobs, JobExpires(i)
      PROVE  Failure'
  BY <1>11 DEF IInv, TypeOK, Failure, JobExpires, hist
<1>12. ASSUME NEW i \in Tracked, DeleteRow(i)
      PROVE  Failure'
  BY <1>12 DEF IInv, TypeOK, Failure, DeleteRow, taskVars, hist, Rows
<1>13. ASSUME NEW i \in Tracked, DeleteChunks(i) \/ DeleteChunksFails(i)
      PROVE  Failure'
  BY <1>13 DEF IInv, TypeOK, Failure, DeleteChunks, DeleteChunksFails,
     taskVars, hist, Rows
<1>14. ASSUME Aside
      PROVE  Failure'
  BY <1>14 DEF IInv, Failure, Aside, taskVars
<1> QED
  BY <1>1, <1>2, <1>3, <1>4, <1>5, <1>6, <1>7, <1>8, <1>9, <1>10, <1>11,
     <1>12, <1>13, <1>14, ListingsAside DEF Next, Works, Deletes

\* Statuses, from what their writers have behind them.
LEMMA StatusStep ==
  ASSUME IInv, Next
  PROVE  StatusTellsTruth'
<1>1. ASSUME NEW i \in Ingests, Request(i) \/ EmailArrives(i)
      PROVE  StatusTellsTruth'
  BY <1>1 DEF IInv, TypeOK, StatusTellsTruth, Ingests, Request, EmailArrives,
     hist
<1>2. ASSUME NEW i \in Ingests,
             \/ Transcribe(i) \/ Extract(i) \/ StoreRefused(i)
             \/ ReadBody(i)
      PROVE  StatusTellsTruth'
  BY <1>2 DEF IInv, TypeOK, StatusTellsTruth, Ingests, Transcribe, Extract,
     StoreRefused, ReadBody, hist
<1>3. ASSUME NEW i \in Ingests, Track(i) \/ TrackFails(i)
      PROVE  StatusTellsTruth'
  BY <1>3 DEF IInv, TypeOK, StatusTellsTruth, Ingests, Track, TrackFails,
     Rows, Unstored, Early, hist, Ended
<1>4. ASSUME NEW i \in Ingests, ExtractBlank(i)
      PROVE  StatusTellsTruth'
  BY <1>4 DEF IInv, TypeOK, StatusTellsTruth, Ingests, ExtractBlank, Stored
<1>5. ASSUME NEW i \in Ingests, Store(i)
      PROVE  StatusTellsTruth'
  BY <1>5 DEF IInv, TypeOK, StatusTellsTruth, Ingests, Store, Unstored, Early,
     Stored, Failed
<1>6. ASSUME NEW i \in Ingests, MarkCompleted(i)
      PROVE  StatusTellsTruth'
  BY <1>6 DEF IInv, TypeOK, StatusTellsTruth, Ingests, MarkCompleted, Success,
     Kept, Rows, Update, Placement
<1>7. ASSUME NEW i \in Ingests, MarkFailed(i)
      PROVE  StatusTellsTruth'
  BY <1>7 DEF IInv, TypeOK, StatusTellsTruth, Ingests, MarkFailed, Failure,
     Update, Placement
<1>8. ASSUME NEW i \in Ingests, Report(i)
      PROVE  StatusTellsTruth'
  BY <1>8 DEF IInv, TypeOK, StatusTellsTruth, Ingests, Report, Success, Kept
<1>9. ASSUME NEW i \in Ingests, ReportFailed(i)
      PROVE  StatusTellsTruth'
  BY <1>9 DEF IInv, TypeOK, StatusTellsTruth, Ingests, ReportFailed, Failure,
     hist
<1>10. ASSUME NEW i \in Ingests, Dies(i)
      PROVE  StatusTellsTruth'
  BY <1>10 DEF IInv, TypeOK, StatusTellsTruth, Ingests, Dies
<1>11. ASSUME NEW i \in Jobs, JobExpires(i)
      PROVE  StatusTellsTruth'
  BY <1>11 DEF IInv, TypeOK, StatusTellsTruth, Ingests, JobExpires, hist
<1>12. ASSUME NEW i \in Tracked, DeleteRow(i)
      PROVE  StatusTellsTruth'
  BY <1>12 DEF IInv, TypeOK, StatusTellsTruth, Ingests, DeleteRow, taskVars,
     hist, Rows
<1>13. ASSUME NEW i \in Tracked, DeleteChunks(i) \/ DeleteChunksFails(i)
      PROVE  StatusTellsTruth'
  BY <1>13 DEF IInv, TypeOK, StatusTellsTruth, Ingests, DeleteChunks,
     DeleteChunksFails, taskVars, hist, Rows
<1>14. ASSUME Aside
      PROVE  StatusTellsTruth'
  BY <1>14 DEF IInv, StatusTellsTruth, Aside, taskVars, Ingests
<1> QED
  BY <1>1, <1>2, <1>3, <1>4, <1>5, <1>6, <1>7, <1>8, <1>9, <1>10, <1>11,
     <1>12, <1>13, <1>14, ListingsAside DEF Next, Works, Deletes

\* A text without its document.
LEMMA OrphanStep ==
  ASSUME IInv, Next
  PROVE  OrphanExplained'
<1>1. ASSUME NEW i \in Ingests, Request(i) \/ EmailArrives(i)
      PROVE  OrphanExplained'
  BY <1>1 DEF IInv, TypeOK, OrphanExplained, Ingests, Request, EmailArrives,
     hist
<1>2. ASSUME NEW i \in Ingests,
             \/ Transcribe(i) \/ Extract(i) \/ StoreRefused(i)
             \/ ReadBody(i)
      PROVE  OrphanExplained'
  BY <1>2 DEF IInv, TypeOK, OrphanExplained, Ingests, Transcribe, Extract,
     StoreRefused, ReadBody, hist
<1>3. ASSUME NEW i \in Ingests, Track(i) \/ TrackFails(i)
      PROVE  OrphanExplained'
  BY <1>3 DEF IInv, TypeOK, OrphanExplained, Ingests, Track, TrackFails, hist
<1>4. ASSUME NEW i \in Ingests, ExtractBlank(i)
      PROVE  OrphanExplained'
  BY <1>4 DEF IInv, TypeOK, OrphanExplained, Ingests, ExtractBlank
<1>5. ASSUME NEW i \in Ingests, Store(i)
      PROVE  OrphanExplained'
  BY <1>5 DEF IInv, TypeOK, OrphanExplained, Ingests, Store, Rows
<1>6. ASSUME NEW i \in Ingests, MarkCompleted(i)
      PROVE  OrphanExplained'
  BY <1>6 DEF IInv, TypeOK, OrphanExplained, Ingests, MarkCompleted, Update
<1>7. ASSUME NEW i \in Ingests, MarkFailed(i)
      PROVE  OrphanExplained'
  BY <1>7 DEF IInv, TypeOK, OrphanExplained, Ingests, MarkFailed, Update
<1>8. ASSUME NEW i \in Ingests, Report(i)
      PROVE  OrphanExplained'
  BY <1>8 DEF IInv, TypeOK, OrphanExplained, Ingests, Report
<1>9. ASSUME NEW i \in Ingests, ReportFailed(i)
      PROVE  OrphanExplained'
  BY <1>9 DEF IInv, TypeOK, OrphanExplained, Ingests, ReportFailed, hist
<1>10. ASSUME NEW i \in Ingests, Dies(i)
      PROVE  OrphanExplained'
  BY <1>10 DEF IInv, TypeOK, OrphanExplained, Ingests, Dies
<1>11. ASSUME NEW i \in Jobs, JobExpires(i)
      PROVE  OrphanExplained'
  BY <1>11 DEF IInv, TypeOK, OrphanExplained, Ingests, JobExpires, hist
<1>12. ASSUME NEW i \in Tracked, DeleteRow(i)
      PROVE  OrphanExplained'
  BY <1>12 DEF IInv, TypeOK, OrphanExplained, Ingests, DeleteRow, taskVars,
     hist, Rows
<1>13. ASSUME NEW i \in Tracked, DeleteChunks(i) \/ DeleteChunksFails(i)
      PROVE  OrphanExplained'
  BY <1>13 DEF IInv, TypeOK, OrphanExplained, Ingests, DeleteChunks,
     DeleteChunksFails, Answered, taskVars, hist, Rows
<1>14. ASSUME Aside
      PROVE  OrphanExplained'
  BY <1>14 DEF IInv, OrphanExplained, Aside, taskVars, Ingests
<1> QED
  BY <1>1, <1>2, <1>3, <1>4, <1>5, <1>6, <1>7, <1>8, <1>9, <1>10, <1>11,
     <1>12, <1>13, <1>14, ListingsAside DEF Next, Works, Deletes

\* A listing is there because it was saved.
LEMMA ListedStep ==
  ASSUME IInv, Next
  PROVE  Listed'
<1>1. ASSUME NEW p \in Listings, Save(p)
      PROVE  Listed'
  BY <1>1 DEF IInv, TypeOK, Listed, Save, hist
<1>2. ASSUME NEW p \in Listings, DeleteListing(p)
      PROVE  Listed'
  BY <1>2 DEF IInv, TypeOK, Listed, DeleteListing, hist
<1>3. ASSUME NEW s \in pending, IngestListing(s)
      PROVE  Listed'
  BY <1>3 DEF IInv, TypeOK, Listed, IngestListing, Text, Saves, hist
<1>4. ASSUME NEW s \in pending, IngestListingFails(s)
      PROVE  Listed'
  BY <1>4 DEF IInv, TypeOK, Listed, IngestListingFails
<1>5. ASSUME NEW s \in todo, BackfillClears(s)
      PROVE  Listed'
  BY <1>5 DEF IInv, TypeOK, Listed, BackfillClears, Comes, hist
<1>6. ASSUME NEW s \in todo, BackfillClearFails(s)
      PROVE  Listed'
  BY <1>6 DEF IInv, TypeOK, Listed, BackfillClearFails, Comes, listingVars
<1>7. ASSUME BackfillStores
      PROVE  Listed'
  BY <1>7 DEF IInv, TypeOK, Listed, BackfillStores, Text, hist
<1>8. ASSUME BackfillStarts \/ BackfillFails \/ BackfillStops
      PROVE  Listed'
  BY <1>8 DEF IInv, TypeOK, Listed, BackfillStarts, BackfillFails,
     BackfillStops, listingVars, hist
<1>9. ASSUME UNCHANGED <<listingVars, scriptVars, missed, swallowed>>
      PROVE  Listed'
  BY <1>9 DEF IInv, Listed, listingVars, scriptVars
<1> QED
  BY <1>1, <1>2, <1>3, <1>4, <1>5, <1>6, <1>7, <1>8, <1>9, DocumentsAside DEF
     Next, Backfills

\* The newest text of a listing: only texts of backfills are ever removed.
LEMMA NewestStep ==
  ASSUME IInv, Next
  PROVE  NewestKnown'
<1>1. ASSUME NEW p \in Listings, Save(p)
      PROVE  NewestKnown'
  BY <1>1 DEF IInv, TypeOK, NewestKnown, Text, Save, hist
<1>2. ASSUME NEW p \in Listings, DeleteListing(p)
      PROVE  NewestKnown'
  BY <1>2 DEF IInv, TypeOK, NewestKnown, Text, DeleteListing, hist
<1>3. ASSUME NEW s \in pending, IngestListing(s)
      PROVE  NewestKnown'
  BY <1>3 DEF IInv, TypeOK, NewestKnown, Text, IngestListing, Saves, hist
<1>4. ASSUME NEW s \in pending, IngestListingFails(s)
      PROVE  NewestKnown'
  BY <1>4 DEF IInv, TypeOK, NewestKnown, Text, IngestListingFails
<1>5. ASSUME NEW s \in todo, BackfillClears(s)
      PROVE  NewestKnown'
  BY <1>5 DEF IInv, TypeOK, NewestKnown, Text, BackfillClears, Comes, hist,
     Filled
<1>6. ASSUME NEW s \in todo, BackfillClearFails(s)
      PROVE  NewestKnown'
  BY <1>6 DEF IInv, TypeOK, NewestKnown, Text, BackfillClearFails, Comes,
     listingVars
<1>7. ASSUME BackfillStores
      PROVE  NewestKnown'
  BY <1>7 DEF IInv, TypeOK, NewestKnown, Text, BackfillStores, hist
<1>8. ASSUME BackfillStarts \/ BackfillFails \/ BackfillStops
      PROVE  NewestKnown'
  BY <1>8 DEF IInv, TypeOK, NewestKnown, Text, BackfillStarts, BackfillFails,
     BackfillStops, listingVars, hist
<1>9. ASSUME UNCHANGED <<listingVars, scriptVars, missed, swallowed>>
      PROVE  NewestKnown'
  BY <1>9 DEF IInv, NewestKnown, listingVars, scriptVars, Text
<1> QED
  BY <1>1, <1>2, <1>3, <1>4, <1>5, <1>6, <1>7, <1>8, <1>9, DocumentsAside DEF
     Next, Backfills

\* The backfill clears a listing before it stores it.
LEMMA ClearedStep ==
  ASSUME IInv, Next
  PROVE  Cleared'
<1>1. ASSUME NEW p \in Listings, Save(p)
      PROVE  Cleared'
  BY <1>1 DEF IInv, TypeOK, Cleared, Filled, Saves, Save, scriptVars, hist
<1>2. ASSUME NEW p \in Listings, DeleteListing(p)
      PROVE  Cleared'
  BY <1>2 DEF IInv, TypeOK, Cleared, Filled, Saves, DeleteListing, scriptVars,
     hist
<1>3. ASSUME NEW s \in pending, IngestListing(s)
      PROVE  Cleared'
  BY <1>3 DEF IInv, TypeOK, Cleared, Filled, Saves, IngestListing, scriptVars,
     Text, hist
<1>4. ASSUME NEW s \in pending, IngestListingFails(s)
      PROVE  Cleared'
  BY <1>4 DEF IInv, TypeOK, Cleared, Filled, Saves, IngestListingFails,
     scriptVars
<1>5. ASSUME NEW s \in todo, BackfillClears(s)
      PROVE  Cleared'
  BY <1>5 DEF IInv, TypeOK, Cleared, Filled, Saves, BackfillClears, Comes,
     hist
<1>6. ASSUME NEW s \in todo, BackfillClearFails(s)
      PROVE  Cleared'
  BY <1>6 DEF IInv, TypeOK, Cleared, Filled, Saves, BackfillClearFails, Comes,
     listingVars
<1>7. ASSUME BackfillStores
      PROVE  Cleared'
  BY <1>7 DEF IInv, TypeOK, Cleared, Filled, Saves, BackfillStores, Text, hist
<1>8. ASSUME BackfillStarts \/ BackfillFails \/ BackfillStops
      PROVE  Cleared'
  BY <1>8 DEF IInv, TypeOK, Cleared, Filled, Saves, BackfillStarts,
     BackfillFails, BackfillStops, listingVars, hist
<1>9. ASSUME UNCHANGED <<listingVars, scriptVars, missed, swallowed>>
      PROVE  Cleared'
  BY <1>9 DEF IInv, Cleared, listingVars, scriptVars, Filled, Saves
<1> QED
  BY <1>1, <1>2, <1>3, <1>4, <1>5, <1>6, <1>7, <1>8, <1>9, DocumentsAside DEF
     Next, Backfills

\* One text of a backfill at a time.
LEMMA ReplacesStep ==
  ASSUME IInv, Next
  PROVE  BackfillReplaces'
<1>1. ASSUME NEW p \in Listings, Save(p)
      PROVE  BackfillReplaces'
  BY <1>1 DEF IInv, TypeOK, BackfillReplaces, Filled, Saves, Save, hist
<1>2. ASSUME NEW p \in Listings, DeleteListing(p)
      PROVE  BackfillReplaces'
  BY <1>2 DEF IInv, TypeOK, BackfillReplaces, Filled, Saves, DeleteListing,
     hist
<1>3. ASSUME NEW s \in pending, IngestListing(s)
      PROVE  BackfillReplaces'
  BY <1>3 DEF IInv, TypeOK, BackfillReplaces, Filled, Saves, IngestListing,
     Text, hist
<1>4. ASSUME NEW s \in pending, IngestListingFails(s)
      PROVE  BackfillReplaces'
  BY <1>4 DEF IInv, TypeOK, BackfillReplaces, Filled, Saves,
     IngestListingFails
<1>5. ASSUME NEW s \in todo, BackfillClears(s)
      PROVE  BackfillReplaces'
  BY <1>5 DEF IInv, TypeOK, BackfillReplaces, Filled, Saves, BackfillClears,
     Comes, hist
<1>6. ASSUME NEW s \in todo, BackfillClearFails(s)
      PROVE  BackfillReplaces'
  BY <1>6 DEF IInv, TypeOK, BackfillReplaces, Filled, Saves,
     BackfillClearFails, Comes, listingVars
<1>7. ASSUME BackfillStores
      PROVE  BackfillReplaces'
  BY <1>7 DEF IInv, TypeOK, BackfillReplaces, Filled, Saves, BackfillStores,
     Text, hist, Cleared
<1>8. ASSUME BackfillStarts \/ BackfillFails \/ BackfillStops
      PROVE  BackfillReplaces'
  BY <1>8 DEF IInv, TypeOK, BackfillReplaces, Filled, Saves, BackfillStarts,
     BackfillFails, BackfillStops, listingVars, hist
<1>9. ASSUME UNCHANGED <<listingVars, scriptVars, missed, swallowed>>
      PROVE  BackfillReplaces'
  BY <1>9 DEF IInv, BackfillReplaces, listingVars, scriptVars, Filled, Saves
<1> QED
  BY <1>1, <1>2, <1>3, <1>4, <1>5, <1>6, <1>7, <1>8, <1>9, DocumentsAside DEF
     Next, Backfills

-----------------------------------------------------------------------------
THEOREM Inductive == Spec => []IInv
<1>1. Init => IInv
  BY BoundAssumption DEF Init, IInv, TypeOK, Steps, Placement, Early,
     Unstored, Rows, Success, Failure, Kept, StatusTellsTruth,
     OrphanExplained, Listed, NewestKnown, Cleared, BackfillReplaces, Filled,
     Ingests, Tracked, Jobs
<1>2. ASSUME IInv, [Next]_vars
      PROVE  IInv'
  <2>1. CASE Next
    BY <1>2, <2>1, TypeOKStep, PlacementStep, UnstoredStep, RowsStep,
       SuccessStep, FailureStep, StatusStep, OrphanStep, ListedStep,
       NewestStep, ClearedStep, ReplacesStep DEF IInv
  <2>2. CASE UNCHANGED vars
    BY <1>2, <2>2 DEF vars, taskVars, listingVars, scriptVars, hist, IInv,
       TypeOK, Placement, Unstored, Rows, Success, Failure, Kept,
       StatusTellsTruth, OrphanExplained, Listed, NewestKnown, Cleared,
       BackfillReplaces, Filled
  <2> QED
    BY <1>2, <2>1, <2>2
<1> QED
  BY <1>1, <1>2, PTL DEF Spec

\* Every variable keeps its type.
THEOREM TypeCorrect == Spec => []TypeOK
<1>1. IInv => TypeOK
  BY DEF IInv
<1> QED
  BY <1>1, Inductive, PTL

\* A document or job is "completed" only with its text stored, or there was none,
\* or a deletion took the chunks and left the row; "failed" with a text only
\* after a write that raised.
THEOREM TruthfulStatus == Spec => []StatusTellsTruth
<1>1. IInv => StatusTellsTruth
  BY DEF IInv
<1> QED
  BY <1>1, Inductive, PTL

\* A text outlives its document only by a deletion that is not over or failed,
\* or by an ingestion that outran it.
THEOREM Orphans == Spec => []OrphanExplained
<1>1. IInv => OrphanExplained
  BY DEF IInv
<1> QED
  BY <1>1, Inductive, PTL

\* The newest text of a listing for sale is known, or its ingestion is under way
\* or failed, in whatever order the saves of any listing were ingested.
THEOREM NewestText == Spec => []NewestKnown
<1>1. IInv => NewestKnown
  BY DEF IInv
<1> QED
  BY <1>1, Inductive, PTL

\* Any number of backfills leave at most one text each, unless clearing failed.
THEOREM ReplacedNotDuplicated == Spec => []BackfillReplaces
<1>1. IInv => BackfillReplaces
  BY DEF IInv
<1> QED
  BY <1>1, Inductive, PTL
=============================================================================
