----------------------------- MODULE VisitsProofs -----------------------------
(****************************************************************************)
(* Proofs about Limits and Visits, for any requests, sessions and limits,   *)
(* any time a digest waits and any failures.                                *)
(*                                                                          *)
(* LadderKept needs to know that nothing was given while no stage is        *)
(* remembered, and that beyond the first stage somebody was offered 10%     *)
(* (Ladder).  VisitRemembered needs a digest about to write the row to have *)
(* read the one that is there (Digests).  PageFollowsCaller needs the       *)
(* canonical key, which the end of a call deletes first, to be gone before  *)
(* the other (Cleared).                                                     *)
(****************************************************************************)
EXTENDS Visits, FiniteSetTheorems, TLAPS

Sent    == {r \in Requests : digest[r] = "sent"}
Over(r) == digest[r] \in {"visitor", "upsert", "sent"}

\* Which requests can be at which step.
Fits(k, s) ==
    /\ k = "none" <=> s = "idle"
    /\ s \in {"count", "expire"} => k \in Limited
    /\ s \in {"read", "offer", "say"} => k = "discount"
    /\ s \in {"look", "alias"} => k = "dial"
    /\ s \in {"store", "log"} => k \in {"page", "dial"}

Flow ==
    \A r \in Requests :
        /\ Fits(kind[r], step[r])
        /\ kind[r] # "none" => of[r] \in Sessions
        /\ digest[r] # "none" => kind[r] = "end" /\ step[r] = "done"

\* While no stage is remembered nothing was given; and beyond the first stage
\* somebody was offered 10%.
Ladder ==
    /\ stage = 0 => /\ given = 0
                    /\ \A r \in Requests : step[r] # "say" /\ floor[r] = 0
    /\ \A r \in Requests :
        /\ step[r] \in {"idle", "read", "offer"} => offer[r] = 0
        /\ step[r] = "offer" /\ seen[r] = 0 => floor[r] = 0
    /\ stage # 0 \/ (\E r \in Requests : seen[r] # 0) =>
           \E q \in Requests : offer[q] = 10

\* A digest about to write the row read the one that is there, if nobody crossed
\* it; one that looked for the events had slept.
Digests ==
    /\ IsFiniteSet(Sent)
    /\ \A r \in Requests : digest[r] = "upsert" /\ r \notin crossed \cup spoiled =>
                               prior[r] = row
    /\ \A r \in Requests : Over(r) => slept[r] = Settle

\* The canonical key goes first when the call ends.
Cleared ==
    call \in {"raw", "over"} /\ ~uncleared /\ "canonical" \in ctx => "canonical" \in late

IInv ==
    /\ TypeOK
    /\ Flow
    /\ Ladder
    /\ LadderKept
    /\ Digests
    /\ VisitRemembered
    /\ Cleared
    /\ PageFollowsCaller

-----------------------------------------------------------------------------
(* What each kind of step changes *)

Elsewhere == UNCHANGED <<plan, of, store, context, digests>>

CountStep(r)  == Count(r) \/ SetExpiry(r) \/ CounterFails(r) \/ Demonstrate(r)
HaggleStep(r) == ReadStage(r) \/ WriteStage(r) \/ SayOffer(r)
DigestStep(r) == Sleep(r) \/ Gather(r) \/ ReadVisitor(r) \/ UpsertVisitor(r)
PageStep(r)   == Look(r) \/ Fetch(r) \/ Store(r) \/ StoreAlias(r) \/ LogFetch(r) \/ Clear(r)
VisitStep(r)  == Track(r) \/ Review(r) \/ EndVisit(r)
CallStep      == CallBegins \/ CallEnds \/ ClearRaw \/ ClearFails

LEMMA NextSteps ==
  ASSUME Next
  PROVE  \/ \E r \in Requests :
               \/ (CountStep(r) \/ HaggleStep(r)) /\ Elsewhere
               \/ \E k \in Kinds, s \in Sessions : Arrive(r, k, s)
               \/ VisitStep(r) \/ DigestStep(r) \/ PageStep(r)
         \/ (\E c \in Limited : WindowEnds(c)) /\ Elsewhere
         \/ StageExpires /\ Elsewhere
         \/ \E key \in Keys : ContextExpires(key)
         \/ CallStep
BY DEF Next, LimitsNext, CountStep, HaggleStep, VisitStep, DigestStep, PageStep, CallStep,
   Elsewhere

\* Each part of the state has its own steps; the others leave it alone.
LEMMA Parts ==
  ASSUME Next
  PROVE  /\ \/ UNCHANGED haggle
            \/ StageExpires \/ \E r \in Requests : HaggleStep(r)
            \/ \E r \in Requests, k \in Kinds, s \in Sessions : Arrive(r, k, s)
         /\ \/ UNCHANGED <<digest, slept, found, prior, row, spoiled, crossed>>
            \/ \E r \in Requests : EndVisit(r) \/ DigestStep(r)
         /\ UNCHANGED <<events, prompt>> \/ \E r \in Requests : Track(r)
         /\ \/ UNCHANGED context
            \/ \E r \in Requests : PageStep(r)
            \/ (\E key \in Keys : ContextExpires(key)) \/ CallStep
<1> USE DEF haggle, digests, context, store, calling, limits, counters
<1>1. ASSUME NEW r \in Requests, CountStep(r), Elsewhere
      PROVE  UNCHANGED <<haggle, digests, context, store>>
  BY <1>1 DEF CountStep, Count, SetExpiry, CounterFails, Demonstrate, Elsewhere
<1>2. ASSUME NEW r \in Requests, VisitStep(r)
      PROVE  UNCHANGED <<haggle, context>>
  BY <1>2 DEF VisitStep, Track, Review, EndVisit, Rest
<1>3. ASSUME NEW r \in Requests, Review(r) \/ EndVisit(r)
      PROVE  UNCHANGED <<events, prompt>>
  BY <1>3 DEF Review, EndVisit
<1>4. ASSUME NEW r \in Requests, Track(r) \/ Review(r)
      PROVE  UNCHANGED <<digest, slept, found, prior, row, spoiled, crossed>>
  BY <1>4 DEF Track, Review
<1>5. ASSUME NEW r \in Requests, DigestStep(r)
      PROVE  UNCHANGED <<haggle, context, events, prompt>>
  BY <1>5 DEF DigestStep, Sleep, Gather, ReadVisitor, UpsertVisitor, Rest
<1>6. ASSUME NEW r \in Requests, PageStep(r)
      PROVE  UNCHANGED <<haggle, digests, events>>
  BY <1>6 DEF PageStep, Look, Fetch, Store, StoreAlias, LogFetch, Clear, Rest
<1>7. ASSUME NEW key \in Keys, ContextExpires(key)
      PROVE  UNCHANGED <<haggle, digests, store>>
  BY <1>7 DEF ContextExpires
<1>8. CASE CallStep
  BY <1>8 DEF CallStep, CallBegins, CallEnds, ClearRaw, ClearFails, Rest
<1>9. ASSUME NEW r \in Requests, NEW k \in Kinds, NEW s \in Sessions, Arrive(r, k, s)
      PROVE  UNCHANGED <<digests, context, store>>
  BY <1>9 DEF Arrive
<1>10. CASE \E c \in Limited : WindowEnds(c) /\ Elsewhere
  BY <1>10 DEF WindowEnds, Elsewhere
<1> HIDE DEF haggle, digests, context, store, calling, limits, counters
<1>11. UNCHANGED digests =>
          UNCHANGED <<digest, slept, found, prior, row, prompt, spoiled, crossed>>
  BY DEF digests
<1>12. UNCHANGED store => events' = events
  BY DEF store
<1>13. Elsewhere => UNCHANGED <<context, digests, store>>
  BY DEF Elsewhere
<1> QED
  BY <1>1, <1>2, <1>3, <1>4, <1>5, <1>6, <1>7, <1>8, <1>9, <1>10, <1>11, <1>12, <1>13, NextSteps
     DEF VisitStep

\* A step is that of one request, which arrives or goes on.
Still(r)   == UNCHANGED <<kind[r], step[r], of[r]>>
Arrives(r) == /\ kind[r] = "none" /\ kind'[r] \in Kinds /\ of'[r] \in Sessions
              /\ step'[r] \in {"look", "count", "read", "act"} /\ Fits(kind'[r], step'[r])
GoesOn(r)  == /\ step[r] \notin {"idle", "done", "failed", "refused"} /\ step'[r] # "idle"
              /\ kind'[r] = kind[r] /\ of'[r] = of[r] /\ Fits(kind[r], step'[r])
              /\ "offer" \in {step[r], step'[r]} \/ step'[r] = "say" => HaggleStep(r)
              /\ kind[r] = "dial" => /\ step'[r] = "log" => StoreAlias(r)
                                     /\ step'[r] = "done" => step[r] = "log"
              /\ step'[r] # "read"

LEMMA Progress ==
  ASSUME TypeOK, Flow, Next
  PROVE  /\ kind' \in [Requests -> Kinds \cup {"none"}]
         /\ step' \in [Requests -> Labels]
         /\ of' \in [Requests -> Sessions \cup {None}]
         /\ \A r \in Requests : Still(r) \/ Arrives(r) \/ GoesOn(r)
         /\ \A q, r \in Requests : q = r \/ Still(q) \/ Still(r)
<1> USE DEF TypeOK, LimitsTypeOK, Labels, Flow, Fits, Goto, Kinds, Limited, Still, GoesOn
<1> DEFINE Only(r) ==
      /\ kind' \in [Requests -> Kinds \cup {"none"}]
      /\ step' \in [Requests -> Labels]
      /\ of' \in [Requests -> Sessions \cup {None}]
      /\ \A q \in Requests \ {r} : Still(q)
<1>1. ASSUME NEW r \in Requests, CountStep(r), Elsewhere
      PROVE  Only(r) /\ GoesOn(r)
  <2>1. CASE Count(r)
    BY <1>1, <2>1 DEF Count, Elsewhere
  <2>2. CASE SetExpiry(r)
    BY <1>1, <2>2 DEF SetExpiry, Elsewhere
  <2>3. CASE CounterFails(r)
    BY <1>1, <2>3 DEF CounterFails, Elsewhere
  <2>4. CASE Demonstrate(r)
    BY <1>1, <2>4 DEF Demonstrate, Elsewhere
  <2> QED
    BY <1>1, <2>1, <2>2, <2>3, <2>4 DEF CountStep
<1>2. ASSUME NEW r \in Requests, HaggleStep(r), Elsewhere
      PROVE  Only(r) /\ GoesOn(r)
  BY <1>2 DEF HaggleStep, ReadStage, WriteStage, SayOffer, Elsewhere
<1>3. ASSUME NEW r \in Requests, VisitStep(r)
      PROVE  Only(r) /\ GoesOn(r)
  BY <1>3 DEF VisitStep, Track, Review, EndVisit, Acts, Inserts, Rest
<1>4. ASSUME NEW r \in Requests, DigestStep(r)
      PROVE  Only(r) /\ Still(r)
  BY <1>4 DEF DigestStep, Sleep, Gather, ReadVisitor, UpsertVisitor, Rest, limits
<1>5. ASSUME NEW r \in Requests, PageStep(r)
      PROVE  Only(r) /\ GoesOn(r)
  <2>1. CASE Look(r)
    <3>1. step[r] = "look" /\ kind[r] = "dial"
      BY <2>1 DEF Look
    <3>2. step' \in {[step EXCEPT ![r] = "store"], [step EXCEPT ![r] = "count"]}
      BY <2>1 DEF Look
    <3> QED
      BY <2>1, <3>1, <3>2 DEF Look, Rest
  <2>2. CASE Fetch(r)
    BY <2>2 DEF Fetch, Acts, Rest
  <2>3. CASE Store(r)
    BY <2>3 DEF Store, Rest
  <2>4. CASE StoreAlias(r)
    BY <2>4 DEF StoreAlias, Rest
  <2>5. CASE LogFetch(r)
    BY <2>5 DEF LogFetch, Rest
  <2>6. CASE Clear(r)
    BY <2>6 DEF Clear, Acts, Rest
  <2> QED
    BY <1>5, <2>1, <2>2, <2>3, <2>4, <2>5, <2>6 DEF PageStep
<1>6. ASSUME NEW r \in Requests, NEW k \in Kinds, NEW s \in Sessions, Arrive(r, k, s)
      PROVE  Only(r) /\ Arrives(r)
  BY <1>6 DEF Arrive, Ask, Entry, Arrives
<1>7. CASE \/ (\E c \in Limited : WindowEnds(c)) /\ Elsewhere
           \/ StageExpires /\ Elsewhere
           \/ \E key \in Keys : ContextExpires(key)
           \/ CallStep
  BY <1>7 DEF WindowEnds, StageExpires, Elsewhere, ContextExpires, CallStep, CallBegins, CallEnds,
     ClearRaw, ClearFails, Rest, limits
<1> HIDE DEF TypeOK, LimitsTypeOK, Labels, Flow, Fits, Goto, Kinds, Limited, Still, GoesOn
<1> QED
  BY <1>1, <1>2, <1>3, <1>4, <1>5, <1>6, <1>7, NextSteps

LEMMA FlowStep ==
  ASSUME TypeOK, Flow, Next
  PROVE  Flow'
<1>1. ASSUME NEW r \in Requests
      PROVE  Fits(kind[r], step[r])' /\ (kind'[r] # "none" => of'[r] \in Sessions)
  BY Progress DEF Still, Arrives, GoesOn, Flow, Fits, TypeOK, LimitsTypeOK
<1>2. ASSUME NEW r \in Requests, digest'[r] # "none"
      PROVE  kind'[r] = "end" /\ step'[r] = "done"
  <2>1. CASE digest[r] # "none"
    BY <2>1, Progress DEF Still, Arrives, GoesOn, Flow
  <2>2. CASE digest[r] = "none"
    <3>1. PICK q \in Requests : EndVisit(q) \/ DigestStep(q)
      BY <1>2, <2>2, Parts
    <3>2. EndVisit(r)
      BY <1>2, <2>2, <3>1 DEF TypeOK, EndVisit, DigestStep, Sleep, Gather, ReadVisitor,
         UpsertVisitor
    <3> QED
      BY <3>2 DEF EndVisit, Acts, Goto, Rest, TypeOK, LimitsTypeOK
  <2> QED
    BY <2>1, <2>2
<1> QED
  BY <1>1, <1>2 DEF Flow

LEMMA TypeOKStep ==
  ASSUME IInv, Next
  PROVE  TypeOK'
<1> USE DEF IInv, TypeOK, LimitsTypeOK
<1>1. /\ kind' \in [Requests -> Kinds \cup {"none"}]
      /\ step' \in [Requests -> Labels]
      /\ of' \in [Requests -> Sessions \cup {None}]
  BY Progress
<1>2. /\ hits' \in [Limited -> Nat] /\ timed' \subseteq Limited /\ unset' \subseteq Limited
      /\ faults' \in Nat /\ plan' = plan
  <2> USE DEF Fails
  <2>1. ASSUME NEW r \in Requests, CountStep(r), Elsewhere
        PROVE  /\ hits' \in [Limited -> Nat] /\ timed' \subseteq Limited
               /\ unset' \subseteq Limited /\ faults' \in Nat /\ plan' = plan
    <3>1. step[r] \in {"count", "expire"} => Counter(kind[r]) \in Limited
      BY DEF Flow, Fits, Counter, Limited
    <3> QED
      BY <2>1, <3>1 DEF CountStep, Count, SetExpiry, CounterFails, Demonstrate, Elsewhere,
         counters
  <2>2. ASSUME NEW r \in Requests, HaggleStep(r) \/ StageExpires, Elsewhere
        PROVE  UNCHANGED <<counters, faults, plan>>
    BY <2>2 DEF HaggleStep, ReadStage, WriteStage, SayOffer, StageExpires, Elsewhere
  <2>3. ASSUME NEW r \in Requests, VisitStep(r) \/ DigestStep(r) \/ PageStep(r)
        PROVE  UNCHANGED <<counters, plan>> /\ faults' \in Nat
    <3>1. CASE VisitStep(r)
      BY <3>1 DEF VisitStep, Track, Review, EndVisit, Inserts, Rest
    <3>2. CASE DigestStep(r)
      BY <3>2 DEF DigestStep, Sleep, Gather, ReadVisitor, UpsertVisitor, Rest, limits
    <3>3. CASE PageStep(r)
      BY <3>3 DEF PageStep, Look, Fetch, Store, StoreAlias, LogFetch, Clear, Rest
    <3> QED
      BY <2>3, <3>1, <3>2, <3>3
  <2>4. ASSUME NEW r \in Requests, NEW k \in Kinds, NEW s \in Sessions, Arrive(r, k, s)
        PROVE  UNCHANGED <<counters, faults, plan>>
    BY <2>4 DEF Arrive, Ask
  <2>5. ASSUME NEW c \in Limited, WindowEnds(c), Elsewhere
        PROVE  /\ hits' \in [Limited -> Nat] /\ timed' \subseteq Limited
               /\ UNCHANGED <<unset, faults, plan>>
    BY <2>5 DEF WindowEnds, Elsewhere
  <2>6. CASE (\E key \in Keys : ContextExpires(key)) \/ CallStep
    BY <2>6 DEF ContextExpires, CallStep, CallBegins, CallEnds, ClearRaw, ClearFails, Rest,
       limits, counters
  <2>7. CASE StageExpires /\ Elsewhere
    BY <2>7 DEF StageExpires, Elsewhere, counters
  <2> QED
    BY <2>1, <2>2, <2>3, <2>4, <2>5, <2>6, <2>7, NextSteps DEF counters
<1>3. /\ stage' \in 0..MAX_DISCOUNT_STAGE
      /\ seen' \in [Requests -> 0..MAX_DISCOUNT_STAGE]
      /\ offer' \in [Requests -> {0, 10, 20}] /\ floor' \in [Requests -> {0, 10, 20}]
      /\ given' \in {0, 10, 20}
  <2> DEFINE Goal == /\ stage' \in 0..MAX_DISCOUNT_STAGE
                     /\ seen' \in [Requests -> 0..MAX_DISCOUNT_STAGE]
                     /\ offer' \in [Requests -> {0, 10, 20}]
                     /\ floor' \in [Requests -> {0, 10, 20}]
                     /\ given' \in {0, 10, 20}
  <2>1. ASSUME NEW r \in Requests, HaggleStep(r)
        PROVE  Goal
    <3>1. Climb(seen[r]) \in {1, 2}
      BY DEF Climb, MAX_DISCOUNT_STAGE
    <3>2. DISCOUNT_LADDER[Climb(seen[r])] \in {10, 20}
      BY <3>1 DEF DISCOUNT_LADDER
    <3>3. CASE ReadStage(r)
      BY <3>3 DEF ReadStage
    <3>4. CASE WriteStage(r)
      BY <3>1, <3>2, <3>4 DEF WriteStage, MAX_DISCOUNT_STAGE
    <3>5. CASE SayOffer(r)
      BY <3>5 DEF SayOffer
    <3> QED
      BY <2>1, <3>3, <3>4, <3>5 DEF HaggleStep
  <2>2. ASSUME NEW r \in Requests, NEW k \in Kinds, NEW s \in Sessions, Arrive(r, k, s)
        PROVE  Goal
    BY <2>2 DEF Arrive, Ask
  <2>3. CASE StageExpires
    BY <2>3 DEF StageExpires, MAX_DISCOUNT_STAGE
  <2> QED
    BY <2>1, <2>2, <2>3, Parts DEF haggle
<1>4. reviews' \subseteq Sessions /\ pages' \subseteq Sessions
  <2>1. ASSUME NEW r \in Requests, VisitStep(r) \/ PageStep(r)
        PROVE  reviews' \subseteq Sessions /\ pages' \subseteq Sessions
    <3>1. step[r] \in {"act", "log"} => of[r] \in Sessions
      BY DEF Flow, Fits
    <3>2. CASE VisitStep(r)
      BY <3>1, <3>2 DEF VisitStep, Track, Review, EndVisit, Acts, store
    <3>3. CASE PageStep(r)
      BY <3>1, <3>3 DEF PageStep, Look, Fetch, Store, StoreAlias, LogFetch, Clear, store
    <3> QED
      BY <2>1, <3>2, <3>3
  <2>2. ASSUME NEW r \in Requests, DigestStep(r)
        PROVE  UNCHANGED store
    BY <2>2 DEF DigestStep, Sleep, Gather, ReadVisitor, UpsertVisitor
  <2>3. ASSUME NEW r \in Requests, NEW k \in Kinds, NEW s \in Sessions, Arrive(r, k, s)
        PROVE  UNCHANGED store
    BY <2>3 DEF Arrive
  <2>4. CASE (\E key \in Keys : ContextExpires(key)) \/ CallStep
    BY <2>4 DEF ContextExpires, CallStep, CallBegins, CallEnds, ClearRaw, ClearFails, store
  <2> QED
    BY <2>1, <2>2, <2>3, <2>4, NextSteps DEF store, Elsewhere
<1>5. events' \subseteq Sessions /\ prompt' \subseteq events'
  <2>1. ASSUME NEW r \in Requests, Track(r)
        PROVE  events' \subseteq Sessions /\ prompt' \subseteq events'
    <3>1. of[r] \in Sessions
      BY <2>1 DEF Flow, Fits, Track, Acts
    <3> QED
      BY <2>1, <3>1 DEF Track
  <2> QED
    BY <2>1, Parts
<1>6. /\ ctx' \subseteq Keys /\ late' \subseteq Keys
      /\ call' \in {"none", "on", "raw", "over"}
  <2> DEFINE Goal == /\ ctx' \subseteq Keys /\ late' \subseteq Keys
                     /\ call' \in {"none", "on", "raw", "over"}
  <2>1. ASSUME NEW r \in Requests, PageStep(r)
        PROVE  Goal
    <3>1. step[r] = "store" => of[r] \in Keys
      BY DEF Flow, Fits, Keys
    <3>2. "typed" \in Keys /\ "canonical" \in Keys
      BY DEF Keys
    <3> QED
      BY <2>1, <3>1, <3>2 DEF PageStep, Look, Fetch, Store, StoreAlias, LogFetch, Clear, Keep,
         context, calling
  <2>2. CASE (\E key \in Keys : ContextExpires(key)) \/ CallStep
    BY <2>2 DEF ContextExpires, CallStep, CallBegins, CallEnds, ClearRaw, ClearFails, calling
  <2> QED
    BY <2>1, <2>2, Parts DEF context, calling
<1>7. e164' \in BOOLEAN /\ uncleared' \in BOOLEAN
  <2>1. ASSUME NEW r \in Requests, PageStep(r)
        PROVE  e164' = e164 /\ uncleared' = uncleared
    BY <2>1 DEF PageStep, Look, Fetch, Store, StoreAlias, LogFetch, Clear, context, calling
  <2>2. \/ e164' = e164 /\ uncleared' = uncleared
        \/ e164' = e164 /\ uncleared' = TRUE
    BY <2>1, Parts DEF ContextExpires, CallStep, CallBegins, CallEnds, ClearRaw, ClearFails,
       context, calling
  <2> QED
    BY <2>2, Zenon
<1>8. aged' \in BOOLEAN
  <2>1. ASSUME NEW r \in Requests, PageStep(r)
        PROVE  aged' = aged
    BY <2>1 DEF PageStep, Look, Fetch, Store, StoreAlias, LogFetch, Clear, context
  <2>2. aged' = aged \/ \E key \in Keys : aged' = (aged \/ key = "canonical")
    BY <2>1, Parts DEF ContextExpires, CallStep, CallBegins, CallEnds, ClearRaw, ClearFails,
       context
  <2> QED
    BY <2>2, Zenon
<1>9. /\ digest' \in [Requests -> {"none", "settle", "visitor", "upsert", "sent"}]
      /\ slept' \in [Requests -> 0..Settle]
      /\ found' \in [Requests -> SUBSET (Fields \cup {"events"})]
      /\ row' \in [count : Nat, knows : SUBSET Fields]
      /\ prior' \in [Requests -> [count : Nat, knows : SUBSET Fields]]
      /\ spoiled' \subseteq Requests /\ crossed' \subseteq Requests
  <2> DEFINE Goal == /\ digest' \in [Requests -> {"none", "settle", "visitor", "upsert", "sent"}]
                     /\ slept' \in [Requests -> 0..Settle]
                     /\ found' \in [Requests -> SUBSET (Fields \cup {"events"})]
                     /\ row' \in [count : Nat, knows : SUBSET Fields]
                     /\ prior' \in [Requests -> [count : Nat, knows : SUBSET Fields]]
                     /\ spoiled' \subseteq Requests /\ crossed' \subseteq Requests
  <2>1. ASSUME NEW r \in Requests, EndVisit(r)
        PROVE  Goal
    BY <2>1 DEF EndVisit
  <2>2. ASSUME NEW r \in Requests, Sleep(r)
        PROVE  Goal
    <3>1. slept[r] + 1 \in 0..Settle
      BY <2>2, VisitAssumption DEF Sleep
    <3> QED
      BY <2>2, <3>1 DEF Sleep
  <2>3. ASSUME NEW r \in Requests, Gather(r)
        PROVE  Goal
    BY <2>3 DEF Gather, Fields
  <2>4. ASSUME NEW r \in Requests, ReadVisitor(r)
        PROVE  Goal
    BY <2>4 DEF ReadVisitor, NoRow
  <2>5. ASSUME NEW r \in Requests, UpsertVisitor(r)
        PROVE  Goal
    <3>1. Merged(r) \in [count : Nat, knows : SUBSET Fields]
      BY DEF Merged
    <3> QED
      BY <2>5, <3>1 DEF UpsertVisitor
  <2> QED
    BY <2>1, <2>2, <2>3, <2>4, <2>5, Parts DEF DigestStep
<1> QED
  BY <1>1, <1>2, <1>3, <1>4, <1>5, <1>6, <1>7, <1>8, <1>9

-----------------------------------------------------------------------------
(* The ladder *)

LEMMA LadderStep ==
  ASSUME IInv, Next
  PROVE  Ladder' /\ LadderKept'
<1> USE DEF IInv, TypeOK, LimitsTypeOK
<1>1. ASSUME NEW r \in Requests, ReadStage(r)
      PROVE  Ladder' /\ LadderKept'
  BY <1>1 DEF ReadStage, Ladder, LadderKept, Goto
<1>2. ASSUME NEW r \in Requests, WriteStage(r)
      PROVE  Ladder' /\ LadderKept'
  <2>1. \/ seen[r] = 0 /\ stage' = 1 /\ offer' = [offer EXCEPT ![r] = 10]
        \/ seen[r] # 0 /\ stage' = 2 /\ offer' = [offer EXCEPT ![r] = 20]
    <3>1. seen[r] \in {0, 1, 2}
      BY DEF MAX_DISCOUNT_STAGE
    <3>2. Climb(seen[r]) = IF seen[r] = 0 THEN 1 ELSE 2
      BY <3>1 DEF Climb, MAX_DISCOUNT_STAGE
    <3>3. DISCOUNT_LADDER[1] = 10 /\ DISCOUNT_LADDER[2] = 20
      BY DEF DISCOUNT_LADDER
    <3> QED
      BY <1>2, <3>2, <3>3 DEF WriteStage
  <2>2. offer[r] = 0 /\ step' = [step EXCEPT ![r] = "say"] /\ UNCHANGED <<seen, floor>>
    BY <1>2 DEF WriteStage, Goto, Ladder
  <2>3. \E q \in Requests : offer'[q] = 10
    BY <2>1, <2>2 DEF Ladder
  <2>4. seen[r] = 0 => floor[r] = 0
    BY <1>2 DEF WriteStage, Ladder
  <2>5. Ladder'
    BY <2>1, <2>2, <2>3 DEF Ladder
  <2>6. ASSUME NEW q \in Requests, offer'[q] # 0
        PROVE  offer'[q] >= floor'[q]
    <3>1. CASE q = r
      BY <2>1, <2>2, <2>4, <3>1
    <3>2. CASE q # r
      BY <2>1, <2>2, <2>6, <3>2 DEF LadderKept
    <3> QED
      BY <3>1, <3>2
  <2> QED
    BY <2>3, <2>5, <2>6 DEF LadderKept
<1>3. ASSUME NEW r \in Requests, SayOffer(r)
      PROVE  Ladder' /\ LadderKept'
  BY <1>3 DEF SayOffer, Ladder, LadderKept, Goto
<1>4. ASSUME NEW r \in Requests, NEW k \in Kinds, NEW s \in Sessions, Arrive(r, k, s)
      PROVE  Ladder' /\ LadderKept'
  <2>1. step[r] = "idle"
    BY <1>4 DEF Arrive, Ask, Flow, Fits
  <2>2. \A q \in Requests : step'[q] = step[q] \/ step'[q] \in {"look", "count", "read", "act"}
    BY <1>4 DEF Arrive, Ask, Entry, Goto
  <2>3. floor' = [floor EXCEPT ![r] = given] /\ UNCHANGED <<stage, seen, offer, given>>
    BY <1>4 DEF Arrive, Ask, counters
  <2>4. step'[r] # "offer" /\ \A q \in Requests \ {r} : step'[q] = step[q]
    BY <1>4 DEF Arrive, Ask, Entry, Goto
  <2>5. offer'[r] = 0
    BY <2>1, <2>3 DEF Ladder
  <2> QED
    BY <2>2, <2>3, <2>4, <2>5 DEF Ladder, LadderKept
<1>5. CASE StageExpires
  BY <1>5 DEF StageExpires, Ladder, LadderKept
<1>6. CASE UNCHANGED haggle /\ \A r \in Requests : ~HaggleStep(r)
  <2>1. \A r \in Requests : /\ step'[r] \in {"idle", "offer", "say"} => step'[r] = step[r]
                            /\ step'[r] = "read" => step[r] \in {"idle", "read"}
    BY <1>6, Progress DEF Still, Arrives, GoesOn, Flow, Fits
  <2> QED
    BY <1>6, <2>1 DEF haggle, Ladder, LadderKept
<1> QED
  BY <1>1, <1>2, <1>3, <1>4, <1>5, <1>6, Parts DEF HaggleStep

-----------------------------------------------------------------------------
(* The digests *)

Remembered ==
    spoiled = {} /\ crossed = {} =>
        row = [count |-> Cardinality({r \in Requests : digest[r] = "sent"}), knows |-> Learned]

SawEvents ==
    \A r \in Requests \ spoiled : of[r] \in prompt /\ Over(r) => "events" \in found[r]

LEMMA DigestsStep ==
  ASSUME IInv, Next
  PROVE  Digests' /\ VisitRemembered'
<1>t. /\ digest \in [Requests -> {"none", "settle", "visitor", "upsert", "sent"}]
      /\ slept \in [Requests -> 0..Settle]
      /\ found \in [Requests -> SUBSET (Fields \cup {"events"})]
      /\ row \in [count : Nat, knows : SUBSET Fields]
      /\ prior \in [Requests -> [count : Nat, knows : SUBSET Fields]]
      /\ prompt \subseteq events
  BY DEF IInv, TypeOK
<1>a. Remembered /\ SawEvents /\ (Remembered' /\ SawEvents' => VisitRemembered')
  BY DEF IInv, VisitRemembered, Remembered, SawEvents, Over
<1>b. \A r \in Requests : digest[r] # "none" => kind[r] = "end" /\ UNCHANGED <<kind[r], of[r]>>
  BY Progress DEF IInv, Flow, Still, Arrives, GoesOn
<1>c. Digests
  BY DEF IInv
<1> USE <1>t, <1>a, <1>b, <1>c
<1>1. ASSUME NEW r \in Requests, Track(r)
      PROVE  Digests' /\ VisitRemembered'
  <2>1. UNCHANGED <<digest, slept, found, prior, row, spoiled, crossed, of, kind>>
    BY <1>1 DEF Track, Rest
  <2>2. \A q \in Requests : Over(q) /\ of[q] \in prompt' => of[q] \in prompt
    BY <1>1, VisitAssumption DEF Track, Over, Digests
  <2> QED
    BY <2>1, <2>2 DEF Digests, Remembered, SawEvents, Sent, Over, Learned
<1>2. ASSUME NEW r \in Requests, EndVisit(r)
      PROVE  Digests' /\ VisitRemembered'
  <2>1. digest[r] = "none"
    BY <1>2 DEF EndVisit, Acts, IInv, Flow
  <2>2. \A q \in Requests :
           digest'[q] = digest[q] \/ (digest'[q] = "settle" /\ digest[q] = "none")
    <3>1. digest' = [digest EXCEPT ![r] = "settle"]
      BY <1>2 DEF EndVisit
    <3> QED
      BY <2>1, <3>1
  <2>3. UNCHANGED <<slept, found, prior, row, prompt, spoiled, crossed, of>>
    BY <1>2 DEF EndVisit, Rest
  <2>4. Sent' = Sent
    BY <2>2 DEF Sent
  <2>5. Learned' = Learned
    BY <2>2, <2>3 DEF Learned
  <2>6. Digests'
    BY <2>2, <2>3, <2>4 DEF Digests, Over
  <2>7. Remembered'
    BY <2>3, <2>4, <2>5 DEF Remembered, Sent
  <2>8. SawEvents'
    BY <2>2, <2>3 DEF SawEvents, Over
  <2> QED
    BY <2>6, <2>7, <2>8
<1>3. ASSUME NEW r \in Requests, Sleep(r)
      PROVE  Digests' /\ VisitRemembered'
  <2>1. UNCHANGED <<digest, found, prior, row, prompt, spoiled, crossed, of>>
    BY <1>3 DEF Sleep
  <2>2. \A q \in Requests : Over(q) => slept'[q] = slept[q]
    BY <1>3 DEF Sleep, Over
  <2> QED
    BY <2>1, <2>2 DEF Digests, Remembered, SawEvents, Sent, Over, Learned
<1>4. ASSUME NEW r \in Requests, Gather(r)
      PROVE  Digests' /\ VisitRemembered'
  <2>1. /\ digest[r] = "settle" /\ slept[r] = Settle /\ digest' = [digest EXCEPT ![r] = "visitor"]
        /\ UNCHANGED <<slept, prior, row, prompt, crossed, of>>
        /\ \A q \in Requests \ {r} : found'[q] = found[q]
    BY <1>4 DEF Gather, Rest
  <2>2. /\ r \in spoiled' \/ (of[r] \in prompt => "events" \in found'[r])
        /\ spoiled \subseteq spoiled'
    BY <1>4 DEF Gather
  <2>3. Sent' = Sent /\ r \notin Sent
    BY <2>1 DEF Sent
  <2>4. Learned' = Learned
    BY <2>1 DEF Learned
  <2>5. Digests'
    BY <2>1, <2>2, <2>3 DEF Digests, Over
  <2>6. Remembered'
    BY <2>1, <2>2, <2>3, <2>4 DEF Remembered, Sent
  <2>7. SawEvents'
    BY <2>1, <2>2 DEF SawEvents, Over
  <2> QED
    BY <2>5, <2>6, <2>7
<1>5. ASSUME NEW r \in Requests, ReadVisitor(r)
      PROVE  Digests' /\ VisitRemembered'
  <2>1. /\ digest[r] = "visitor" /\ digest' = [digest EXCEPT ![r] = "upsert"]
        /\ UNCHANGED <<slept, found, row, prompt, crossed, of>>
        /\ \A q \in Requests \ {r} : prior'[q] = prior[q]
        /\ r \in spoiled' \/ prior'[r] = row
        /\ spoiled \subseteq spoiled'
    BY <1>5 DEF ReadVisitor, Rest
  <2>2. Sent' = Sent
    BY <2>1 DEF Sent
  <2>3. Learned' = Learned
    BY <2>1 DEF Learned
  <2>4. Digests'
    BY <2>1, <2>2 DEF Digests, Over
  <2>5. Remembered'
    BY <2>1, <2>2, <2>3 DEF Remembered, Sent
  <2>6. SawEvents'
    BY <2>1 DEF SawEvents, Over
  <2> QED
    BY <2>4, <2>5, <2>6
<1>6. ASSUME NEW r \in Requests, UpsertVisitor(r)
      PROVE  Digests' /\ VisitRemembered'
  <2>1. /\ digest[r] = "upsert" /\ digest' = [digest EXCEPT ![r] = "sent"]
        /\ UNCHANGED <<slept, found, prior, prompt, of>>
        /\ spoiled \subseteq spoiled' /\ crossed \subseteq crossed'
    BY <1>6 DEF UpsertVisitor, Rest
  <2>2. \/ /\ row' = Merged(r) /\ spoiled' = spoiled
           /\ \A q \in Requests \ {r} : digest[q] = "upsert" => q \in crossed'
        \/ r \in spoiled' /\ row' = row
    BY <1>6 DEF UpsertVisitor
  <2>3. Sent' = Sent \cup {r} /\ r \notin Sent
    BY <2>1 DEF Sent
  <2>4. IsFiniteSet(Sent') /\ Cardinality(Sent') = Cardinality(Sent) + 1
    BY <2>3, FS_AddElement DEF Digests
  <2>5. Digests'
    BY <2>1, <2>2, <2>4 DEF Digests, Over
  <2>6. Learned' = Learned \cup (found[r] \cap Fields)
    BY <2>1 DEF Learned
  <2>7. Remembered'
    <3> SUFFICES ASSUME spoiled' = {}, crossed' = {}
                 PROVE  row' = [count |-> Cardinality(Sent'), knows |-> Learned']
      BY DEF Remembered, Sent
    <3>1. prior[r] = row /\ row = [count |-> Cardinality(Sent), knows |-> Learned]
      BY <2>1 DEF Digests, Remembered, Sent
    <3>2. row' = Merged(r)
      BY <2>2
    <3> QED
      <4>1. row.count = Cardinality(Sent) /\ row.knows = Learned
        BY <3>1
      <4>2. Merged(r) = [count |-> Cardinality(Sent) + 1,
                         knows |-> Learned \cup (found[r] \cap Fields)]
        BY <3>1, <4>1 DEF Merged
      <4> QED
        BY <2>4, <2>6, <3>2, <4>2
  <2>8. SawEvents'
    BY <2>1 DEF SawEvents, Over
  <2> QED
    BY <2>5, <2>7, <2>8
<1>7. CASE UNCHANGED <<digest, slept, found, prior, row, prompt, spoiled, crossed>>
  BY <1>7 DEF Digests, Remembered, SawEvents, Sent, Over, Learned
<1> QED
  BY <1>1, <1>2, <1>3, <1>4, <1>5, <1>6, <1>7, Parts DEF DigestStep

-----------------------------------------------------------------------------
(* The page of a call *)

LEMMA PageOfCallStep ==
  ASSUME IInv, Next
  PROVE  Cleared' /\ PageFollowsCaller'
<1>a. /\ "canonical" \notin Sessions /\ "typed" \notin Sessions
      /\ Cleared /\ PageFollowsCaller /\ call \in {"none", "on", "raw", "over"}
  BY VisitAssumption DEF IInv, TypeOK
<1>b. \A r \in Requests : HasStored(r)' => HasStored(r) \/ StoreAlias(r)
  BY Progress DEF IInv, HasStored, Still, Arrives, GoesOn, Flow, Fits
<1> USE <1>a DEF Cleared, PageFollowsCaller, CallKeys
<1>1. ASSUME NEW r \in Requests, Store(r)
      PROVE  Cleared' /\ PageFollowsCaller'
  <2>1. of[r] \in Sessions /\ kind[r] \in {"page", "dial"}
    BY <1>1 DEF Store, IInv, Flow, Fits
  <2>2. PICK key \in Sessions \cup {"typed"} : Keep(key)
    BY <1>1, <2>1 DEF Store
  <2>3. \A q \in Requests : HasStored(q)' => HasStored(q)
    BY <1>1 DEF Store, HasStored, Goto, Rest, IInv, TypeOK, LimitsTypeOK
  <2>4. UNCHANGED <<call, e164, uncleared, aged>>
    BY <1>1 DEF Store
  <2> QED
    BY <2>2, <2>3, <2>4 DEF Keep
<1>2. ASSUME NEW r \in Requests, StoreAlias(r)
      PROVE  Cleared' /\ PageFollowsCaller'
  BY <1>2 DEF StoreAlias, Keep
<1>3. ASSUME UNCHANGED context, \A r \in Requests : ~StoreAlias(r)
      PROVE  Cleared' /\ PageFollowsCaller'
  BY <1>b, <1>3 DEF context, calling
<1>4. ASSUME NEW r \in Requests, Clear(r)
      PROVE  Cleared' /\ PageFollowsCaller'
  <2>1. of[r] \in Sessions
    BY <1>4 DEF Clear, Acts, IInv, Flow, Fits
  <2>2. \E key \in Sessions \cup {"typed"} : ctx' = ctx \ {key}
    BY <1>4, <2>1 DEF Clear
  <2>3. \A q \in Requests : ~StoreAlias(q)
    BY <1>4 DEF StoreAlias, Clear, Acts, Goto, IInv, TypeOK, LimitsTypeOK
  <2>4. UNCHANGED <<call, e164, uncleared, late, aged>>
    BY <1>4 DEF Clear, calling
  <2> QED
    BY <1>b, <2>2, <2>3, <2>4
<1>5. ASSUME NEW key \in Keys, ContextExpires(key)
      PROVE  Cleared' /\ PageFollowsCaller'
  BY <1>5 DEF ContextExpires, HasStored, calling, limits
<1>6. CASE CallBegins \/ CallEnds \/ ClearRaw
  BY <1>6 DEF CallBegins, CallEnds, ClearRaw, HasStored, calling, limits
<1>7. CASE ClearFails
  BY <1>7 DEF ClearFails
<1> QED
  BY <1>1, <1>2, <1>3, <1>4, <1>5, <1>6, <1>7, Parts DEF PageStep, CallStep, Look, Fetch, LogFetch

-----------------------------------------------------------------------------
LEMMA Initially == Init => IInv
<1> SUFFICES ASSUME Init PROVE IInv
  OBVIOUS
<1> USE VisitAssumption, LimitAssumption DEF Init, LimitsInit
<1>1. TypeOK
  <2>1. e164 \in BOOLEAN /\ uncleared \in BOOLEAN /\ aged \in BOOLEAN
    BY Zenon
  <2>2. LimitsTypeOK
    BY DEF LimitsTypeOK, Labels, MAX_DISCOUNT_STAGE
  <2>3. NoRow \in [count : Nat, knows : SUBSET Fields]
    BY DEF NoRow
  <2>4. /\ prior \in [Requests -> [count : Nat, knows : SUBSET Fields]]
        /\ row \in [count : Nat, knows : SUBSET Fields]
    BY <2>3
  <2>5. /\ plan \in Plans /\ of \in [Requests -> Sessions \cup {None}]
        /\ events \subseteq Sessions /\ reviews \subseteq Sessions /\ pages \subseteq Sessions
        /\ prompt \subseteq events /\ ctx \subseteq Keys /\ late \subseteq Keys
        /\ call \in {"none", "on", "raw", "over"}
    OBVIOUS
  <2>6. /\ digest \in [Requests -> {"none", "settle", "visitor", "upsert", "sent"}]
        /\ slept \in [Requests -> 0..Settle]
        /\ found \in [Requests -> SUBSET (Fields \cup {"events"})]
        /\ spoiled \subseteq Requests /\ crossed \subseteq Requests
    OBVIOUS
  <2> QED
    BY <2>1, <2>2, <2>4, <2>5, <2>6, Zenon DEF TypeOK
<1>2. Flow /\ Ladder /\ LadderKept
  BY DEF Flow, Fits, Ladder, LadderKept
<1>3. Digests /\ VisitRemembered
  <2>1. Sent = {} /\ {r \in Requests : digest[r] = "sent"} = {}
    BY DEF Sent
  <2>2. Learned = {}
    BY <2>1 DEF Learned
  <2> QED
    BY <2>1, <2>2, FS_EmptySet DEF Digests, VisitRemembered, Over, NoRow
<1>4. Cleared /\ PageFollowsCaller
  BY DEF Cleared, PageFollowsCaller, HasStored
<1> QED
  BY <1>1, <1>2, <1>3, <1>4 DEF IInv

LEMMA Stutters ==
  ASSUME IInv, UNCHANGED vars
  PROVE  IInv'
<1> USE DEF vars, limits, counters, haggle, store, context, calling, digests
<1>1. TypeOK' /\ Flow'
  BY DEF IInv, TypeOK, LimitsTypeOK, Flow
<1>2. Ladder' /\ LadderKept'
  BY DEF IInv, Ladder, LadderKept
<1>3. Digests' /\ VisitRemembered'
  BY DEF IInv, Digests, VisitRemembered, Sent, Over, Learned
<1>4. Cleared' /\ PageFollowsCaller'
  BY DEF IInv, Cleared, PageFollowsCaller, HasStored, CallKeys
<1> QED
  BY <1>1, <1>2, <1>3, <1>4 DEF IInv

\* The conjuncts of IInv hold initially and every step of a request, a digest, a
\* call and an expiry keeps them together.
THEOREM Inductive == Spec => []IInv
<1>1. Init => IInv
  BY Initially
<1>2. IInv /\ [Next]_vars => IInv'
  <2>1. ASSUME IInv, Next
        PROVE  IInv'
    BY <2>1, TypeOKStep, FlowStep, LadderStep, DigestsStep, PageOfCallStep DEF IInv
  <2> QED
    BY <2>1, Stutters
<1> QED
  BY <1>1, <1>2, PTL DEF Spec

\* The counters, the stage, the rows of a visit and the keys of a page keep their
\* types.
THEOREM TypeCorrect == Spec => []TypeOK
BY Inductive, PTL DEF IInv

\* However requests of a session overlap and whenever its stage expires, nobody
\* is offered 20% before 10% were offered, or less than was given before.
THEOREM LadderIsKept == Spec => []LadderKept
BY Inductive, PTL DEF IInv

\* The visitor's row counts every digest and keeps what each found, unless a
\* query failed or two digests overlapped; and the events of a visit that came
\* while its digest slept are in what it found.
THEOREM VisitsAreRemembered == Spec => []VisitRemembered
BY Inductive, PTL DEF IInv

\* Whatever way the visitor wrote the number, the page is there for the call, and
\* gone after it.
THEOREM PageIsTheCallers == Spec => []PageFollowsCaller
BY Inductive, PTL DEF IInv
=============================================================================
