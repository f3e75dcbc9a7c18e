------------------------------- MODULE Limits -------------------------------
(****************************************************************************)
(* What Redis counts for anonymous visitors: how often an address asked     *)
(* (app/shared/session_store.py `incr', and the same pattern in             *)
(* app/public/router.py), and how far a visitor has haggled                 *)
(* (app/pricing/router.py).                                                 *)
(*                                                                          *)
(* A counter is incremented by one command and given its expiry by another; *)
(* the stage of a haggle is read by one and written by another.  Between    *)
(* the two the worker may die and any other request may run.                *)
(****************************************************************************)
EXTENDS Naturals

CONSTANTS
    Requests,   \* requests of one address, numbered as they are made
    MaxHits,    \* TRACK_RATE_MAX, DEMO_RATE_MAX, ...: the largest allowed count
    MaxFaults   \* bound: commands that fail and workers that die

ASSUME LimitAssumption == Requests \subseteq Nat /\ MaxHits \in Nat /\ MaxFaults \in Nat

Limited == {"demo", "track", "end", "page", "dial"}  \* endpoints that count
Kinds   == Limited \cup {"discount", "review", "clear"}

\* The counter an endpoint uses: both kinds of live-context request share one.
Counter(k) == IF k = "dial" THEN "page" ELSE k

VARIABLES
    kind,     \* what each request asks, "none" before it is made
    step,     \* where it is
    hits,     \* the counters, 0 where there is no key
    timed,    \* counters that have an expiry
    stage,    \* discount_stage:{session_id}, 0 where there is no key
    faults

\* History.
VARIABLES
    unset,    \* counters whose expiry a request failed to set
    seen,     \* the stage a discount request read
    offer,    \* the percentage it offered
    given,    \* the best percentage answered since the key last expired
    floor     \* what was given when a request began, or 0 if the key expired since

counters == <<hits, timed, unset>>
haggle   == <<stage, seen, offer, given, floor>>
limits   == <<kind, step, counters, haggle, faults>>

Goto(r, s) == step' = [step EXCEPT ![r] = s]
Fails      == faults < MaxFaults /\ faults' = faults + 1

\* First step of an endpoint once its parameters are accepted.
Entry(k) == IF k = "dial" THEN "look"
            ELSE IF k \in Limited THEN "count"
            ELSE IF k = "discount" THEN "read" ELSE "act"

Ask(r, k) ==
    /\ kind[r] = "none" /\ \A q \in Requests : q < r => kind[q] # "none"
    /\ kind'  = [kind EXCEPT ![r] = k]
    /\ Goto(r, Entry(k))
    /\ floor' = [floor EXCEPT ![r] = given]
    /\ UNCHANGED <<counters, stage, seen, offer, given, faults>>

-----------------------------------------------------------------------------
(* Rate limits *)

\* Mutant of Count: the value is compared with what the key held before.
CountFromZero(r) ==
    LET c == Counter(kind[r]) IN
    /\ step[r] = "count"
    /\ hits' = [hits EXCEPT ![c] = @ + 1]
    /\ Goto(r, IF hits'[c] = 0 THEN "expire"
               ELSE IF hits'[c] > MaxHits THEN "refused" ELSE "act")
    /\ UNCHANGED <<kind, timed, unset, haggle, faults>>

\* redis.incr.  Only who created the key goes on to set its expiry.  Over the
\* limit is refused: 429, or {"logged": False}.
Count(r) ==
    LET c == Counter(kind[r]) IN
    /\ step[r] = "count"
    /\ hits' = [hits EXCEPT ![c] = @ + 1]
    /\ Goto(r, IF hits'[c] = 1 THEN "expire"
               ELSE IF hits'[c] > MaxHits THEN "refused" ELSE "act")
    /\ UNCHANGED <<kind, timed, unset, haggle, faults>>

\* redis.expire.
SetExpiry(r) ==
    /\ step[r] = "expire"
    /\ timed' = timed \cup {Counter(kind[r])}
    /\ Goto(r, IF MaxHits = 0 THEN "refused" ELSE "act")
    /\ UNCHANGED <<kind, hits, unset, haggle, faults>>

\* A command raises, INCR perhaps after it took effect, or the worker dies.
\* session_end goes on, the others answer 500.
CounterFails(r) ==
    LET c == Counter(kind[r]) IN
    /\ step[r] \in {"count", "expire"} /\ Fails
    /\ \/ step[r] = "count" /\ UNCHANGED <<hits, unset>>
       \/ /\ step[r] = "count"
          /\ hits'  = [hits EXCEPT ![c] = @ + 1]
          /\ unset' = IF hits[c] = 0 THEN unset \cup {c} ELSE unset
       \/ step[r] = "expire" /\ unset' = unset \cup {c} /\ UNCHANGED hits
    /\ \E s \in {"failed"} \cup (IF kind[r] = "end" THEN {"act"} ELSE {}) : Goto(r, s)
    /\ UNCHANGED <<kind, timed, haggle>>

WindowEnds(c) ==
    /\ c \in timed
    /\ hits'  = [hits EXCEPT ![c] = 0]
    /\ timed' = timed \ {c}
    /\ UNCHANGED <<kind, step, unset, haggle, faults>>

\* demo_chat and demo_voice keep nothing: 400, 413, 422 or an answer.
Demonstrate(r) ==
    /\ kind[r] = "demo" /\ step[r] = "act"
    /\ \E s \in {"done", "failed"} : Goto(r, s)
    /\ UNCHANGED <<kind, counters, haggle, faults>>

-----------------------------------------------------------------------------
(* The discount ladder *)

DISCOUNT_LADDER    == <<10, 20>>
MAX_DISCOUNT_STAGE == 2

ReadStage(r) ==
    /\ step[r] = "read"
    /\ seen' = [seen EXCEPT ![r] = stage]
    /\ Goto(r, "offer")
    /\ UNCHANGED <<kind, counters, stage, offer, given, floor, faults>>

\* Mutant of Climb: after the final offer the ladder starts again.
ClimbAgain(s) == IF s >= MAX_DISCOUNT_STAGE THEN 1 ELSE s + 1

\* The stage after a request that read s: at the top it stays there.
Climb(s) == IF s >= MAX_DISCOUNT_STAGE THEN MAX_DISCOUNT_STAGE ELSE s + 1

WriteStage(r) ==
    /\ step[r] = "offer"
    /\ stage' = Climb(seen[r])
    /\ offer' = [offer EXCEPT ![r] = DISCOUNT_LADDER[Climb(seen[r])]]
    /\ Goto(r, "say")
    /\ UNCHANGED <<kind, counters, seen, given, floor, faults>>

\* The model words the offer, or fails and the visitor gets a 500.
SayOffer(r) ==
    /\ step[r] = "say"
    /\ \/ /\ Goto(r, "done")
          /\ given' = IF offer[r] > given THEN offer[r] ELSE given
       \/ Goto(r, "failed") /\ UNCHANGED given
    /\ UNCHANGED <<kind, counters, stage, seen, offer, floor, faults>>

\* Two hours after it was last written, when no answer to that is awaited.
StageExpires ==
    /\ stage # 0 /\ \A r \in Requests : step[r] # "say"
    /\ stage' = 0
    /\ given' = 0
    /\ floor' = [r \in Requests |-> 0]
    /\ UNCHANGED <<kind, step, counters, seen, offer, faults>>

-----------------------------------------------------------------------------
LimitsInit ==
    /\ kind   = [r \in Requests |-> "none"]
    /\ step   = [r \in Requests |-> "idle"]
    /\ hits   = [c \in Limited |-> 0]
    /\ timed  = {}
    /\ stage  = 0
    /\ faults = 0
    /\ unset  = {}
    /\ seen   = [r \in Requests |-> 0]
    /\ offer  = [r \in Requests |-> 0]
    /\ given  = 0
    /\ floor  = [r \in Requests |-> 0]

LimitsNext ==
    \/ \E r \in Requests :
          \/ Count(r) \/ SetExpiry(r) \/ CounterFails(r) \/ Demonstrate(r)
          \/ ReadStage(r) \/ WriteStage(r) \/ SayOffer(r)
    \/ \E c \in Limited : WindowEnds(c)
    \/ StageExpires

LimitsFairness ==
    /\ \A r \in Requests : WF_limits(SetExpiry(r))
    /\ \A c \in Limited  : WF_limits(WindowEnds(c))

Labels == {"idle", "count", "expire", "look", "act", "store", "alias", "log", "read", "offer",
           "say", "done", "failed", "refused"}

LimitsTypeOK ==
    /\ kind \in [Requests -> Kinds \cup {"none"}]
    /\ step \in [Requests -> Labels]
    /\ hits \in [Limited -> Nat] /\ timed \subseteq Limited /\ unset \subseteq Limited
    /\ stage \in 0..MAX_DISCOUNT_STAGE
    /\ seen \in [Requests -> 0..MAX_DISCOUNT_STAGE]
    /\ offer \in [Requests -> {0, 10, 20}] /\ floor \in [Requests -> {0, 10, 20}]
    /\ given \in {0, 10, 20} /\ faults \in Nat

-----------------------------------------------------------------------------
(* A limit is one "per IP per window": whoever is over it is let in again,  *)
(* unless the command that gives the counter its expiry failed.             *)
LimitEnds ==
    \A c \in Limited : []<>(hits[c] <= MaxHits \/ c \in unset)

(* However requests overlap, haggling goes up the ladder: nobody is offered  *)
(* 20% before somebody of the session was offered 10%, and who asks again    *)
(* after an answer is never offered less, as long as the stage is remembered.*)
LadderKept ==
    \A r \in Requests :
        offer[r] # 0 => /\ offer[r] >= floor[r]
                        /\ offer[r] = 20 => \E q \in Requests : offer[q] = 10
=============================================================================
