------------------------------- MODULE Access -------------------------------
(****************************************************************************)
(* Who may do what: the cache of Supabase's signing keys                    *)
(* (app/shared/jwks.py), the company of a signed-in user                    *)
(* (app/dependencies.py), and the API keys of a company                     *)
(* (app/integrations/api_keys_router.py).  One worker's cache, one company  *)
(* and its owner.                                                           *)
(*                                                                          *)
(* The keys are fetched over HTTP by whichever request misses; several may  *)
(* be under way at once, and each fills the cache with what it was answered *)
(* when it started.                                                         *)
(****************************************************************************)
EXTENDS Naturals, FiniteSets

CONSTANTS
    Requests,    \* numbered from 1 as they are made
    Emails,      \* of users, numbers
    Plans,       \* bound: what each request may ask and about whom
    MaxKeys,     \* MAX_KEYS_PER_COMPANY
    TTL,         \* JWKS_CACHE_TTL, in ticks
    FetchTime,   \* the longest a fetch takes, its timeout of 10 s read as a total
    MaxTime,     \* bound: how far the clock goes
    MaxFaults    \* bound: calls that fail and workers that die

Kinds == {"sign", "secret", "key", "revoke", "book", "click", "invite", "child"}

ASSUME AccessAssumption ==
    /\ Requests \subseteq Nat \ {0} /\ Emails \subseteq Nat
    /\ Plans \subseteq [Requests -> SUBSET (Kinds \X Emails)]
    /\ {MaxKeys, TTL, FetchTime, MaxTime, MaxFaults} \subseteq Nat

Signing == {1, 2}  \* Supabase's signing keys, before and after a rotation

VARIABLES
    plan, kind, step, faults,
    now,
    published,  \* what Supabase publishes
    cache,      \* _cache
    fetchedAt,  \* _fetched_at, 0 before the first fetch
    kid,        \* the key a request's token is signed with
    asked,      \* when its fetch began
    reply,      \* what it was answered
    counted,    \* the keys a create request counted
    active      \* API keys that are not revoked

\* History.
VARIABLES
    retired,    \* when key 1 was no longer published
    accepted,   \* when a token was accepted with a key from the cache or a fetch
    outage,     \* requests accepted because the fetch failed
    raced       \* create requests another one inserted beside

signing == <<now, published, cache, fetchedAt, kid, asked, reply, retired, accepted, outage>>
apikeys == <<counted, active, raced>>
access  == <<plan, kind, step, faults, signing, apikeys>>

Goto(r, s) == step' = [step EXCEPT ![r] = s]
Fails      == faults < MaxFaults /\ faults' = faults + 1
At(r, k, s) == kind[r] = k /\ step[r] = s

Ask(r, k) ==
    /\ kind[r] = "none" /\ \A q \in Requests : q < r => kind[q] # "none"
    /\ kind' = [kind EXCEPT ![r] = k]
    /\ Goto(r, "begin")

-----------------------------------------------------------------------------
(* Signing keys *)

Rest  == <<plan, kind, apikeys>>
Signs == \E r \in Requests, e \in Emails : <<"sign", e>> \in plan[r]

\* Mutant of Fresh: a key that is known is used.
KnownKey(r) == kid[r] \in cache

Fresh(r) == fetchedAt # 0 /\ now - fetchedAt < TTL /\ kid[r] \in cache

\* The token is verified with the key; without one Supabase is asked.
Accept(r) == Goto(r, "company") /\ accepted' = [accepted EXCEPT ![r] = now]

\* get_signing_key, to its request.
LookUpKey(r) ==
    /\ At(r, "sign", "begin")
    /\ \E k \in Signing : (k = 2 => 2 \in published) /\ kid' = [kid EXCEPT ![r] = k]
    /\ Goto(r, "key")
    /\ UNCHANGED <<Rest, faults, now, published, cache, fetchedAt, asked, reply, retired,
                   accepted, outage>>

UseCache(r) ==
    /\ step[r] = "key" /\ Fresh(r) /\ Accept(r)
    /\ UNCHANGED <<Rest, faults, now, published, cache, fetchedAt, kid, asked, reply,
                   retired, outage>>

BeginFetch(r) ==
    /\ step[r] = "key" /\ ~Fresh(r)
    /\ Goto(r, "fetch")
    /\ asked' = [asked EXCEPT ![r] = now]
    /\ UNCHANGED <<Rest, faults, now, published, cache, fetchedAt, kid, reply, retired,
                   accepted, outage>>

FetchAnswered(r) ==
    /\ step[r] = "fetch" /\ Goto(r, "apply")
    /\ reply' = [reply EXCEPT ![r] = published]
    /\ UNCHANGED <<Rest, faults, now, published, cache, fetchedAt, kid, asked, retired,
                   accepted, outage>>

\* The cache is cleared and filled.  A key that is not there either leaves the
\* token to Supabase.
FillCache(r) ==
    /\ step[r] = "apply"
    /\ cache' = reply[r] /\ fetchedAt' = now
    /\ IF kid[r] \in reply[r] THEN Accept(r) ELSE Goto(r, "remote") /\ UNCHANGED accepted
    /\ UNCHANGED <<Rest, faults, now, published, kid, asked, reply, retired, outage>>

\* "Serve a stale key rather than rejecting everyone during an outage."
FetchFails(r) ==
    /\ step[r] \in {"fetch", "apply"} /\ Fails
    /\ IF kid[r] \in cache THEN Goto(r, "company") /\ outage' = outage \cup {r}
                           ELSE Goto(r, "remote") /\ UNCHANGED outage
    /\ UNCHANGED <<Rest, now, published, cache, fetchedAt, kid, asked, reply, retired,
                   accepted>>

\* get_user of Supabase Auth.
VerifyRemotely(r) ==
    /\ step[r] = "remote"
    /\ \E s \in {"company", "refused"} : Goto(r, s)
    /\ UNCHANGED <<Rest, faults, signing>>

\* A token of the legacy scheme is verified with the shared secret.
VerifySecret(r) ==
    /\ At(r, "secret", "begin")
    /\ \E s \in {"company", "refused"} : Goto(r, s)
    /\ UNCHANGED <<Rest, faults, signing>>

Rotate ==
    /\ published = {1} /\ Signs
    /\ published' = {1, 2}
    /\ UNCHANGED <<Rest, step, faults, now, cache, fetchedAt, kid, asked, reply, retired,
                   accepted, outage>>

Retire ==
    /\ published = {1, 2}
    /\ published' = {2} /\ retired' = now
    /\ UNCHANGED <<Rest, step, faults, now, cache, fetchedAt, kid, asked, reply, accepted,
                   outage>>

\* A fetch does not outlive its timeout.
Tick ==
    /\ now < MaxTime /\ Signs
    /\ \A r \in Requests : step[r] \in {"fetch", "apply"} => now - asked[r] < FetchTime
    /\ now' = now + 1
    /\ UNCHANGED <<Rest, step, faults, published, cache, fetchedAt, kid, asked, reply, retired,
                   accepted, outage>>

-----------------------------------------------------------------------------
(* API keys *)

CountKeys(r) ==
    /\ At(r, "key", "begin")
    /\ counted' = [counted EXCEPT ![r] = Cardinality(active)]
    /\ Goto(r, "limit")
    /\ UNCHANGED <<plan, kind, faults, signing, active, raced>>

\* Mutant of MayCreate: the limit is looked at with the wrong comparison.
MayCreateOneMore(r) == counted[r] <= MaxKeys

MayCreate(r) == counted[r] < MaxKeys

RefuseKey(r) ==
    /\ step[r] = "limit" /\ ~MayCreate(r) /\ Goto(r, "refused")
    /\ UNCHANGED <<plan, kind, faults, signing, apikeys>>

InsertKey(r) ==
    /\ step[r] = "limit" /\ MayCreate(r) /\ Goto(r, "done")
    /\ active' = active \cup {r}
    /\ raced'  = raced \cup {q \in Requests \ {r} : step[q] = "limit"}
    /\ UNCHANGED <<plan, kind, faults, signing, counted>>

InsertKeyFails(r) ==
    /\ step[r] = "limit" /\ MayCreate(r) /\ Fails /\ Goto(r, "failed")
    /\ UNCHANGED <<plan, kind, signing, apikeys>>

\* revoke_key: one update, 404 for a key that is revoked already.
RevokeKey(r) ==
    /\ At(r, "revoke", "begin") /\ Goto(r, "done")
    /\ \E k \in Requests : active' = active \ {k}
    /\ UNCHANGED <<plan, kind, faults, signing, counted, raced>>

-----------------------------------------------------------------------------
AccessInit ==
    /\ plan \in Plans
    /\ kind = [r \in Requests |-> "none"] /\ step = [r \in Requests |-> "idle"]
    /\ faults = 0
    /\ now = 1 /\ published = {1} /\ cache = {} /\ fetchedAt = 0
    /\ kid = [r \in Requests |-> 1] /\ asked = [r \in Requests |-> 0]
    /\ reply = [r \in Requests |-> {}]
    /\ counted = [r \in Requests |-> 0] /\ active = {} /\ raced = {}
    /\ retired = 0 /\ accepted = [r \in Requests |-> 0] /\ outage = {}

AccessNext ==
    \/ \E r \in Requests :
          \/ LookUpKey(r) \/ UseCache(r) \/ BeginFetch(r) \/ FetchAnswered(r)
          \/ FillCache(r) \/ FetchFails(r) \/ VerifyRemotely(r) \/ VerifySecret(r)
          \/ CountKeys(r) \/ RefuseKey(r) \/ InsertKey(r) \/ InsertKeyFails(r)
          \/ RevokeKey(r)
    \/ Rotate \/ Retire \/ Tick

AccessTypeOK ==
    /\ plan \in Plans /\ kind \in [Requests -> Kinds \cup {"none"}] /\ faults \in Nat
    /\ now \in Nat \ {0} /\ fetchedAt \in Nat /\ retired \in Nat
    /\ published \in {{1}, {1, 2}, {2}} /\ cache \subseteq Signing
    /\ kid \in [Requests -> Signing] /\ reply \in [Requests -> SUBSET Signing]
    /\ asked \in [Requests -> Nat] /\ accepted \in [Requests -> Nat]
    /\ counted \in [Requests -> Nat]
    /\ active \subseteq Requests /\ raced \subseteq Requests /\ outage \subseteq Requests

-----------------------------------------------------------------------------
(* A signing key that Supabase withdrew is honoured no longer than a cache  *)
(* filled at the last moment lives, however fetches overlap and whenever    *)
(* their answers are applied; longer only while Supabase cannot be reached. *)
RetiredKeyEnds ==
    \A r \in Requests : retired # 0 /\ kid[r] = 1 /\ accepted[r] # 0
                            => accepted[r] <= retired + FetchTime + TTL

(* A company has at most MAX_KEYS_PER_COMPANY active keys, and one more for  *)
(* each request that counted them before another one inserted its own.       *)
KeyLimit == Cardinality(active) <= MaxKeys + Cardinality(raced)
=============================================================================
