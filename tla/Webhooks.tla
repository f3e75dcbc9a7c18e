------------------------------ MODULE Webhooks ------------------------------
(****************************************************************************)
(* Outbound webhooks (app/integrations/events.py): an event is dispatched   *)
(* once to every active endpoint, each delivery has a row in webhook_logs,  *)
(* and failed ones are retried by a loop every uvicorn worker runs, under a *)
(* Redis lock that expires by itself.                                       *)
(*                                                                          *)
(* A delivery, whoever makes it, is a POST and then an update of the row:   *)
(* two awaits, between which a worker may die or another may act.  The task *)
(* keeps the row as it read it, so `todo' carries the attempts it saw.      *)
(* A worker runs the loop, and takes requests, once it has started: all of  *)
(* them start at the same time and one creates the collection in Qdrant     *)
(* (app/main.py lifespan, app/dependencies.py ensure_collection).           *)
(* Payloads, signatures and CRM synchronisation are left out.               *)
(****************************************************************************)
EXTENDS Naturals, FiniteSets

CONSTANTS
    Events,      \* events fired, each by a request of its own
    Endpoints,   \* webhook endpoints of the company, all subscribed, by their ids
    Workers,     \* processes that run the retry loop
    MaxRetries,  \* length of _RETRY_DELAYS
    MaxFaults,   \* bound: crashes and failed updates
    MaxExpiries, \* bound: times the lock expires under a running batch
    Free         \* the retry lock is not set

ASSUME TaskAssumption  == Events \cap Workers = {} /\ Free \notin Workers
ASSUME BoundAssumption == {MaxRetries, MaxFaults, MaxExpiries} \subseteq Nat

Rows  == Events \X Endpoints         \* webhook_logs, by event and endpoint
Tasks == Events \cup Workers         \* a dispatch, or one worker's retry tick

VARIABLES
    endpoint,   \* not there yet, "on" (active = true), "off", or deleted
    exists,     \* rows inserted
    attempts,   \* their column of that name
    due,        \* next_retry_at: "null", "later", or "now" (it has passed)
    done,       \* rows with a delivered_at
    pc,         \* what each task is doing
    todo,       \* rows it has yet to deliver, with the attempts it read
    cur,        \* the row it is delivering, <<>> before the first
    ok,         \* the answer to its POST was a 2xx
    lock,       \* webhook_retry_lock: Free, or the worker that set it
    collection  \* Qdrant has QDRANT_COLLECTION

\* History variables and fault counters.
VARIABLES
    posts,      \* POSTs sent for each row
    overran,    \* times the lock expired under a running batch
    faults,     \* crashes and failed updates
    unrecorded  \* rows with a POST, or an insert, nobody recorded

rowVars  == <<exists, attempts, due, done>>
taskVars == <<pc, todo, cur, ok>>
hist     == <<posts, overran, faults, unrecorded>>
vars     == <<endpoint, rowVars, taskVars, lock, hist, collection>>

Active  == {p \in Endpoints : endpoint[p] = "on"}
Boot    == {"start", "create", "index"}
Idle(t) == pc[t] \in Boot \cup {"idle", "ended"}

\* A task is over: a dispatch for good, a worker until its next tick.
Over(t) == IF t \in Workers THEN "idle" ELSE "ended"

-----------------------------------------------------------------------------
\* ensure_collection.
ListCollections(w) ==
    /\ pc[w] = "start"
    /\ pc' = [pc EXCEPT ![w] = IF collection THEN "index" ELSE "create"]
    /\ UNCHANGED <<endpoint, rowVars, todo, cur, ok, lock, hist, collection>>

\* Whoever comes second gets a 409, which is passed over.
CreateCollection(w) ==
    /\ pc[w] = "create"
    /\ pc' = [pc EXCEPT ![w] = "index"]
    /\ collection' = TRUE
    /\ UNCHANGED <<endpoint, rowVars, todo, cur, ok, lock, hist>>

\* The indexes are there afterwards, or a failure of them was passed over.
CreateIndexes(w) ==
    /\ pc[w] = "index"
    /\ pc' = [pc EXCEPT ![w] = "idle"]
    /\ UNCHANGED <<endpoint, rowVars, todo, cur, ok, lock, hist, collection>>

\* Qdrant raises: the worker does not start, and another takes its place.
StartFails(w) ==
    /\ pc[w] \in Boot
    /\ faults < MaxFaults /\ faults' = faults + 1
    /\ pc' = [pc EXCEPT ![w] = "start"]
    /\ collection' \in {collection, collection \/ pc[w] = "create"}
    /\ UNCHANGED <<endpoint, rowVars, todo, cur, ok, lock, posts, overran, unrecorded>>

-----------------------------------------------------------------------------
\* _dispatch: the endpoints active now, each to get a row of its own.
Dispatch(e) ==
    /\ pc[e] = "idle" /\ \E w \in Workers : pc[w] \notin Boot
    /\ pc'   = [pc EXCEPT ![e] = "next"]
    /\ todo' = [todo EXCEPT ![e] = {<<<<e, p>>, 0>> : p \in Active}]
    /\ UNCHANGED <<endpoint, rowVars, cur, ok, lock, hist>>

\* Mutant of InsertRow: the row is due from the start, lest a crash lose it.
InsertRowDue(e, item) ==
    /\ pc[e] = "next" /\ item \in todo[e]
    /\ endpoint[item[1][2]] # "deleted"
    /\ pc'   = [pc EXCEPT ![e] = "post"]
    /\ cur'  = [cur EXCEPT ![e] = item]
    /\ todo' = [todo EXCEPT ![e] = @ \ {item}]
    /\ exists' = exists \cup {item[1]}
    /\ due'  = [due EXCEPT ![item[1]] = "later"]
    /\ UNCHANGED <<endpoint, attempts, done, ok, lock, hist>>

\* The log row is created first (attempts 0, next_retry_at null), while its
\* endpoint is there.
InsertRow(e, item) ==
    /\ pc[e] = "next" /\ item \in todo[e]
    /\ endpoint[item[1][2]] # "deleted"
    /\ pc'   = [pc EXCEPT ![e] = "post"]
    /\ cur'  = [cur EXCEPT ![e] = item]
    /\ todo' = [todo EXCEPT ![e] = @ \ {item}]
    /\ exists' = exists \cup {item[1]}
    /\ UNCHANGED <<endpoint, attempts, due, done, ok, lock, hist>>

\* An endpoint deleted since: the insert raises, and the rest of the dispatch,
\* CRM included, does not happen.
InsertRefused(e, item) ==
    /\ pc[e] = "next" /\ item \in todo[e]
    /\ endpoint[item[1][2]] = "deleted"
    /\ pc'   = [pc EXCEPT ![e] = Over(e)]
    /\ todo' = [todo EXCEPT ![e] = {}]
    /\ UNCHANGED <<endpoint, rowVars, cur, ok, lock, hist>>

\* Mutant of TakeLock: the lock is set without NX.
TakeLockAnyway(w) ==
    /\ pc[w] = "idle"
    /\ lock' = w
    /\ pc'   = [pc EXCEPT ![w] = "select"]
    /\ UNCHANGED <<endpoint, rowVars, todo, cur, ok, hist>>

\* retry_failed_webhooks: SET NX EX; a worker that does not get it returns.
TakeLock(w) ==
    /\ pc[w] = "idle"
    /\ lock = Free
    /\ lock' = w
    /\ pc'   = [pc EXCEPT ![w] = "select"]
    /\ UNCHANGED <<endpoint, rowVars, todo, cur, ok, hist>>

\* Rows due and undelivered, with their endpoint; inactive ones are skipped.
SelectDue(w) ==
    /\ pc[w] = "select"
    /\ todo' = [todo EXCEPT ![w] =
                  {<<r, attempts[r]>> : r \in
                     {r \in exists : /\ due[r] = "now"
                                     /\ r \notin done
                                     /\ attempts[r] < MaxRetries + 1
                                     /\ r[2] \in Active}}]
    /\ pc' = [pc EXCEPT ![w] = "next"]
    /\ UNCHANGED <<endpoint, rowVars, cur, ok, lock, hist>>

TakeRow(w, item) ==
    /\ w \in Workers
    /\ pc[w] = "next" /\ item \in todo[w]
    /\ pc'   = [pc EXCEPT ![w] = "post"]
    /\ cur'  = [cur EXCEPT ![w] = item]
    /\ todo' = [todo EXCEPT ![w] = @ \ {item}]
    /\ UNCHANGED <<endpoint, rowVars, ok, lock, hist>>

\* _deliver, first half: the POST and its answer, a timeout being a failure.
Post(t, answer) ==
    /\ pc[t] = "post"
    /\ pc'    = [pc EXCEPT ![t] = "record"]
    /\ ok'    = [ok EXCEPT ![t] = answer]
    /\ posts' = [posts EXCEPT ![cur[t][1]] = @ + 1]
    /\ UNCHANGED <<endpoint, rowVars, todo, cur, lock, overran, faults, unrecorded>>

\* The URL no longer resolves to a public address: a failure without a POST.
Blocked(t) ==
    /\ pc[t] = "post"
    /\ pc' = [pc EXCEPT ![t] = "record"]
    /\ ok' = [ok EXCEPT ![t] = FALSE]
    /\ UNCHANGED <<endpoint, rowVars, todo, cur, lock, hist>>

\* Mutant of Record: the last delay is not used.
RecordOneShort(t) ==
    LET r == cur[t][1]
        next_attempt == cur[t][2] + 1
    IN
    /\ pc[t] = "record" /\ r \in exists
    /\ attempts' = [attempts EXCEPT ![r] = next_attempt]
    /\ due'  = [due EXCEPT ![r] =
                  IF ok[t] \/ next_attempt >= MaxRetries THEN "null" ELSE "later"]
    /\ done' = IF ok[t] THEN done \cup {r} ELSE done \ {r}
    /\ pc'   = [pc EXCEPT ![t] = "next"]
    /\ UNCHANGED <<endpoint, exists, todo, cur, ok, lock, hist>>

\* _deliver, second half: one update, computed from the attempts the task read.
\* It finds no row where the endpoint was deleted.
Record(t) ==
    LET r == cur[t][1]
        next_attempt == cur[t][2] + 1
    IN
    /\ pc[t] = "record"
    /\ IF r \in exists
       THEN /\ attempts' = [attempts EXCEPT ![r] = next_attempt]
            /\ due'  = [due EXCEPT ![r] =
                          IF ok[t] \/ next_attempt > MaxRetries THEN "null" ELSE "later"]
            /\ done' = IF ok[t] THEN done \cup {r} ELSE done \ {r}
       ELSE UNCHANGED <<attempts, due, done>>
    /\ pc'   = [pc EXCEPT ![t] = "next"]
    /\ UNCHANGED <<endpoint, exists, todo, cur, ok, lock, hist>>

\* The update raises: the exception leaves _deliver and ends the whole batch.
RecordFails(t) ==
    /\ pc[t] = "record"
    /\ faults < MaxFaults
    /\ faults' = faults + 1
    /\ unrecorded' = unrecorded \cup {cur[t][1]}
    /\ pc'   = [pc EXCEPT ![t] = Over(t)]
    /\ todo' = [todo EXCEPT ![t] = {}]
    /\ UNCHANGED <<endpoint, rowVars, cur, ok, lock, posts, overran>>

Finish(t) ==
    /\ pc[t] = "next" /\ todo[t] = {}
    /\ pc' = [pc EXCEPT ![t] = Over(t)]
    /\ UNCHANGED <<endpoint, rowVars, todo, cur, ok, lock, hist>>

\* The process that runs the task dies; a worker starts anew, without its batch.
Crash(t) ==
    /\ ~Idle(t)
    /\ faults < MaxFaults
    /\ faults' = faults + 1
    /\ unrecorded' = IF pc[t] \in {"post", "record"}
                     THEN unrecorded \cup {cur[t][1]} ELSE unrecorded
    /\ pc'   = [pc EXCEPT ![t] = IF t \in Workers THEN "start" ELSE "ended"]
    /\ todo' = [todo EXCEPT ![t] = {}]
    /\ UNCHANGED <<endpoint, rowVars, cur, ok, lock, posts, overran>>

-----------------------------------------------------------------------------
\* RETRY_LOCK_TTL: usually after the batch, but nothing bounds a batch by it.
LockExpires ==
    /\ lock # Free
    /\ lock' = Free
    /\ IF Idle(lock) THEN UNCHANGED overran
       ELSE overran < MaxExpiries /\ overran' = overran + 1
    /\ UNCHANGED <<endpoint, rowVars, taskVars, posts, faults, unrecorded>>

\* The clock passes next_retry_at.
ComesDue(r) ==
    /\ due[r] = "later"
    /\ due' = [due EXCEPT ![r] = "now"]
    /\ UNCHANGED <<endpoint, exists, attempts, done, taskVars, lock, hist>>

\* POST, PATCH and DELETE of /webhooks: an endpoint is made, switched off or on,
\* and deleted, its rows with it (ON DELETE CASCADE).
CreateEndpoint(p) ==
    /\ endpoint[p] = "new" /\ endpoint' = [endpoint EXCEPT ![p] = "on"]
    /\ UNCHANGED <<rowVars, taskVars, lock, hist>>

Toggle(p) ==
    /\ endpoint[p] \in {"on", "off"}
    /\ endpoint' = [endpoint EXCEPT ![p] = IF @ = "on" THEN "off" ELSE "on"]
    /\ UNCHANGED <<rowVars, taskVars, lock, hist>>

DeleteEndpoint(p) ==
    /\ endpoint[p] \in {"on", "off"}
    /\ endpoint' = [endpoint EXCEPT ![p] = "deleted"]
    /\ exists' = {r \in exists : r[2] # p}
    /\ UNCHANGED <<attempts, due, done, taskVars, lock, hist>>

Init ==
    /\ endpoint = [p \in Endpoints |-> "new"]
    /\ exists = {} /\ done = {}
    /\ attempts = [r \in Rows |-> 0]
    /\ due  = [r \in Rows |-> "null"]
    /\ pc   = [t \in Tasks |-> IF t \in Workers THEN "start" ELSE "idle"]
    /\ collection = FALSE
    /\ todo = [t \in Tasks |-> {}]
    /\ cur  = [t \in Tasks |-> <<>>]
    /\ ok   = [t \in Tasks |-> FALSE]
    /\ lock = Free
    /\ posts = [r \in Rows |-> 0]
    /\ overran = 0 /\ faults = 0 /\ unrecorded = {}

Items == Rows \X (0..MaxRetries)

Deliver(t) == Blocked(t) \/ Record(t) \/ Finish(t) \/ \E a \in BOOLEAN : Post(t, a)

Starts(w) == ListCollections(w) \/ CreateCollection(w) \/ CreateIndexes(w)

Runs ==
    \/ \E e \in Events : \/ Dispatch(e)
                          \/ \E i \in Items : InsertRow(e, i) \/ InsertRefused(e, i)
    \/ \E w \in Workers : \/ TakeLock(w) \/ SelectDue(w)
                          \/ \E i \in Items : TakeRow(w, i)
    \/ \E t \in Tasks : Deliver(t) \/ RecordFails(t) \/ Crash(t)
    \/ LockExpires
    \/ \E r \in Rows : ComesDue(r)
    \/ \E p \in Endpoints : CreateEndpoint(p) \/ Toggle(p) \/ DeleteEndpoint(p)

Next ==
    \/ \E w \in Workers : Starts(w) \/ StartFails(w)
    \/ Runs /\ UNCHANGED collection

Spec == Init /\ [][Next]_vars

\* A worker that starts gets on with it, workers keep polling, the lock's TTL and
\* next_retry_at pass, and every POST ends (the client's timeout).  No request,
\* crash or toggle is owed.
FairSpec ==
    /\ Spec
    /\ \A w \in Workers : WF_vars(Starts(w))
    /\ WF_vars((\E w \in Workers : TakeLock(w)) /\ UNCHANGED collection)
    /\ WF_vars(LockExpires /\ UNCHANGED collection)
    /\ \A r \in Rows : WF_vars(ComesDue(r) /\ UNCHANGED collection)
    /\ \A t \in Tasks : WF_vars(Deliver(t) /\ UNCHANGED collection)
    /\ \A w \in Workers : WF_vars(/\ SelectDue(w) \/ \E i \in Items : TakeRow(w, i)
                                 /\ UNCHANGED collection)

-----------------------------------------------------------------------------
TypeOK ==
    /\ endpoint \in [Endpoints -> {"new", "on", "off", "deleted"}]
    /\ exists \in SUBSET Rows /\ done \in SUBSET Rows
    /\ attempts \in [Rows -> 0..(MaxRetries + 1)]
    /\ due  \in [Rows -> {"null", "later", "now"}]
    /\ pc   \in [Tasks -> Boot \cup {"idle", "select", "next", "post", "record", "ended"}]
    /\ todo \in [Tasks -> SUBSET Items]
    /\ cur  \in [Tasks -> Items \cup {<<>>}]
    /\ ok   \in [Tasks -> BOOLEAN]
    /\ lock \in Workers \cup {Free}
    /\ posts \in [Rows -> Nat]
    /\ overran \in 0..MaxExpiries /\ faults \in 0..MaxFaults
    /\ unrecorded \in SUBSET Rows /\ collection \in BOOLEAN

Recording(r) == {t \in Tasks : pc[t] = "record" /\ cur[t][1] = r}

\* As long as no batch outlives its lock, an endpoint gets no POST its log row
\* does not count, whoever makes it: no row is delivered by two tasks at once,
\* and none is sent more than _RETRY_DELAYS allows.
PostsAccountedFor ==
    \A r \in Rows :
        overran = 0 /\ r \in exists \ unrecorded
        => posts[r] <= attempts[r] + (IF Recording(r) # {} THEN 1 ELSE 0)

\* As long as no batch outlives its lock, an acknowledged delivery is final: no
\* stale update takes delivered_at away and nothing is sent again.
DeliveredIsFinal ==
    [][\A r \in Rows :
        r \in done /\ overran = 0 => r \in done' /\ posts'[r] = posts[r]]_vars

\* A failed delivery is retried until it is delivered or its attempts are used
\* up, also across workers that die with the lock, unless the endpoint is
\* switched off or deleted, or an update of its row was lost.
RetriedToTheEnd ==
    \A r \in Rows :
        r \in exists ~> \/ r \in done
                        \/ attempts[r] = MaxRetries + 1
                        \/ r[2] \notin Active
                        \/ r \in unrecorded
=============================================================================
