---------------------------- MODULE WebhooksProofs ----------------------------
(****************************************************************************)
(* Proofs about Webhooks, for any events, endpoints, workers and bounds.    *)
(*                                                                          *)
(* Nobody but its owner works on a row while no batch outlives its lock:    *)
(* workers are kept apart by the lock (Locked), dispatches by their event,  *)
(* and a dispatch from the workers by next_retry_at, which stays null until *)
(* the dispatch has recorded its answer (Fresh).                            *)
(****************************************************************************)
EXTENDS Webhooks, TLAPS

\* The items a task has yet to record.
Hand(t) == todo[t] \cup (IF pc[t] \in {"post", "record"} THEN {cur[t]} ELSE {})

\* Which steps a task can be at, and what it has at each.
Placement ==
    /\ \A e \in Events : pc[e] \in {"idle", "next", "post", "record", "ended"}
    /\ \A t \in Tasks :
        /\ pc[t] \in {"post", "record"} => cur[t] \in Items /\ cur[t] \notin todo[t]
        /\ pc[t] \notin {"next", "post", "record"} => todo[t] = {}

\* A worker with a batch has the lock.
Locked == \A w \in Workers : pc[w] \in {"select", "next", "post", "record"} => lock = w

\* An event that was not dispatched has left no trace.
Untouched ==
    \A e \in Events, p \in Endpoints : pc[e] = "idle" =>
        LET r == <<e, p>> IN
        /\ r \notin exists /\ r \notin done
        /\ attempts[r] = 0 /\ due[r] = "null" /\ posts[r] = 0

\* What a task has in hand is as it read it, and is for it to deliver.
Sound(t, i) ==
    /\ attempts[i[1]] = i[2] /\ i[1] \notin done
    /\ t \in Workers => due[i[1]] = "now"
    /\ t \in Events  => i[1][1] = t /\ due[i[1]] = "null"
    /\ t \in Events /\ i \in todo[t] => i[1] \notin exists /\ posts[i[1]] = 0

Fresh == \A t \in Tasks : \A i \in Hand(t) : Sound(t, i)

IInv ==
    /\ TypeOK
    /\ Placement
    /\ overran = 0 => Locked /\ Untouched /\ Fresh /\ PostsAccountedFor

-----------------------------------------------------------------------------
\* Types.
LEMMA TypeOKStep ==
  ASSUME IInv, Next
  PROVE  TypeOK'
<1> USE TaskAssumption, BoundAssumption DEF IInv, TypeOK
<1>1. ASSUME NEW w \in Workers, Starts(w) \/ StartFails(w)
      PROVE  TypeOK'
  <2>1. collection' \in BOOLEAN
    BY <1>1, Zenon DEF Starts, ListCollections, CreateCollection, CreateIndexes, StartFails
  <2>2. \E s \in Boot \cup {"idle"} : pc' = [pc EXCEPT ![w] = s]
    BY <1>1 DEF Starts, ListCollections, CreateCollection, CreateIndexes, StartFails, Boot
  <2>3. pc' \in [Tasks -> Boot \cup {"idle", "select", "next", "post", "record", "ended"}]
    BY <2>2
  <2>4. faults' \in 0..MaxFaults
    BY <1>1 DEF Starts, ListCollections, CreateCollection, CreateIndexes, StartFails, hist
  <2>5. UNCHANGED <<endpoint, rowVars, todo, cur, ok, lock, posts, overran, unrecorded>>
    BY <1>1 DEF Starts, ListCollections, CreateCollection, CreateIndexes, StartFails, hist
  <2> QED
    BY <2>1, <2>3, <2>4, <2>5 DEF rowVars
<1>2. ASSUME NEW e \in Events, Dispatch(e), UNCHANGED collection
      PROVE  TypeOK'
  <2>1. {<<<<e, p>>, 0>> : p \in Active} \in SUBSET Items
    BY <1>2 DEF Active, Items, Rows
  <2> QED
    BY <1>2, <2>1 DEF Dispatch, rowVars, hist, Tasks
<1>3. ASSUME NEW e \in Events, NEW i \in Items, InsertRow(e, i) \/ InsertRefused(e, i),
             UNCHANGED collection
      PROVE  TypeOK'
  <2>1. i[1] \in Rows
    BY DEF Items
  <2>2. pc' \in [Tasks -> Boot \cup {"idle", "select", "next", "post", "record", "ended"}]
    BY <1>3 DEF InsertRow, InsertRefused, Over
  <2>3. exists' \in SUBSET Rows
    BY <1>3, <2>1 DEF InsertRow, InsertRefused, rowVars
  <2>4. cur' \in [Tasks -> Items \cup {<<>>}] /\ todo' \in [Tasks -> SUBSET Items]
    BY <1>3 DEF InsertRow, InsertRefused, Tasks
  <2> QED
    BY <1>3, <2>2, <2>3, <2>4 DEF InsertRow, InsertRefused, rowVars, hist
<1>4. ASSUME NEW w \in Workers, TakeLock(w), UNCHANGED collection
      PROVE  TypeOK'
  BY <1>4 DEF TakeLock, rowVars, hist, Tasks
<1>5. ASSUME NEW w \in Workers, SelectDue(w), UNCHANGED collection
      PROVE  TypeOK'
  <2>1. \A r \in exists : attempts[r] < MaxRetries + 1 => <<r, attempts[r]>> \in Items
    BY DEF Items
  <2> QED
    BY <1>5, <2>1 DEF SelectDue, rowVars, hist, Tasks
<1>6. ASSUME NEW w \in Workers, NEW i \in Items, TakeRow(w, i), UNCHANGED collection
      PROVE  TypeOK'
  BY <1>6 DEF TakeRow, rowVars, hist, Tasks
<1>7. ASSUME NEW t \in Tasks, NEW a \in BOOLEAN, Post(t, a), UNCHANGED collection
      PROVE  TypeOK'
  BY <1>7 DEF Post, rowVars, Placement, Items
<1>8. ASSUME NEW t \in Tasks, Blocked(t) \/ Finish(t), UNCHANGED collection
      PROVE  TypeOK'
  BY <1>8 DEF Blocked, Finish, rowVars, hist, Over, Tasks
<1>9. ASSUME NEW t \in Tasks, Record(t), UNCHANGED collection
      PROVE  TypeOK'
  <2>1. cur[t] \in Items
    BY <1>9 DEF Record, Placement
  <2>2. cur[t][1] \in Rows /\ cur[t][2] + 1 \in 0..(MaxRetries + 1)
    BY <2>1 DEF Items
  <2>3. attempts' \in [Rows -> 0..(MaxRetries + 1)]
    BY <1>9, <2>2 DEF Record
  <2>6. done' \in SUBSET Rows
    BY <1>9, <2>2 DEF Record
  <2>4. due' \in [Rows -> {"null", "later", "now"}]
    BY <1>9 DEF Record
  <2>5. pc' \in [Tasks -> Boot \cup {"idle", "select", "next", "post", "record", "ended"}]
    BY <1>9 DEF Record
  <2> QED
    BY <1>9, <2>3, <2>4, <2>5, <2>6 DEF Record, hist
<1>10. ASSUME NEW t \in Tasks, RecordFails(t) \/ Crash(t), UNCHANGED collection
       PROVE  TypeOK'
  <2>1. pc' \in [Tasks -> Boot \cup {"idle", "select", "next", "post", "record", "ended"}]
    BY <1>10 DEF RecordFails, Crash, Over, Boot
  <2>2. pc[t] \in {"post", "record"} => cur[t][1] \in Rows
    BY DEF Placement, Items
  <2>3. unrecorded' \in SUBSET Rows
    BY <1>10, <2>2 DEF RecordFails, Crash
  <2>4. todo' \in [Tasks -> SUBSET Items]
    BY <1>10, Zenon DEF RecordFails, Crash
  <2>5. faults' \in 0..MaxFaults
    BY <1>10 DEF RecordFails, Crash
  <2> QED
    BY <1>10, <2>1, <2>3, <2>4, <2>5 DEF RecordFails, Crash, rowVars
<1>11. ASSUME LockExpires, UNCHANGED collection
       PROVE  TypeOK'
  BY <1>11 DEF LockExpires, rowVars, taskVars
<1>12. ASSUME NEW r \in Rows, ComesDue(r), UNCHANGED collection
       PROVE  TypeOK'
  BY <1>12 DEF ComesDue, taskVars, hist
<1>13. ASSUME NEW p \in Endpoints, CreateEndpoint(p) \/ Toggle(p) \/ DeleteEndpoint(p),
              UNCHANGED collection
       PROVE  TypeOK'
  BY <1>13 DEF CreateEndpoint, Toggle, DeleteEndpoint, rowVars, taskVars, hist
<1> QED
  BY <1>1, <1>2, <1>3, <1>4, <1>5, <1>6, <1>7, <1>8, <1>9, <1>10, <1>11, <1>12, <1>13
     DEF Next, Runs, Deliver

\* Steps and hands.
LEMMA PlacementStep ==
  ASSUME IInv, Next
  PROVE  Placement'
<1> USE TaskAssumption DEF IInv, TypeOK, Placement, Tasks
<1>1. ASSUME NEW w \in Workers, Starts(w) \/ StartFails(w)
      PROVE  Placement'
  BY <1>1 DEF Starts, ListCollections, CreateCollection, CreateIndexes, StartFails, rowVars,
     hist, Boot
<1>2. ASSUME NEW e \in Events, Dispatch(e)
      PROVE  Placement'
  BY <1>2 DEF Dispatch
<1>3. ASSUME NEW e \in Events, NEW i \in Items, InsertRow(e, i) \/ InsertRefused(e, i)
      PROVE  Placement'
  BY <1>3 DEF InsertRow, InsertRefused, rowVars, hist, Over
<1>4. ASSUME NEW w \in Workers, TakeLock(w) \/ SelectDue(w)
      PROVE  Placement'
  BY <1>4 DEF TakeLock, SelectDue
<1>5. ASSUME NEW w \in Workers, NEW i \in Items, TakeRow(w, i)
      PROVE  Placement'
  BY <1>5 DEF TakeRow
<1>6. ASSUME NEW t \in Tasks, NEW a \in BOOLEAN, Post(t, a) \/ Blocked(t) \/ Record(t)
      PROVE  Placement'
  BY <1>6 DEF Post, Blocked, Record
<1>7. ASSUME NEW t \in Tasks, Finish(t) \/ RecordFails(t) \/ Crash(t)
      PROVE  Placement'
  BY <1>7 DEF Finish, RecordFails, Crash, Over
<1>8. ASSUME UNCHANGED taskVars
      PROVE  Placement'
  BY <1>8 DEF taskVars, Items
<1> QED
  BY <1>1, <1>2, <1>3, <1>4, <1>5, <1>6, <1>7, <1>8
     DEF Next, Runs, Deliver, LockExpires, ComesDue, CreateEndpoint, Toggle, DeleteEndpoint

\* The lock, as long as it has not expired under a batch.
LEMMA LockedStep ==
  ASSUME IInv, Next, overran = 0, overran' = 0
  PROVE  Locked'
<1> USE TaskAssumption DEF IInv, TypeOK, Placement, Locked, Tasks
<1>1. ASSUME NEW w \in Workers, Starts(w) \/ StartFails(w)
      PROVE  Locked'
  BY <1>1 DEF Starts, ListCollections, CreateCollection, CreateIndexes, StartFails
<1>2. ASSUME NEW e \in Events,
             Dispatch(e) \/ \E i \in Items : InsertRow(e, i) \/ InsertRefused(e, i)
      PROVE  Locked'
  BY <1>2 DEF Dispatch, InsertRow, InsertRefused
<1>3. ASSUME NEW w \in Workers, TakeLock(w)
      PROVE  Locked'
  BY <1>3 DEF TakeLock
<1>4. ASSUME NEW w \in Workers, SelectDue(w) \/ \E i \in Items : TakeRow(w, i)
      PROVE  Locked'
  BY <1>4 DEF SelectDue, TakeRow
<1>5. ASSUME NEW t \in Tasks, Deliver(t) \/ RecordFails(t) \/ Crash(t)
      PROVE  Locked'
  BY <1>5 DEF Deliver, Post, Blocked, Record, Finish, RecordFails, Crash, Over
<1>6. CASE LockExpires
  BY <1>6 DEF LockExpires, Idle, Boot, taskVars
<1>7. ASSUME UNCHANGED <<taskVars, lock>>
      PROVE  Locked'
  BY <1>7 DEF taskVars
<1> QED
  BY <1>1, <1>2, <1>3, <1>4, <1>5, <1>6, <1>7
     DEF Next, Runs, ComesDue, CreateEndpoint, Toggle, DeleteEndpoint

\* No row is in two hands.
LEMMA Owned ==
  ASSUME TypeOK, Placement, Locked, Fresh,
         NEW t \in Tasks, NEW u \in Tasks, NEW i \in Hand(t), NEW j \in Hand(u), i[1] = j[1]
  PROVE  t = u /\ i = j
<1>1. i \in Items /\ j \in Items
  BY DEF Hand, TypeOK, Placement
<1>2. i = j
  BY <1>1 DEF Fresh, Sound, Items
<1>3. t \in Workers => lock = t
  BY DEF Locked, Hand, Placement
<1>4. u \in Workers => lock = u
  BY DEF Locked, Hand, Placement
<1>5. due[i[1]] = due[j[1]] /\ "null" # "now"
  OBVIOUS
<1> QED
  BY <1>2, <1>3, <1>4, <1>5 DEF Fresh, Sound, Tasks

\* An event that was not dispatched is in nobody's hand.
LEMMA NotInHand ==
  ASSUME TypeOK, Placement, Untouched, Fresh,
         NEW e \in Events, pc[e] = "idle", NEW t \in Tasks, NEW i \in Hand(t)
  PROVE  i[1][1] # e
<1>1. i \in Items
  BY DEF Hand, TypeOK, Placement
<1>2. CASE t \in Events
  BY <1>2 DEF Fresh, Sound, Hand, Placement
<1>3. CASE t \in Workers
  <2>1. due[i[1]] = "now"
    BY <1>3 DEF Fresh, Sound
  <2> QED
    BY <1>1, <2>1 DEF Untouched, Items, Rows
<1> QED
  BY <1>2, <1>3 DEF Tasks

\* What a task has in hand at its next step.
LEMMA FreshStep ==
  ASSUME IInv, Next, overran = 0, overran' = 0
  PROVE  Fresh'
<1> USE TaskAssumption DEF IInv, TypeOK
<1> SUFFICES ASSUME NEW u \in Tasks, NEW j \in Hand(u)'
             PROVE  Sound(u, j)'
  BY DEF Fresh
<1>a. Placement /\ Locked /\ Fresh /\ Untouched
  OBVIOUS
<1>b. \A t \in Tasks : \A i \in Hand(t) : i \in Items /\ i[1] \in Rows
  BY DEF Hand, Placement, Items
<1>1. ASSUME j \in Hand(u), j \in todo'[u] => j \in todo[u], UNCHANGED <<rowVars, posts>>
      PROVE  Sound(u, j)'
  BY <1>1, <1>a DEF Fresh, Sound, rowVars
<1>2. ASSUME NEW w \in Workers, Starts(w) \/ StartFails(w)
      PROVE  Sound(u, j)'
  BY <1>1, <1>2 DEF Starts, ListCollections, CreateCollection, CreateIndexes, StartFails, Hand,
     Boot, hist, Tasks
<1>3. ASSUME NEW e \in Events, Dispatch(e)
      PROVE  Sound(u, j)'
  <2>1. CASE u = e
    <3>1. PICK p \in Active : j = <<<<e, p>>, 0>>
      BY <1>3, <2>1 DEF Dispatch, Hand
    <3> QED
      BY <1>3, <1>a, <2>1, <3>1 DEF Dispatch, Sound, Untouched, Active, rowVars, hist
  <2>2. CASE u # e
    BY <1>1, <1>3, <2>2 DEF Dispatch, Hand, hist
  <2> QED
    BY <2>1, <2>2
<1>4. ASSUME NEW e \in Events, NEW i \in Items, InsertRow(e, i)
      PROVE  Sound(u, j)'
  <2>1. e \in Tasks /\ i \in Hand(e)
    BY <1>4 DEF InsertRow, Hand, Tasks
  <2>2. j \in Hand(u) /\ (j \in todo'[u] => j \in todo[u] /\ (u = e => j # i))
    BY <1>4, <2>1 DEF InsertRow, Hand
  <2>3. j \in todo'[u] => j[1] # i[1]
    BY <1>a, <2>1, <2>2, Owned
  <2> QED
    BY <1>4, <1>a, <2>2, <2>3 DEF InsertRow, Fresh, Sound, hist
<1>5. ASSUME NEW e \in Events, NEW i \in Items, InsertRefused(e, i)
      PROVE  Sound(u, j)'
  BY <1>1, <1>5 DEF InsertRefused, Hand, Over, Tasks, hist
<1>6. ASSUME NEW w \in Workers, TakeLock(w)
      PROVE  Sound(u, j)'
  BY <1>1, <1>6 DEF TakeLock, Hand, Tasks, hist
<1>7. ASSUME NEW w \in Workers, SelectDue(w)
      PROVE  Sound(u, j)'
  <2>1. CASE u = w
    <3>1. PICK r \in exists : j = <<r, attempts[r]>> /\ due[r] = "now" /\ r \notin done
      BY <1>7, <2>1 DEF SelectDue, Hand, Tasks
    <3> QED
      BY <1>7, <2>1, <3>1 DEF SelectDue, Sound, rowVars
  <2>2. CASE u # w
    BY <1>1, <1>7, <2>2 DEF SelectDue, Hand, Tasks, hist
  <2> QED
    BY <2>1, <2>2
<1>8. ASSUME NEW w \in Workers, NEW i \in Items, TakeRow(w, i)
      PROVE  Sound(u, j)'
  BY <1>1, <1>8 DEF TakeRow, Hand, Tasks, hist
<1>9. ASSUME NEW t \in Tasks, NEW a \in BOOLEAN, Post(t, a)
      PROVE  Sound(u, j)'
  <2>1. cur[t] \in Hand(t) /\ cur[t] \notin todo[t]
    BY <1>9, <1>a DEF Post, Hand, Placement
  <2>2. j \in Hand(u) /\ (j \in todo'[u] => j \in todo[u])
    BY <1>9, <2>1 DEF Post, Hand
  <2>3. j \in todo[u] => j[1] # cur[t][1]
    BY <1>a, <2>1, <2>2, Owned
  <2>4. j[1] \in Rows /\ cur[t][1] \in Rows
    BY <1>b, <2>1, <2>2
  <2> QED
    BY <1>9, <1>a, <2>2, <2>3, <2>4 DEF Post, Fresh, Sound, rowVars
<1>10. ASSUME NEW t \in Tasks, Blocked(t) \/ Finish(t) \/ RecordFails(t) \/ Crash(t)
       PROVE  Sound(u, j)'
  <2>1. j \in Hand(u) /\ (j \in todo'[u] => j \in todo[u])
    BY <1>10 DEF Blocked, Finish, RecordFails, Crash, Hand, Over
  <2> QED
    BY <1>1, <1>10, <2>1 DEF Blocked, Finish, RecordFails, Crash, hist
<1>11. ASSUME NEW t \in Tasks, Record(t)
       PROVE  Sound(u, j)'
  <2>1. cur[t] \in Hand(t) /\ cur[t] \notin todo[t]
    BY <1>11, <1>a DEF Record, Hand, Placement
  <2>2. j \in Hand(u) /\ (u = t => j # cur[t]) /\ todo' = todo
    BY <1>11, <2>1 DEF Record, Hand
  <2>3. j[1] # cur[t][1]
    BY <1>a, <2>1, <2>2, Owned
  <2>4. j[1] \in Rows /\ cur[t][1] \in Rows
    BY <1>b, <2>1, <2>2
  <2>5. attempts'[j[1]] = attempts[j[1]] /\ due'[j[1]] = due[j[1]]
    BY <1>11, <2>3, <2>4 DEF Record
  <2>6. (j[1] \in done' <=> j[1] \in done) /\ UNCHANGED <<exists, posts>>
    BY <1>11, <2>3 DEF Record, hist
  <2> QED
    BY <1>a, <2>2, <2>5, <2>6 DEF Fresh, Sound
<1>12. ASSUME NEW r \in Rows, ComesDue(r)
       PROVE  Sound(u, j)'
  <2>1. j \in Hand(u) /\ todo' = todo
    BY <1>12 DEF ComesDue, Hand, taskVars
  <2>2. j[1] \in Rows /\ j[1] # r
    BY <1>12, <1>a, <1>b, <2>1 DEF ComesDue, Fresh, Sound, Tasks
  <2> QED
    BY <1>12, <1>a, <2>1, <2>2 DEF ComesDue, Fresh, Sound, hist
<1>13. ASSUME NEW p \in Endpoints, DeleteEndpoint(p)
       PROVE  Sound(u, j)'
  <2>1. j \in Hand(u) /\ todo' = todo
    BY <1>13 DEF DeleteEndpoint, Hand, taskVars
  <2> QED
    BY <1>13, <1>a, <2>1 DEF DeleteEndpoint, Fresh, Sound, hist
<1>14. ASSUME UNCHANGED <<taskVars, rowVars, posts>>
       PROVE  Sound(u, j)'
  BY <1>1, <1>14 DEF taskVars, Hand
<1> QED
  BY <1>2, <1>3, <1>4, <1>5, <1>6, <1>7, <1>8, <1>9, <1>10, <1>11, <1>12, <1>13, <1>14
     DEF Next, Runs, Deliver, LockExpires, CreateEndpoint, Toggle, hist

LEMMA UntouchedStep ==
  ASSUME IInv, Next, overran = 0, overran' = 0
  PROVE  Untouched'
<1> USE TaskAssumption DEF IInv, TypeOK
<1> SUFFICES ASSUME NEW e \in Events, NEW p \in Endpoints, pc'[e] = "idle"
             PROVE  LET r == <<e, p>> IN
                    /\ r \notin exists' /\ r \notin done'
                    /\ attempts'[r] = 0 /\ due'[r] = "null" /\ posts'[r] = 0
  BY DEF Untouched
<1> DEFINE r == <<e, p>>
<1>a. Placement /\ Locked /\ Fresh /\ Untouched /\ r \in Rows
  BY DEF Rows
<1>1. pc[e] = "idle"
  BY DEF Next, Runs, Deliver, Starts, ListCollections, CreateCollection, CreateIndexes,
     StartFails, Dispatch, InsertRow, InsertRefused, TakeLock, SelectDue, TakeRow, Post, Blocked,
     Record, Finish, RecordFails, Crash, LockExpires, ComesDue, CreateEndpoint, Toggle,
     DeleteEndpoint, taskVars, Over, Placement, Tasks
<1>2. \A t \in Tasks : \A i \in Hand(t) : i[1] \in Rows /\ i[1] # r
  BY <1>a, <1>1, NotInHand DEF Hand, Placement, Items
<1>3. r \notin exists /\ r \notin done /\ attempts[r] = 0 /\ due[r] = "null" /\ posts[r] = 0
  BY <1>a, <1>1 DEF Untouched
<1>4. ASSUME NEW d \in Events, NEW i \in Items, InsertRow(d, i)
      PROVE  r \notin exists' /\ UNCHANGED <<attempts, due, done, posts>>
  <2>1. i[1] # r
    BY <1>2, <1>4 DEF InsertRow, Hand, Tasks
  <2> QED
    BY <1>3, <1>4, <2>1 DEF InsertRow, hist
<1>5. ASSUME NEW t \in Tasks, NEW a \in BOOLEAN, Post(t, a)
      PROVE  posts'[r] = 0 /\ UNCHANGED rowVars
  <2>1. cur[t][1] \in Rows /\ cur[t][1] # r
    BY <1>2, <1>5 DEF Post, Hand
  <2> QED
    BY <1>3, <1>5, <2>1 DEF Post
<1>6. ASSUME NEW t \in Tasks, Record(t)
      PROVE  /\ attempts'[r] = 0 /\ due'[r] = "null" /\ r \notin done'
             /\ UNCHANGED <<exists, posts>>
  <2>1. cur[t][1] \in Rows /\ cur[t][1] # r
    BY <1>2, <1>6 DEF Record, Hand
  <2>2. attempts'[r] = 0 /\ due'[r] = "null"
    BY <1>3, <1>6, <1>a, <2>1 DEF Record
  <2> QED
    BY <1>3, <1>6, <2>1, <2>2 DEF Record, hist
<1>7. ASSUME NEW q \in Rows, ComesDue(q)
      PROVE  due'[r] = "null" /\ UNCHANGED <<exists, attempts, done, posts>>
  BY <1>3, <1>7, <1>a DEF ComesDue, hist
<1>8. ASSUME NEW q \in Endpoints, DeleteEndpoint(q)
      PROVE  r \notin exists' /\ UNCHANGED <<attempts, due, done, posts>>
  BY <1>3, <1>8 DEF DeleteEndpoint, hist
<1> QED
  BY <1>3, <1>4, <1>5, <1>6, <1>7, <1>8 DEF Next, Runs, Deliver, Starts, ListCollections,
     CreateCollection, CreateIndexes, StartFails, Dispatch, InsertRefused, TakeLock, SelectDue,
     TakeRow, Blocked, Finish, RecordFails, Crash, LockExpires, CreateEndpoint, Toggle, rowVars,
     hist

\* What the log counts.
LEMMA CountedStep ==
  ASSUME IInv, Next, overran = 0, overran' = 0
  PROVE  PostsAccountedFor'
<1> USE TaskAssumption DEF IInv, TypeOK
<1> SUFFICES ASSUME NEW r \in Rows, r \in exists' \ unrecorded'
             PROVE  posts'[r] <= attempts'[r] + (IF Recording(r)' # {} THEN 1 ELSE 0)
  BY DEF PostsAccountedFor
<1>a. Placement /\ Locked /\ Fresh
  OBVIOUS
<1>b. attempts[r] \in Nat /\ posts[r] \in Nat
  OBVIOUS
<1>c. r \in exists /\ r \notin unrecorded =>
         posts[r] <= attempts[r] + (IF Recording(r) # {} THEN 1 ELSE 0)
  BY DEF PostsAccountedFor
<1>1. ASSUME r \in exists, r \notin unrecorded, Recording(r) \subseteq Recording(r)',
             UNCHANGED <<attempts, posts>>
      PROVE  posts'[r] <= attempts'[r] + (IF Recording(r)' # {} THEN 1 ELSE 0)
  BY <1>1, <1>b, <1>c
<1>2. ASSUME NEW w \in Workers, Starts(w) \/ StartFails(w)
      PROVE  posts'[r] <= attempts'[r] + (IF Recording(r)' # {} THEN 1 ELSE 0)
  BY <1>1, <1>2 DEF Starts, ListCollections, CreateCollection, CreateIndexes, StartFails,
     Recording, Boot, hist, rowVars
<1>3. ASSUME NEW e \in Events, NEW i \in Items, InsertRow(e, i)
      PROVE  posts'[r] <= attempts'[r] + (IF Recording(r)' # {} THEN 1 ELSE 0)
  <2>1. CASE r = i[1]
    <3>1. posts[r] = 0
      BY <1>3, <1>a, <2>1 DEF InsertRow, Fresh, Sound, Hand, Tasks
    <3> QED
      BY <1>3, <1>b, <3>1 DEF InsertRow, hist
  <2>2. CASE r # i[1]
    BY <1>1, <1>3, <2>2 DEF InsertRow, Recording, hist
  <2> QED
    BY <2>1, <2>2
<1>4. ASSUME NEW t \in Tasks, NEW a \in BOOLEAN, Post(t, a)
      PROVE  posts'[r] <= attempts'[r] + (IF Recording(r)' # {} THEN 1 ELSE 0)
  <2>1. CASE r = cur[t][1]
    <3>1. Recording(r) = {}
      <4>1. cur[t] \in Hand(t)
        BY <1>4 DEF Post, Hand
      <4>2. ASSUME NEW u \in Recording(r)
            PROVE  u = t
        BY <1>a, <2>1, <4>1, <4>2, Owned DEF Recording, Hand
      <4> QED
        BY <1>4, <4>2 DEF Recording, Post
    <3>2. t \in Recording(r)'
      BY <1>4, <2>1 DEF Post, Recording
    <3>3. posts'[r] = posts[r] + 1 /\ attempts' = attempts
      BY <1>4, <2>1 DEF Post, rowVars
    <3> QED
      BY <1>4, <1>b, <1>c, <3>1, <3>2, <3>3 DEF Post, rowVars
  <2>2. CASE r # cur[t][1]
    <3>1. cur[t][1] \in Rows /\ posts'[r] = posts[r]
      BY <1>4, <1>a, <2>2 DEF Post, Placement, Items
    <3>2. Recording(r) \subseteq Recording(r)'
      BY <1>4 DEF Post, Recording
    <3> QED
      BY <1>4, <1>b, <1>c, <3>1, <3>2 DEF Post, rowVars
  <2> QED
    BY <2>1, <2>2
<1>5. ASSUME NEW t \in Tasks, Record(t)
      PROVE  posts'[r] <= attempts'[r] + (IF Recording(r)' # {} THEN 1 ELSE 0)
  <2>1. cur[t] \in Hand(t) /\ cur[t] \in Items
    BY <1>5, <1>a DEF Record, Hand, Placement
  <2>2. CASE r = cur[t][1]
    <3>1. attempts[r] = cur[t][2]
      BY <1>a, <2>1, <2>2 DEF Fresh, Sound
    <3>2. attempts'[r] = attempts[r] + 1 /\ UNCHANGED posts
      BY <1>5, <2>2, <3>1 DEF Record, hist
    <3> QED
      BY <1>5, <1>b, <1>c, <3>2 DEF Record, hist
  <2>3. CASE r # cur[t][1]
    <3>1. attempts'[r] = attempts[r] /\ UNCHANGED <<posts, exists, unrecorded>>
      BY <1>5, <2>1, <2>3 DEF Record, hist, Items
    <3>2. Recording(r) \subseteq Recording(r)'
      BY <1>5, <2>3 DEF Record, Recording
    <3> QED
      BY <1>b, <1>c, <3>1, <3>2
  <2> QED
    BY <2>2, <2>3
<1>6. ASSUME NEW t \in Tasks, RecordFails(t) \/ Crash(t)
      PROVE  posts'[r] <= attempts'[r] + (IF Recording(r)' # {} THEN 1 ELSE 0)
  BY <1>1, <1>6 DEF RecordFails, Crash, Recording, rowVars
<1>7. ASSUME NEW t \in Tasks, Blocked(t) \/ Finish(t)
      PROVE  posts'[r] <= attempts'[r] + (IF Recording(r)' # {} THEN 1 ELSE 0)
  BY <1>1, <1>7 DEF Blocked, Finish, Recording, rowVars, hist, Over
<1>8. ASSUME NEW w \in Workers, TakeLock(w) \/ SelectDue(w) \/ \E i \in Items : TakeRow(w, i)
      PROVE  posts'[r] <= attempts'[r] + (IF Recording(r)' # {} THEN 1 ELSE 0)
  BY <1>1, <1>8 DEF TakeLock, SelectDue, TakeRow, Recording, rowVars, hist
<1>9. ASSUME NEW e \in Events, Dispatch(e) \/ \E i \in Items : InsertRefused(e, i)
      PROVE  posts'[r] <= attempts'[r] + (IF Recording(r)' # {} THEN 1 ELSE 0)
  BY <1>1, <1>9 DEF Dispatch, InsertRefused, Recording, rowVars, hist
<1>10. ASSUME UNCHANGED <<taskVars, attempts, posts, unrecorded>>, exists' \subseteq exists
       PROVE  posts'[r] <= attempts'[r] + (IF Recording(r)' # {} THEN 1 ELSE 0)
  BY <1>1, <1>10 DEF Recording, taskVars
<1>11. ASSUME LockExpires \/ (\E q \in Rows : ComesDue(q))
              \/ \E p \in Endpoints : CreateEndpoint(p) \/ Toggle(p) \/ DeleteEndpoint(p)
       PROVE  posts'[r] <= attempts'[r] + (IF Recording(r)' # {} THEN 1 ELSE 0)
  BY <1>10, <1>11 DEF LockExpires, ComesDue, CreateEndpoint, Toggle, DeleteEndpoint, rowVars, hist
<1> QED
  BY <1>2, <1>3, <1>4, <1>5, <1>6, <1>7, <1>8, <1>9, <1>11 DEF Next, Runs, Deliver

-----------------------------------------------------------------------------
LEMMA NeverUnderruns ==
  ASSUME TypeOK, Next
  PROVE  overran' = 0 => overran = 0
BY DEF TypeOK, Next, Runs, Deliver, Starts, ListCollections, CreateCollection, CreateIndexes,
   StartFails, Dispatch, InsertRow, InsertRefused, TakeLock, SelectDue, TakeRow, Post, Blocked,
   Record, Finish, RecordFails, Crash, LockExpires, ComesDue, CreateEndpoint, Toggle,
   DeleteEndpoint, hist

LEMMA Initially ==
  ASSUME Init
  PROVE  IInv
<1> USE TaskAssumption, BoundAssumption DEF Init, Tasks, Boot
<1>1. TypeOK
  <2>1. collection \in BOOLEAN
    BY Zenon
  <2>2. cur \in [Tasks -> Items \cup {<<>>}] /\ ok \in [Tasks -> BOOLEAN]
    BY Zenon
  <2> QED
    BY <2>1, <2>2 DEF TypeOK
<1>2. Placement /\ Locked /\ Fresh /\ Untouched
  BY DEF Placement, Locked, Fresh, Hand, Untouched, Rows
<1>3. PostsAccountedFor
  BY DEF PostsAccountedFor
<1> QED
  BY <1>1, <1>2, <1>3 DEF IInv

\* Every reachable state: what workers and dispatches have in hand is theirs
\* alone, for any number of them, as long as no batch outlives its lock.
THEOREM Inductive == Spec => []IInv
<1>1. IInv /\ [Next]_vars => IInv'
  <2>1. ASSUME IInv, Next
        PROVE  IInv'
    BY <2>1, TypeOKStep, PlacementStep, NeverUnderruns, LockedStep, UntouchedStep, FreshStep,
       CountedStep DEF IInv
  <2>2. ASSUME IInv, UNCHANGED vars
        PROVE  IInv'
    BY <2>2 DEF vars, rowVars, taskVars, hist, IInv, TypeOK, Placement, Locked, Untouched, Fresh,
       Sound, Hand, PostsAccountedFor, Recording
  <2> QED
    BY <2>1, <2>2
<1> QED
  BY Initially, <1>1, PTL DEF Spec

\* Every variable keeps its type.
THEOREM TypeCorrect == Spec => []TypeOK
<1>1. IInv => TypeOK
  BY DEF IInv
<1> QED
  BY <1>1, Inductive, PTL

\* No endpoint gets a POST its log row does not count, whichever workers retry
\* beside whichever dispatches, until a batch outlives its lock.
THEOREM EveryPostCounted == Spec => []PostsAccountedFor
<1>1. IInv => PostsAccountedFor
  BY DEF IInv, PostsAccountedFor
<1> QED
  BY <1>1, Inductive, PTL

\* An acknowledged delivery is final: no stale update takes delivered_at away and
\* nothing is sent again, until a batch outlives its lock.
THEOREM Delivered == Spec => DeliveredIsFinal
<1> DEFINE Final == \A r \in Rows :
        r \in done /\ overran = 0 => r \in done' /\ posts'[r] = posts[r]
<1>1. ASSUME IInv, Next
      PROVE  Final
  <2> SUFFICES ASSUME NEW r \in Rows, r \in done, overran = 0
               PROVE  r \in done' /\ posts'[r] = posts[r]
    OBVIOUS
  <2>1. \A t \in Tasks : \A i \in Hand(t) : i[1] # r
    BY <1>1 DEF IInv, Fresh, Sound
  <2>2. ASSUME NEW t \in Tasks, NEW a \in BOOLEAN, Post(t, a)
        PROVE  r \in done' /\ posts'[r] = posts[r]
    <3>1. cur[t][1] # r /\ posts \in [Rows -> Nat]
      BY <1>1, <2>1, <2>2 DEF Post, Hand, IInv, TypeOK
    <3> QED
      BY <2>2, <3>1 DEF Post, rowVars
  <2>3. ASSUME NEW t \in Tasks, Record(t)
        PROVE  r \in done' /\ posts'[r] = posts[r]
    <3>1. cur[t][1] # r
      BY <2>1, <2>3 DEF Record, Hand
    <3> QED
      BY <2>3, <3>1 DEF Record, hist
  <2> QED
    BY <1>1, <2>2, <2>3 DEF Next, Runs, Deliver, Starts, ListCollections, CreateCollection,
       CreateIndexes, StartFails, Dispatch, InsertRow, InsertRefused, TakeLock, SelectDue, TakeRow,
       Blocked, Finish, RecordFails, Crash, LockExpires, ComesDue, CreateEndpoint, Toggle,
       DeleteEndpoint, rowVars, hist
<1>2. IInv /\ [Next]_vars => [Final]_vars
  BY <1>1
<1>3. Spec => [][Final]_vars
  BY <1>2, Inductive, PTL DEF Spec
<1> QED
  BY <1>3 DEF DeliveredIsFinal
=============================================================================
