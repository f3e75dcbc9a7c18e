--------------------------- MODULE ChatSessionProofs ---------------------------
(****************************************************************************)
(* Proofs about ChatSession, for any number of overlapping requests, any    *)
(* length of the history and any failures.                                  *)
(*                                                                          *)
(* A request that saves its turn beside no other finds the transcript as it *)
(* read it; the others are in `clash', together with whoever they may have  *)
(* undone (Clashes).  The same holds of looking for a lead and linking one  *)
(* (Placeholders).  In a session without overlaps and failures the cached   *)
(* history is the end of the transcript, but for the turn that is just      *)
(* being saved (Remembered).                                                *)
(****************************************************************************)
EXTENDS ChatSession, TLAPS

Words(r) == IF snap[r] = Absent THEN {} ELSE Range(snap[r])

\* Only answered requests are in the transcript, or in what was read of it.
Seen ==
    /\ \A r \in Range(Transcript) : Answered(r)
    /\ \A q \in At("write") : \A r \in Words(q) : Answered(r)

\* Who is about to write the transcript beside another is in `clash'; who is not
\* finds it as it read it, but for the turns of requests that clashed or failed.
Clashes ==
    /\ \A q, r \in At("write") : q # r => q \in clash
    /\ \A q \in At("write") :
        /\ Range(Transcript) \subseteq Words(q) \cup clash \cup failed
        /\ snap[q] = Absent /\ row # Absent => q \in clash

\* A session without overlaps has one request at a time.
Alone == ~overlapped => \A q, r \in InFlight : q = r

\* Without overlaps and failures a request knows the end of the transcript, and
\* so does the cache, but for the turn that was just written.
Remembered ==
    ~overlapped /\ failed = {} =>
        /\ \A r \in Requests :
            /\ pc[r] \in {"turn", "find", "write"} => hist[r] = LastTurns(Transcript)
            /\ pc[r] = "write" => snap[r] = row
            /\ pc[r] = "keep" => LastTurns(Append(hist[r], r)) = LastTurns(Transcript)
        /\ cache # Absent /\ At("keep") = {} => cache = LastTurns(Transcript)

\* Who is about to link a lead beside another is in `race'.  A placeholder whose
\* request neither raced, clashed nor failed is linked, or about to be.
Placeholders ==
    /\ rowLead # None => row # Absent
    /\ \A q, r \in At("place") \cup At("link") : q # r => q \in race
    /\ \A r \in At("link") : lead[r] = <<"placeholder", r>>
    /\ \A r \in At("place") : rowLead # None => r \in race \cup clash \cup failed
    /\ \A r \in Requests \ (race \cup clash \cup failed) :
        <<"placeholder", r>> \in leads => pc[r] = "link" \/ rowLead # None

IInv ==
    /\ TypeOK
    /\ Seen
    /\ Clashes
    /\ NoTurnLost
    /\ Alone
    /\ Remembered
    /\ Placeholders
    /\ OnePlaceholder

-----------------------------------------------------------------------------
(* The history that is kept *)

LEMMA LastTurnsType ==
  ASSUME NEW s \in Turns
  PROVE  LastTurns(s) \in Turns /\ Len(LastTurns(s)) <= Keep
BY KeepAssumption DEF Turns, LastTurns

LEMMA NoTurns == <<>> \in Turns /\ LastTurns(<<>>) = <<>> /\ Len(<<>>) <= Keep
BY KeepAssumption DEF Turns, LastTurns

\* A turn added to the history that was kept, and one added to the transcript.
LEMMA LastTurnsAppend ==
  ASSUME NEW s \in Turns, NEW r \in Requests
  PROVE  LastTurns(Append(LastTurns(s), r)) = LastTurns(Append(s, r))
<1> USE KeepAssumption DEF Turns
<1>1. CASE Len(s) <= Keep
  BY <1>1 DEF LastTurns
<1>2. CASE Len(s) > Keep
  <2> DEFINE k == LastTurns(s)
             u == LastTurns(Append(k, r))
             v == LastTurns(Append(s, r))
  <2>1. k \in Seq(Requests) /\ Len(k) = Keep /\ \A i \in 1..Keep : k[i] = s[Len(s) - Keep + i]
    BY <1>2 DEF LastTurns
  <2>2. u \in Seq(Requests) /\ Len(u) = Keep /\ \A i \in 1..Keep : u[i] = Append(k, r)[i + 1]
    BY <2>1 DEF LastTurns
  <2>3. v \in Seq(Requests) /\ Len(v) = Keep
        /\ \A i \in 1..Keep : v[i] = Append(s, r)[Len(s) + 1 - Keep + i]
    BY <1>2 DEF LastTurns
  <2>4. ASSUME NEW i \in 1..Keep
        PROVE  u[i] = v[i]
    <3>1. CASE i = Keep
      BY <1>2, <2>1, <2>2, <2>3, <3>1
    <3>2. CASE i < Keep
      <4>1. Append(k, r)[i + 1] = s[Len(s) - Keep + (i + 1)]
        BY <2>1, <3>2
      <4>2. Append(s, r)[Len(s) + 1 - Keep + i] = s[Len(s) + 1 - Keep + i]
        BY <1>2, <3>2
      <4>3. Len(s) - Keep + (i + 1) = Len(s) + 1 - Keep + i
        OBVIOUS
      <4>4. u[i] = Append(k, r)[i + 1]
        BY <2>2
      <4>5. v[i] = Append(s, r)[Len(s) + 1 - Keep + i]
        BY <2>3
      <4> HIDE DEF k, u, v
      <4> QED
        BY <4>1, <4>2, <4>3, <4>4, <4>5
    <3> QED
      BY <3>1, <3>2
  <2> QED
    BY <2>2, <2>3, <2>4
<1> QED
  BY <1>1, <1>2

LEMMA RangeAppend ==
  ASSUME NEW s \in Turns, NEW r \in Requests
  PROVE  Append(s, r) \in Turns /\ Range(Append(s, r)) = Range(s) \cup {r}
<1> DEFINE a == Append(s, r)
<1> USE DEF Turns
<1>1. a \in Seq(Requests) /\ Len(a) = Len(s) + 1 /\ DOMAIN a = 1..Len(a) /\ DOMAIN s = 1..Len(s)
  OBVIOUS
<1>2. a[Len(a)] = r /\ \A i \in 1..Len(s) : a[i] = s[i]
  BY <1>1
<1>3. Range(a) \subseteq Range(s) \cup {r}
  BY <1>1, <1>2 DEF Range
<1>4. Range(s) \cup {r} \subseteq Range(a)
  BY <1>1, <1>2 DEF Range
<1> QED
  BY <1>1, <1>3, <1>4

\* A history that is kept for a request.
LEMMA HistType ==
  ASSUME TypeOK, NEW r \in Requests, NEW h \in Turns, Len(h) <= Keep,
         hist' = [hist EXCEPT ![r] = h]
  PROVE  hist' \in [Requests -> Turns] /\ \A q \in Requests : Len(hist'[q]) <= Keep
BY DEF TypeOK

-----------------------------------------------------------------------------
LEMMA TypeOKStep ==
  ASSUME IInv, Next
  PROVE  TypeOK'
<1> USE NoneAssumption, AbsentAssumption, NoTurns DEF IInv, TypeOK
<1>1. ASSUME NEW r \in Requests, NEW l \in Leads \cup {None}, Send(r, l)
      PROVE  TypeOK'
  BY <1>1 DEF Send, Goes, Labels, database
<1>2. ASSUME NEW r \in Requests, ReadCache(r)
      PROVE  TypeOK'
  <2>1. hist' \in [Requests -> Turns] /\ \A q \in Requests : Len(hist'[q]) <= Keep
    BY <1>2, HistType DEF ReadCache
  <2> QED
    BY <1>2, <2>1 DEF ReadCache, Goes, Labels, database, history
<1>3. ASSUME NEW r \in Requests, CacheMiss(r)
       PROVE  TypeOK'
  BY <1>3 DEF CacheMiss, Goes, Labels, database, own, history
<1>4. ASSUME NEW r \in Requests, LoadHistory(r) \/ LoadFails(r)
      PROVE  TypeOK'
  <2>1. LastTurns(Transcript) \in Turns /\ Len(LastTurns(Transcript)) <= Keep
    BY LastTurnsType DEF Transcript
  <2>2. hist' \in [Requests -> Turns] /\ \A q \in Requests : Len(hist'[q]) <= Keep
    BY <1>4, <2>1, HistType DEF LoadHistory, LoadFails
  <2> QED
    BY <1>4, <2>2 DEF LoadHistory, LoadFails, Goes, Labels, database, history, Failure
<1>5. ASSUME NEW r \in Requests, NEW g \in BOOLEAN, Answer(r, g)
      PROVE  TypeOK'
  BY <1>5 DEF Answer, Goes, Labels, database, history
<1>6. ASSUME NEW r \in Requests, NEW g \in BOOLEAN, AnswerCaptures(r, g) \/ CaptureFails(r, g)
      PROVE  TypeOK'
  <2>1. leads \subseteq leads' /\ leads' \in SUBSET Leads
    BY <1>6 DEF AnswerCaptures, CaptureFails, Leads, Captured
  <2>2. effective' \in [Requests -> leads' \cup {None}]
    BY <1>6, <2>1 DEF AnswerCaptures, CaptureFails
  <2>3. engaged' \in [Requests -> BOOLEAN]
    BY <1>6, Zenon DEF AnswerCaptures, CaptureFails
  <2>4. pc' \in [Requests -> Labels]
    BY <1>6 DEF AnswerCaptures, CaptureFails, Goes, Labels
  <2>5. lead' \in [Requests -> leads' \cup {None}] /\ rowLead' \in leads' \cup {None}
    BY <1>6, <2>1 DEF AnswerCaptures, CaptureFails
  <2> QED
    BY <1>6, <2>1, <2>2, <2>3, <2>4, <2>5 DEF AnswerCaptures, CaptureFails, history, Failure
<1>7. ASSUME NEW r \in Requests, FindRow(r)
      PROVE  TypeOK'
  BY <1>7 DEF FindRow, Goes, Labels, database, At
<1>8. ASSUME NEW r \in Requests, WriteTurn(r) \/ PersistFails(r) \/ InsertRefused(r)
      PROVE  TypeOK'
  <2> DEFINE base == IF snap[r] = Absent THEN <<>> ELSE snap[r]
  <2>a. base \in Turns
    OBVIOUS
  <2>b. Append(base, r) \in Turns
    BY <2>a, RangeAppend
  <2>1. row' = Absent \/ row' \in Turns
    BY <1>8, <2>b DEF WriteTurn, PersistFails, InsertRefused, Writes
  <2>2. rowLead' \in leads \cup {None}
    BY <1>8 DEF WriteTurn, PersistFails, InsertRefused, Writes
  <2>3. Persisted(r) /\ failed' \subseteq Requests
    BY <1>8 DEF WriteTurn, PersistFails, InsertRefused, Failure
  <2> QED
    BY <2>1, <2>2, <2>3 DEF Persisted, Goes, Labels
<1>9. ASSUME NEW r \in Requests, SaveHistory(r)
      PROVE  TypeOK'
  <2>1. cache' \in Turns /\ Len(cache') <= Keep
    BY <1>9, RangeAppend, LastTurnsType DEF SaveHistory
  <2>2. engaged' \in [Requests -> BOOLEAN]
    BY <1>9, Zenon DEF SaveHistory, Kept
  <2> QED
    BY <1>9, <2>1, <2>2 DEF SaveHistory, Kept, Goes, Labels, database, history
<1>10. ASSUME NEW r \in Requests, LookForLead(r)
      PROVE  TypeOK'
  BY <1>10 DEF LookForLead, Goes, Labels, database, At
<1>11. ASSUME NEW r \in Requests, InsertPlaceholder(r)
       PROVE  TypeOK'
  <2>1. leads' = leads \cup {<<"placeholder", r>>} /\ leads' \in SUBSET Leads
    BY <1>11 DEF InsertPlaceholder, Leads, Placeholder
  <2>2. /\ lead' \in [Requests -> leads' \cup {None}]
        /\ effective' \in [Requests -> leads' \cup {None}]
    BY <1>11, <2>1 DEF InsertPlaceholder
  <2> QED
    BY <1>11, <2>1, <2>2 DEF InsertPlaceholder, Goes, Labels, history
<1>12. ASSUME NEW r \in Requests, LinkLead(r)
        PROVE  TypeOK'
  BY <1>12 DEF LinkLead, Goes, Labels, own, history
<1>13. ASSUME NEW r \in Requests, Reply(r) \/ RequestDies(r)
       PROVE  TypeOK'
  <2>1. Forget(r)
    BY <1>13 DEF Reply, RequestDies
  <2>2. told' \in SUBSET leads /\ failed' \subseteq Requests
    BY <1>13 DEF Reply, RequestDies, Failure
  <2>3. engaged' \in [Requests -> BOOLEAN]
    BY <2>1, Zenon DEF Forget
  <2> QED
    BY <2>1, <2>2, <2>3 DEF Forget, Goes, Labels, database
<1>14. CASE Expire
  BY <1>14 DEF Expire, database, own, history
<1> QED
  BY <1>1, <1>2, <1>3, <1>4, <1>5, <1>6, <1>7, <1>8, <1>9, <1>10, <1>11, <1>12, <1>13, <1>14
     DEF Next, Turn, Persist, Link

-----------------------------------------------------------------------------
(* The transcript *)

\* What a request does to the transcript when its turn is written.
LEMMA Written ==
  ASSUME TypeOK, NEW r \in Requests, Writes(r)
  PROVE  Range(Transcript)' = Words(r) \cup {r} /\ row' \in Turns /\ row' # Absent
<1> DEFINE base == IF snap[r] = Absent THEN <<>> ELSE snap[r]
<1>1. base \in Turns
  BY NoTurns DEF TypeOK
<1>2. Range(base) = Words(r)
  BY DEF Words, Range
<1>3. row' = Append(base, r)
  BY DEF Writes
<1>4. row' \in Turns /\ Range(row') = Words(r) \cup {r}
  BY <1>1, <1>2, <1>3, RangeAppend
<1> QED
  BY <1>4, AbsentAssumption DEF Transcript, Turns

\* Who was answered stays so.
LEMMA AnsweredStays ==
  ASSUME IInv, Next, NEW r \in Requests, Answered(r)
  PROVE  Answered(r)'
BY DEF IInv, TypeOK, Answered, Next, Turn, Persist, Link, Send, ReadCache, CacheMiss, LoadHistory,
   LoadFails, Answer, AnswerCaptures, CaptureFails, FindRow, WriteTurn, PersistFails,
   InsertRefused, Persisted, SaveHistory, Kept, LookForLead, InsertPlaceholder, LinkLead, Reply,
   RequestDies, Forget, Expire, Goes

\* A step writes the transcript, reads it to append to it, or leaves it and what
\* was read of it alone; then nobody's turn is over but by a refusal or a failure.
Quiet ==
    /\ UNCHANGED <<row, clash>> /\ failed \subseteq failed'
    /\ \A q \in Requests : pc'[q] = "write" => pc[q] = "write" /\ snap'[q] = snap[q]
    /\ \A q \in Requests : Answered(q)' =>
          Answered(q) \/ q \in failed' \/ (pc[q] = "write" /\ snap[q] = Absent /\ row # Absent)

Appends(r) ==
    /\ pc[r] = "write" /\ Writes(r) /\ Persisted(r) /\ failed \subseteq failed'

LEMMA TranscriptStep ==
  ASSUME IInv, Next
  PROVE  Quiet \/ \E r \in Requests : FindRow(r) \/ Appends(r)
<1> USE DEF IInv, TypeOK, Answered, Goes
<1>1. ASSUME NEW r \in Requests,
             \/ \E l \in Leads \cup {None} : Send(r, l)
             \/ ReadCache(r) \/ CacheMiss(r) \/ LoadHistory(r) \/ LoadFails(r)
      PROVE  Quiet
  BY <1>1 DEF Quiet, Send, ReadCache, CacheMiss, LoadHistory, LoadFails, Failure, database, own,
     history
<1>2. ASSUME NEW r \in Requests, Turn(r)
      PROVE  Quiet
  BY <1>2 DEF Quiet, Turn, Answer, AnswerCaptures, CaptureFails, Failure, database, history
<1>3. ASSUME NEW r \in Requests, Persist(r)
      PROVE  Quiet \/ FindRow(r) \/ Appends(r)
  <2>1. CASE WriteTurn(r)
    BY <2>1 DEF WriteTurn, Appends
  <2>2. CASE PersistFails(r) /\ UNCHANGED row
    BY <2>2 DEF Quiet, PersistFails, Persisted, Failure
  <2>3. CASE PersistFails(r) /\ pc[r] = "write" /\ Writes(r)
    BY <2>3 DEF PersistFails, Appends, Failure
  <2>4. CASE InsertRefused(r)
    BY <2>4 DEF Quiet, InsertRefused, Persisted
  <2> QED
    BY <1>3, <2>1, <2>2, <2>3, <2>4 DEF Persist, PersistFails
<1>4. ASSUME NEW r \in Requests, SaveHistory(r) \/ Link(r)
      PROVE  Quiet
  BY <1>4 DEF Quiet, SaveHistory, Kept, Link, LookForLead, InsertPlaceholder, LinkLead, database,
     own, history
<1>5. ASSUME NEW r \in Requests, Reply(r) \/ RequestDies(r)
      PROVE  Quiet
  BY <1>5 DEF Quiet, Reply, RequestDies, Forget, Failure, database
<1>6. CASE Expire
  BY <1>6 DEF Quiet, Expire, database, own, history
<1> QED
  BY <1>1, <1>2, <1>3, <1>4, <1>5, <1>6 DEF Next

LEMMA SeenStep ==
  ASSUME IInv, Next
  PROVE  Seen'
<1> USE DEF IInv
<1>a. /\ \A r \in Range(Transcript) : r \in Requests /\ Answered(r)'
      /\ \A q \in At("write") : \A r \in Words(q) : r \in Requests /\ Answered(r)'
  <2>1. Range(Transcript) \subseteq Requests
    BY NoTurns DEF TypeOK, Transcript, Turns, Range
  <2>2. ASSUME NEW q \in Requests
        PROVE  Words(q) \subseteq Requests
    BY DEF TypeOK, Words, Turns, Range
  <2> QED
    BY <2>1, <2>2, AnsweredStays DEF Seen, At
<1>1. CASE Quiet
  BY <1>1, <1>a DEF Quiet, Seen, At, Words, Transcript
<1>2. ASSUME NEW r \in Requests, FindRow(r)
      PROVE  Seen'
  <2>1. Transcript' = Transcript /\ Range(Transcript)' = Range(Transcript)
    BY <1>2 DEF FindRow, database, Transcript
  <2>2. \A q \in At("write")' : q = r \/ (q \in At("write") /\ Words(q)' = Words(q))
    BY <1>2 DEF FindRow, At, Goes, Words, TypeOK
  <2>3. Words(r)' \subseteq Range(Transcript)
    BY <1>2 DEF FindRow, Words, TypeOK, Transcript
  <2> QED
    BY <1>a, <2>1, <2>2, <2>3 DEF Seen
<1>3. ASSUME NEW r \in Requests, Appends(r)
      PROVE  Seen'
  <2>1. Range(Transcript)' = Words(r) \cup {r} /\ r \in At("write") /\ Answered(r)'
    BY <1>3, Written DEF Appends, Persisted, Goes, At, Answered, TypeOK
  <2>2. \A q \in At("write")' : q \in At("write") /\ Words(q)' = Words(q)
    BY <1>3 DEF Appends, Persisted, At, Goes, Words, TypeOK
  <2> QED
    BY <1>a, <2>1, <2>2 DEF Seen
<1> QED
  BY <1>1, <1>2, <1>3, TranscriptStep

LEMMA ClashesStep ==
  ASSUME IInv, Next
  PROVE  Clashes'
<1> USE DEF IInv
<1>1. CASE Quiet
  BY <1>1 DEF Quiet, Clashes, At, Words, Transcript
<1>2. ASSUME NEW r \in Requests, FindRow(r)
      PROVE  Clashes'
  <2>1. Range(Transcript)' = Range(Transcript) /\ row' = row /\ failed' = failed
    BY <1>2 DEF FindRow, database, Transcript
  <2>2. At("write")' = At("write") \cup {r} /\ r \notin At("write")
    BY <1>2 DEF FindRow, At, Goes, TypeOK
  <2>3. clash' = clash \cup (IF At("write") = {} THEN {} ELSE At("write")')
    BY <1>2, <2>2 DEF FindRow
  <2>4. \A q \in At("write") : Words(q)' = Words(q) /\ snap'[q] = snap[q]
    BY <1>2, <2>2 DEF FindRow, Words, At, TypeOK
  <2>5. Words(r)' = Range(Transcript) /\ snap'[r] = row
    BY <1>2 DEF FindRow, Words, TypeOK, Transcript, Range
  <2> QED
    BY <2>1, <2>2, <2>3, <2>4, <2>5 DEF Clashes
<1>3. ASSUME NEW r \in Requests, Appends(r)
      PROVE  Clashes'
  <2>1. Range(Transcript)' = Words(r) \cup {r} /\ r \in At("write") /\ row' # Absent
    BY <1>3, Written DEF Appends, At
  <2>2. clash' = clash /\ failed \subseteq failed'
    BY <1>3 DEF Appends, Persisted
  <2>3. \A q \in At("write")' : q \in At("write") /\ q # r /\ Words(q)' = Words(q)
    BY <1>3 DEF Appends, Persisted, At, Goes, Words, TypeOK
  <2>4. \A q \in At("write")' : q \in clash /\ r \in clash
    BY <2>1, <2>3 DEF Clashes
  <2>5. ASSUME NEW q \in At("write")', NEW p \in Words(r)
        PROVE  p \in Words(q) \cup clash \cup failed
    <3>1. p \in Requests /\ Answered(p)
      BY <2>1 DEF Seen, Words, TypeOK, Turns, Range, At
    <3>2. p \in clash \cup failed \cup Range(Transcript)
      BY <3>1 DEF NoTurnLost
    <3> QED
      BY <2>3, <3>2 DEF Clashes
  <2> QED
    BY <2>1, <2>2, <2>3, <2>4, <2>5 DEF Clashes
<1> QED
  BY <1>1, <1>2, <1>3, TranscriptStep

LEMMA NoTurnLostStep ==
  ASSUME IInv, Next
  PROVE  NoTurnLost'
<1> USE DEF IInv
<1>1. CASE Quiet
  BY <1>1 DEF Quiet, NoTurnLost, Clashes, At, Transcript
<1>2. ASSUME NEW r \in Requests, FindRow(r)
      PROVE  NoTurnLost'
  <2>1. Transcript' = Transcript /\ clash \subseteq clash' /\ failed' = failed
    BY <1>2 DEF FindRow, database, Transcript
  <2>2. \A q \in Requests : Answered(q)' => Answered(q)
    BY <1>2 DEF FindRow, Answered, Goes, TypeOK
  <2> QED
    BY <2>1, <2>2 DEF NoTurnLost
<1>3. ASSUME NEW r \in Requests, Appends(r)
      PROVE  NoTurnLost'
  <2>1. Range(Transcript)' = Words(r) \cup {r} /\ r \in At("write")
    BY <1>3, Written DEF Appends, At
  <2>2. clash' = clash /\ failed \subseteq failed'
    BY <1>3 DEF Appends, Persisted
  <2>3. \A q \in Requests \ {r} : Answered(q)' => Answered(q)
    BY <1>3 DEF Appends, Persisted, Answered, Goes, TypeOK
  <2>4. \A q \in Range(Transcript) : q \in Words(r) \cup clash \cup failed
    BY <2>1 DEF Clashes
  <2> QED
    BY <2>1, <2>2, <2>3, <2>4 DEF NoTurnLost
<1> QED
  BY <1>1, <1>2, <1>3, TranscriptStep

-----------------------------------------------------------------------------
(* What is remembered *)

\* Overlaps and failures are never forgotten, and only a new message adds to the
\* requests in flight.
LEMMA Flight ==
  ASSUME IInv, Next
  PROVE  /\ failed \subseteq failed'
         /\ \/ \E r \in Requests, l \in Leads \cup {None} : Send(r, l)
            \/ overlapped' = overlapped /\ InFlight' \subseteq InFlight
<1> USE DEF IInv, TypeOK, InFlight, Goes
<1>1. ASSUME NEW r \in Requests, NEW l \in Leads \cup {None}, Send(r, l)
      PROVE  failed \subseteq failed'
  BY <1>1 DEF Send
<1> DEFINE Fewer == /\ failed \subseteq failed' /\ overlapped' = overlapped
                    /\ InFlight' \subseteq InFlight
<1>2. ASSUME NEW r \in Requests,
             ReadCache(r) \/ CacheMiss(r) \/ LoadHistory(r) \/ LoadFails(r)
      PROVE  Fewer
  BY <1>2 DEF ReadCache, CacheMiss, LoadHistory, LoadFails, Failure, database, own, history
<1>3. ASSUME NEW r \in Requests, Turn(r)
      PROVE  Fewer
  BY <1>3 DEF Turn, Answer, AnswerCaptures, CaptureFails, Failure, database, history
<1>4. ASSUME NEW r \in Requests, Persist(r)
      PROVE  Fewer
  BY <1>4 DEF Persist, FindRow, WriteTurn, PersistFails, InsertRefused, Persisted, Failure
<1>5. ASSUME NEW r \in Requests, SaveHistory(r) \/ Link(r)
      PROVE  Fewer
  BY <1>5 DEF SaveHistory, Kept, Link, LookForLead, InsertPlaceholder, LinkLead, database, own,
     history
<1>6. ASSUME NEW r \in Requests, Reply(r) \/ RequestDies(r)
      PROVE  Fewer
  BY <1>6 DEF Reply, RequestDies, Forget, Failure
<1>7. CASE Expire
  BY <1>7 DEF Expire, own, history
<1> QED
  BY <1>1, <1>2, <1>3, <1>4, <1>5, <1>6, <1>7 DEF Next

\* A session that is calm after a step was calm before it; the message that
\* is sent in it is the only one.
LEMMA CalmBefore ==
  ASSUME IInv, Next, ~overlapped', failed' = {}
  PROVE  /\ ~overlapped /\ failed = {}
         /\ \A q, r \in InFlight : q = r
         /\ \A r \in Requests, l \in Leads \cup {None} : Send(r, l) => InFlight = {}
<1>1. ASSUME NEW r \in Requests, NEW l \in Leads \cup {None}, Send(r, l)
      PROVE  ~overlapped /\ InFlight = {}
  BY <1>1, Zenon DEF Send
<1>2. ~overlapped
  <2>1. CASE overlapped' = overlapped
    BY <2>1, Zenon
  <2> QED
    BY <1>1, <2>1, Flight
<1>3. \A q, r \in InFlight : q = r
  BY <1>2, Zenon DEF IInv, Alone
<1> QED
  BY <1>1, <1>2, <1>3, Flight

LEMMA AloneStep ==
  ASSUME IInv, Next
  PROVE  Alone'
<1> SUFFICES ASSUME ~overlapped'
             PROVE  \A q, r \in InFlight' : q = r
  BY DEF Alone
<1>1. ASSUME NEW r \in Requests, NEW l \in Leads \cup {None}, Send(r, l)
      PROVE  \A p, q \in InFlight' : p = q
  <2>1. InFlight = {}
    BY <1>1, Zenon DEF Send
  <2>2. \A q \in InFlight' : q = r
    BY <1>1, <2>1 DEF Send, InFlight, Goes, IInv, TypeOK
  <2> QED
    BY <2>2
<1>2. CASE overlapped' = overlapped /\ InFlight' \subseteq InFlight
  BY <1>2, Zenon DEF IInv, Alone
<1> QED
  BY <1>1, <1>2, Flight

LEMMA RememberedStep ==
  ASSUME IInv, Next
  PROVE  Remembered'
<1> SUFFICES ASSUME ~overlapped', failed' = {}
             PROVE  Remembered'
  BY DEF Remembered
<1> DEFINE Knows(r) ==
             /\ pc[r] \in {"turn", "find", "write"} => hist[r] = LastTurns(Transcript)
             /\ pc[r] = "write" => snap[r] = row
             /\ pc[r] = "keep" => LastTurns(Append(hist[r], r)) = LastTurns(Transcript)
           CacheKnows == cache # Absent /\ At("keep") = {} => cache = LastTurns(Transcript)
<1> SUFFICES (\A r \in Requests : Knows(r)') /\ CacheKnows'
  BY DEF Remembered
<1>a. /\ \A q, r \in InFlight : q = r
      /\ \A r \in Requests : ~Failure(r)
      /\ (\A r \in Requests : Knows(r)) /\ CacheKnows
  BY CalmBefore DEF IInv, Remembered, Failure
<1> DEFINE Sleeps(q) == pc'[q] = pc[q] /\ pc[q] \in {"idle", "done"}
<1>b. ASSUME NEW r \in Requests, pc[r] \notin {"idle", "done"}, NEW l \in Labels, Goes(r, l)
      PROVE  (\A q \in Requests \ {r} : Sleeps(q)) /\ pc'[r] = l
  BY <1>a, <1>b DEF InFlight, Goes, IInv, TypeOK
<1> USE DEF IInv, TypeOK
<1>1. ASSUME NEW r \in Requests, NEW l \in Leads \cup {None}, Send(r, l)
      PROVE  (\A q \in Requests : Knows(q)') /\ CacheKnows'
  <2>1. InFlight = {}
    BY <1>1, CalmBefore
  <2>2. \A q \in Requests : pc[q] \in {"idle", "done"} /\ pc'[q] \in {"idle", "done", "read"}
    BY <1>1, <2>1 DEF InFlight, Send, Goes
  <2> QED
    BY <1>1, <1>a, <2>2 DEF Send, database, At, Transcript
<1>2. ASSUME NEW r \in Requests, ReadCache(r)
      PROVE  (\A q \in Requests : Knows(q)') /\ CacheKnows'
  <2>1. (\A q \in Requests \ {r} : Sleeps(q)) /\ pc'[r] = "turn" /\ pc[r] = "read"
    BY <1>2, <1>b DEF ReadCache, Labels
  <2>2. At("keep") = {} /\ cache = LastTurns(Transcript)
    BY <1>2, <1>a, <2>1 DEF At, ReadCache
  <2> QED
    BY <1>2, <2>1, <2>2 DEF ReadCache, database, history, At, Transcript
<1>3. ASSUME NEW r \in Requests, CacheMiss(r) \/ LoadHistory(r)
      PROVE  (\A q \in Requests : Knows(q)') /\ CacheKnows'
  <2>1. /\ \A q \in Requests \ {r} : Sleeps(q)
        /\ pc'[r] \in {"load", "turn"} /\ pc[r] \in {"read", "load"}
    BY <1>3, <1>b DEF CacheMiss, LoadHistory, Labels
  <2>2. pc'[r] = "turn" => hist'[r] = LastTurns(Transcript)
    BY <1>3, <2>1 DEF CacheMiss, LoadHistory, Goes
  <2>3. UNCHANGED <<cache, row>>
    BY <1>3 DEF CacheMiss, LoadHistory, database
  <2> QED
    BY <1>a, <2>1, <2>2, <2>3 DEF At, Transcript
<1>4. ASSUME NEW r \in Requests, LoadFails(r) \/ PersistFails(r) \/ RequestDies(r)
      PROVE  FALSE
  BY <1>4, <1>a DEF LoadFails, PersistFails, RequestDies
<1>5. ASSUME NEW r \in Requests, Turn(r)
      PROVE  (\A q \in Requests : Knows(q)') /\ CacheKnows'
  <2>1. Goes(r, "find") /\ pc[r] = "turn" /\ UNCHANGED <<cache, row, hist, snap>>
    BY <1>5 DEF Turn, Answer, AnswerCaptures, CaptureFails, database
  <2>2. (\A q \in Requests \ {r} : Sleeps(q)) /\ pc'[r] = "find"
    BY <2>1, <1>b DEF Labels
  <2> QED
    BY <1>a, <2>1, <2>2 DEF At, Transcript
<1>6. ASSUME NEW r \in Requests, FindRow(r)
      PROVE  (\A q \in Requests : Knows(q)') /\ CacheKnows'
  <2>1. (\A q \in Requests \ {r} : Sleeps(q)) /\ pc'[r] = "write" /\ pc[r] = "find"
    BY <1>6, <1>b DEF FindRow, Labels
  <2> QED
    BY <1>6, <1>a, <2>1 DEF FindRow, database, At, Transcript
<1>7. ASSUME NEW r \in Requests, WriteTurn(r) \/ InsertRefused(r)
      PROVE  (\A q \in Requests : Knows(q)') /\ CacheKnows'
  <2>1. Goes(r, "keep") /\ pc[r] = "write" /\ UNCHANGED hist
    BY <1>7 DEF WriteTurn, InsertRefused, Persisted
  <2>2. (\A q \in Requests \ {r} : Sleeps(q)) /\ pc'[r] = "keep"
    BY <2>1, <1>b DEF Labels
  <2>3. snap[r] = row /\ hist[r] = LastTurns(Transcript)
    BY <1>a, <2>1
  <2>4. row' = Append(Transcript, r)
    BY <1>7, <2>3 DEF WriteTurn, InsertRefused, Writes, Transcript
  <2>5. Transcript \in Turns
    BY NoTurns DEF Transcript
  <2>6. Append(Transcript, r) \in Turns
    BY <2>5, RangeAppend
  <2>7. Transcript' = Append(Transcript, r)
    BY <2>4, <2>6, AbsentAssumption DEF Transcript, Turns
  <2>8. LastTurns(Append(hist[r], r)) = LastTurns(Transcript')
    BY <2>3, <2>5, <2>7, LastTurnsAppend
  <2> QED
    BY <2>1, <2>2, <2>8 DEF At
<1>8. ASSUME NEW r \in Requests, SaveHistory(r)
      PROVE  (\A q \in Requests : Knows(q)') /\ CacheKnows'
  <2>1. (\A q \in Requests \ {r} : Sleeps(q)) /\ pc'[r] \in {"look", "reply"} /\ pc[r] = "keep"
    BY <1>8, <1>b DEF SaveHistory, Kept, Labels
  <2>2. cache' = LastTurns(Transcript) /\ row' = row
    BY <1>8, <1>a, <2>1 DEF SaveHistory, Kept, database
  <2> QED
    BY <2>1, <2>2 DEF At, Transcript
<1>9. ASSUME NEW r \in Requests, Link(r) \/ Reply(r)
      PROVE  (\A q \in Requests : Knows(q)') /\ CacheKnows'
  <2>1. \E l \in {"place", "link", "reply", "done"} : Goes(r, l)
    BY <1>9 DEF Link, LookForLead, InsertPlaceholder, LinkLead, Reply, Forget
  <2>2. pc[r] \in {"look", "place", "link", "reply"} /\ UNCHANGED <<cache, row>>
    BY <1>9 DEF Link, LookForLead, InsertPlaceholder, LinkLead, Reply, Forget, database
  <2>3. (\A q \in Requests \ {r} : Sleeps(q)) /\ pc'[r] \in {"place", "link", "reply", "done"}
    BY <2>1, <2>2, <1>b DEF Labels
  <2> QED
    BY <1>a, <2>2, <2>3 DEF At, Transcript
<1>10. CASE Expire
  BY <1>10, <1>a DEF Expire, database, own, history, At, Transcript
<1> QED
  BY <1>1, <1>2, <1>3, <1>4, <1>5, <1>6, <1>7, <1>8, <1>9, <1>10 DEF Next, Persist

-----------------------------------------------------------------------------
(* Placeholder leads *)

\* Most steps have nothing to do with them: nobody starts to place or link one,
\* nobody who links one stops but by a failure, and the row's lead stays.
Aside ==
    /\ UNCHANGED <<rowLead, race>>
    /\ clash \subseteq clash' /\ failed \subseteq failed'
    /\ row # Absent => row' # Absent
    /\ \A q \in Requests :
        /\ pc'[q] \in {"place", "link"} => pc'[q] = pc[q] /\ lead'[q] = lead[q]
        /\ pc[q] = "link" => pc'[q] = "link" \/ q \in failed'
        /\ <<"placeholder", q>> \in leads' => <<"placeholder", q>> \in leads

\* The turn that inserts the row gives it its lead.
Opens(r) ==
    /\ Appends(r) /\ row = Absent
    /\ UNCHANGED <<race, clash, lead, leads>>

LEMMA LeadStep ==
  ASSUME IInv, Next
  PROVE  \/ Aside
         \/ \E r \in Requests : Opens(r) \/ Link(r)
<1> USE DEF IInv, TypeOK, Goes
<1>1. ASSUME NEW r \in Requests,
             \/ \E l \in Leads \cup {None} : Send(r, l)
             \/ ReadCache(r) \/ CacheMiss(r) \/ LoadHistory(r) \/ LoadFails(r)
      PROVE  Aside
  BY <1>1 DEF Aside, Send, ReadCache, CacheMiss, LoadHistory, LoadFails, Failure, database, own,
     history
<1>2. ASSUME NEW r \in Requests, Turn(r)
      PROVE  Aside
  BY <1>2 DEF Aside, Turn, Answer, AnswerCaptures, CaptureFails, Failure, database, history
<1>3. ASSUME NEW r \in Requests, Persist(r)
      PROVE  Aside \/ Opens(r)
  <2>1. CASE FindRow(r)
    BY <2>1 DEF Aside, FindRow, database
  <2>2. CASE PersistFails(r) /\ UNCHANGED <<row, rowLead>>
    BY <2>2 DEF Aside, PersistFails, Persisted, Failure
  <2>3. CASE InsertRefused(r)
    BY <2>3 DEF Aside, InsertRefused, Persisted
  <2>4. CASE Appends(r)
    <3>1. row' # Absent
      BY <2>4, Written DEF Appends
    <3>2. CASE snap[r] = Absent
      BY <2>4, <3>2 DEF Appends, Opens, Writes, Persisted
    <3>3. CASE snap[r] # Absent
      BY <2>4, <3>1, <3>3 DEF Appends, Aside, Writes, Persisted
    <3> QED
      BY <3>2, <3>3
  <2> QED
    BY <1>3, <2>1, <2>2, <2>3, <2>4 DEF Persist, PersistFails, WriteTurn, Appends, Failure
<1>4. ASSUME NEW r \in Requests, SaveHistory(r)
      PROVE  Aside
  BY <1>4 DEF Aside, SaveHistory, Kept, database, history
<1>5. ASSUME NEW r \in Requests, Reply(r) \/ RequestDies(r)
      PROVE  Aside
  BY <1>5 DEF Aside, Reply, RequestDies, Forget, Failure, database
<1>6. CASE Expire
  BY <1>6 DEF Aside, Expire, database, own, history
<1> QED
  BY <1>1, <1>2, <1>3, <1>4, <1>5, <1>6 DEF Next

\* While there is no row, whoever was answered lost its turn.
LEMMA RowlessAnswers ==
  ASSUME IInv, row = Absent, NEW r \in Requests, Answered(r)
  PROVE  r \in clash \cup failed
BY DEF IInv, NoTurnLost, Transcript, Range

LEMMA PlaceholdersStep ==
  ASSUME IInv, Next
  PROVE  Placeholders'
<1> USE DEF IInv, TypeOK
<1>1. CASE Aside
  <2>1. \A q \in At("place")' \cup At("link")' : q \in At("place") \cup At("link")
    BY <1>1 DEF Aside, At
  <2>2. \A q \in At("place")' : q \in At("place")
    BY <1>1 DEF Aside, At
  <2>3. \A q \in At("link")' : q \in At("link") /\ lead'[q] = lead[q]
    BY <1>1 DEF Aside, At
  <2> QED
    BY <1>1, <2>1, <2>2, <2>3 DEF Aside, Placeholders
<1>2. ASSUME NEW r \in Requests, Opens(r)
      PROVE  Placeholders'
  <2>1. row' # Absent /\ row = Absent /\ rowLead = None
    BY <1>2, Written DEF Opens, Appends, Placeholders
  <2>2. /\ UNCHANGED <<race, clash, lead, leads>> /\ failed \subseteq failed'
        /\ pc' = [pc EXCEPT ![r] = "keep"] /\ pc[r] = "write"
    BY <1>2 DEF Opens, Appends, Persisted, Goes
  <2>3. At("place")' = At("place") /\ At("link")' = At("link")
    BY <2>2 DEF At
  <2>4. \A q \in At("place") \cup At("link") : q \in clash \cup failed
    BY <2>1, RowlessAnswers DEF At, Answered
  <2>5. \A q \in Requests \ (race \cup clash \cup failed) : <<"placeholder", q>> \notin leads
    BY <2>1, <2>4 DEF Placeholders, At
  <2> QED
    BY <2>1, <2>2, <2>3, <2>4, <2>5 DEF Placeholders
<1>3. ASSUME NEW r \in Requests, LookForLead(r)
      PROVE  Placeholders'
  <2>1. /\ pc[r] = "look" /\ UNCHANGED <<row, rowLead, leads, clash, failed>>
        /\ \A q \in Requests \ {r} : lead'[q] = lead[q] /\ pc'[q] = pc[q]
    BY <1>3 DEF LookForLead, database, Goes
  <2>2. CASE rowLead # None
    <3>1. pc'[r] = "reply" /\ race' = race
      BY <1>3, <2>2 DEF LookForLead, Goes
    <3>2. At("place")' = At("place") /\ At("link")' = At("link") /\ r \notin At("link")
      BY <2>1, <3>1 DEF At
    <3> QED
      BY <2>1, <2>2, <3>1, <3>2 DEF Placeholders, At
  <2>3. CASE rowLead = None
    <3> DEFINE others == At("place") \cup At("link")
    <3>1. pc'[r] = "place" /\ race' = race \cup (IF others = {} THEN {} ELSE others \cup {r})
      BY <1>3, <2>3 DEF LookForLead, Goes
    <3>2. At("place")' = At("place") \cup {r} /\ At("link")' = At("link") /\ r \notin At("link")
      BY <2>1, <3>1 DEF At
    <3> QED
      BY <2>1, <2>3, <3>1, <3>2 DEF Placeholders, At
  <2> QED
    BY <2>2, <2>3
<1>4. ASSUME NEW r \in Requests, InsertPlaceholder(r)
      PROVE  Placeholders'
  <2>1. /\ pc[r] = "place" /\ pc' = [pc EXCEPT ![r] = "link"]
        /\ UNCHANGED <<row, rowLead, race, clash, failed>>
        /\ leads' = leads \cup {<<"placeholder", r>>}
        /\ lead' = [lead EXCEPT ![r] = <<"placeholder", r>>]
    BY <1>4 DEF InsertPlaceholder, history, Goes
  <2>2. At("place")' = At("place") \ {r} /\ At("link")' = At("link") \cup {r} /\ r \in At("place")
    BY <2>1 DEF At
  <2>3. \A q \in At("link")' : lead'[q] = <<"placeholder", q>>
    BY <2>1, <2>2 DEF Placeholders, At
  <2>4. \A q \in Requests :
           <<"placeholder", q>> \in leads' => q = r \/ <<"placeholder", q>> \in leads
    BY <2>1
  <2> QED
    BY <2>1, <2>2, <2>3, <2>4 DEF Placeholders
<1>5. ASSUME NEW r \in Requests, LinkLead(r)
      PROVE  Placeholders'
  <2>1. /\ pc[r] = "link" /\ pc' = [pc EXCEPT ![r] = "reply"]
        /\ UNCHANGED <<row, leads, lead, race, clash, failed>>
        /\ rowLead' = IF row = Absent THEN rowLead ELSE lead[r]
    BY <1>5 DEF LinkLead, own, history, Goes
  <2>2. At("place")' = At("place") /\ At("link")' = At("link") \ {r} /\ r \in At("link")
    BY <2>1 DEF At
  <2>3. CASE row = Absent
    <3>1. r \in clash \cup failed
      BY <2>1, <2>3, RowlessAnswers DEF Answered
    <3> QED
      BY <2>1, <2>2, <2>3, <3>1 DEF Placeholders
  <2>4. CASE row # Absent
    <3>1. lead[r] = <<"placeholder", r>> /\ lead[r] # None
      <4>1. lead[r] = <<"placeholder", r>>
        BY <2>2 DEF Placeholders
      <4>2. <<"placeholder", r>> \in Leads
        BY DEF Leads, Placeholder
      <4> QED
        BY <4>1, <4>2, NoneAssumption
    <3>2. \A q \in At("place") : q \in race
      BY <2>1, <2>2 DEF Placeholders, At
    <3> QED
      BY <2>1, <2>2, <2>4, <3>1, <3>2 DEF Placeholders
  <2> QED
    BY <2>3, <2>4
<1> QED
  BY <1>1, <1>2, <1>3, <1>4, <1>5, LeadStep DEF Link

LEMMA OnePlaceholderStep ==
  ASSUME IInv, Next
  PROVE  OnePlaceholder'
<1> USE DEF IInv, TypeOK
<1>a. race \subseteq race' /\ clash \subseteq clash' /\ failed \subseteq failed'
  <2>1. CASE Aside
    BY <2>1 DEF Aside
  <2>2. ASSUME NEW r \in Requests, Opens(r)
        PROVE  race \subseteq race' /\ clash \subseteq clash' /\ failed \subseteq failed'
    BY <2>2 DEF Opens, Appends
  <2>3. ASSUME NEW r \in Requests, Link(r)
        PROVE  race \subseteq race' /\ clash \subseteq clash' /\ failed \subseteq failed'
    BY <2>3 DEF Link, LookForLead, InsertPlaceholder, LinkLead, own, history
  <2> QED
    BY <2>1, <2>2, <2>3, LeadStep
<1>1. CASE \A q \in Requests : <<"placeholder", q>> \in leads' => <<"placeholder", q>> \in leads
  BY <1>a, <1>1 DEF OnePlaceholder
<1>2. ASSUME NEW r \in Requests, InsertPlaceholder(r)
      PROVE  OnePlaceholder'
  <2>1. \A q \in Requests :
           <<"placeholder", q>> \in leads' => q = r \/ <<"placeholder", q>> \in leads
    BY <1>2 DEF InsertPlaceholder
  <2>2. r \in At("place")
    BY <1>2 DEF InsertPlaceholder, At
  <2>3. ASSUME NEW q \in Requests, q # r, <<"placeholder", q>> \in leads
        PROVE  {q, r} \cap (race \cup clash \cup failed) # {}
    <3>1. pc[q] = "link" => q \in race
      BY <2>2, <2>3 DEF Placeholders, At
    <3>2. rowLead # None => r \in race \cup clash \cup failed
      BY <2>2 DEF Placeholders
    <3>3. q \in race \cup clash \cup failed \/ pc[q] = "link" \/ rowLead # None
      BY <2>3 DEF Placeholders
    <3> QED
      BY <3>1, <3>2, <3>3
  <2> SUFFICES ASSUME NEW p \in Requests, NEW q \in Requests, p # q,
                      <<"placeholder", p>> \in leads', <<"placeholder", q>> \in leads'
               PROVE  {p, q} \cap (race \cup clash \cup failed)' # {}
    BY DEF OnePlaceholder
  <2>4. {p, q} \cap (race \cup clash \cup failed) # {}
    <3>1. CASE p = r
      BY <2>1, <2>3, <3>1
    <3>2. CASE q = r
      BY <2>1, <2>3, <3>2
    <3>3. CASE p # r /\ q # r
      BY <2>1, <3>3 DEF OnePlaceholder
    <3> QED
      BY <3>1, <3>2, <3>3
  <2> QED
    BY <1>a, <2>4
<1>3. ASSUME NEW r \in Requests, LookForLead(r) \/ LinkLead(r) \/ Opens(r)
      PROVE  leads' = leads
  BY <1>3 DEF LookForLead, LinkLead, Opens, database
<1> QED
  BY <1>1, <1>2, <1>3, LeadStep DEF Link, Aside

-----------------------------------------------------------------------------
LEMMA Initially == Init => IInv
<1> SUFFICES ASSUME Init PROVE IInv
  OBVIOUS
<1> USE DEF Init
<1>1. Transcript = <<>> /\ InFlight = {} /\ \A l \in Labels \ {"idle"} : At(l) = {}
  BY DEF Transcript, InFlight, At
<1>2. TypeOK
  <2>1. engaged \in [Requests -> BOOLEAN] /\ overlapped \in BOOLEAN
    BY Zenon
  <2> QED
    BY <2>1, NoTurns DEF TypeOK, Labels
<1>3. Seen /\ Clashes /\ NoTurnLost
  BY <1>1 DEF Seen, Clashes, NoTurnLost, Range, Answered, Labels
<1>4. Alone /\ Remembered
  BY <1>1 DEF Alone, Remembered
<1>5. Placeholders /\ OnePlaceholder
  BY <1>1 DEF Placeholders, OnePlaceholder, Labels
<1> QED
  BY <1>2, <1>3, <1>4, <1>5 DEF IInv

LEMMA Stutters ==
  ASSUME IInv, UNCHANGED vars
  PROVE  IInv'
<1> USE DEF vars, database, own, history
<1>1. TypeOK'
  BY DEF IInv, TypeOK
<1>2. UNCHANGED <<Transcript, InFlight>> /\ \A l : At(l)' = At(l)
  BY DEF Transcript, InFlight, At
<1>3. Seen' /\ Clashes' /\ NoTurnLost'
  BY DEF IInv, Seen, Clashes, NoTurnLost, Words, Answered, Transcript, At
<1>4. Alone' /\ Remembered'
  BY <1>2 DEF IInv, Alone, Remembered
<1>5. Placeholders' /\ OnePlaceholder'
  BY DEF IInv, Placeholders, OnePlaceholder, At
<1> QED
  BY <1>1, <1>3, <1>4, <1>5 DEF IInv

\* The conjuncts of IInv hold initially and every step of every request keeps
\* them together.
THEOREM Inductive == Spec => []IInv
<1>1. Init => IInv
  BY Initially
<1>2. IInv /\ [Next]_vars => IInv'
  <2>1. ASSUME IInv, Next
        PROVE  IInv'
    BY <2>1, TypeOKStep, SeenStep, ClashesStep, NoTurnLostStep, AloneStep, RememberedStep,
       PlaceholdersStep, OnePlaceholderStep DEF IInv
  <2> QED
    BY <2>1, Stutters
<1> QED
  BY <1>1, <1>2, PTL DEF Spec

\* The state of a session keeps its types, and a lead_id that a request, the
\* row or the client knows is that of a lead that was inserted.
THEOREM TypeCorrect == Spec => []TypeOK
BY Inductive, PTL DEF IInv

\* A turn that was answered is in the conversation's transcript unless saving it
\* failed or another request was between reading the transcript and writing it
\* at the same time (_persist_turn).
THEOREM TurnsAreKept == Spec => []NoTurnLost
BY Inductive, PTL DEF IInv

\* In a session whose requests come one after the other and do not fail, the
\* history each is answered with is the end of the transcript, whether the cache
\* had it or had expired.
THEOREM SessionIsRemembered == Spec => []RemembersSession
<1>1. IInv => RemembersSession
  BY DEF IInv, Remembered, RemembersSession, At
<1> QED
  BY <1>1, Inductive, PTL

\* Two placeholder leads of a conversation come from a race of
\* _get_or_create_session_lead, a clash of writes or a failure, and from nothing
\* else.
THEOREM PlaceholderIsLinked == Spec => []OnePlaceholder
BY Inductive, PTL DEF IInv
=============================================================================
