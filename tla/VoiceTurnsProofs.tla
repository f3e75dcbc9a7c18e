--------------------------- MODULE VoiceTurnsProofs ---------------------------
(****************************************************************************)
(* Proofs about VoiceTurns, for any calls, any lengths of the windows and   *)
(* any number of utterances and chunks of audio: greeting, replies and      *)
(* goodbye are each heard in one piece, every utterance is in one turn, in  *)
(* order, no turn is held for longer than COALESCE_MAX, and the assistant   *)
(* answers of its own words only those whose text SpokenLog has pruned.     *)
(*                                                                          *)
(* Four arguments, which meet in IInv.  The lock: who speaks holds it, and  *)
(* lets go of it only when done (Locked, Spoken).  The order: utterances    *)
(* only ever move to the next of three sequences, each above the last       *)
(* (InOrder, Everywhere).  The deadline: age and what is left of it add up  *)
(* (Held).  The echo: audio in Twilio's buffer is covered by                *)
(* _playing_until, so that what is heard of it is queued, and taken, within *)
(* the tail (Heeded), and known for an echo unless its text was pruned,     *)
(* which cannot be undone (Unanswered).                                     *)
(****************************************************************************)
EXTENDS VoiceTurns, TLAPS

\* No two places of a sequence have the same; each is greater than the one before.
Once(s) == \A i, j \in DOMAIN s : s[i] = s[j] => i = j
Rising(s) == \A i, j \in DOMAIN s : i < j => s[i] < s[j]
\* In order, and nothing behind the sentinel.
Ended(s) == \A i, j \in DOMAIN s : i < j => s[i] # 0 /\ (s[j] # 0 => s[i] < s[j])

\* The lock has each of its three users once at most, and who speaks has it.
Locked ==
    /\ Once(line)
    /\ "reply" \in SetOf(line) <=> pump \in {"turn", "speak"}
    /\ "greet" \in SetOf(line) <=> greet \in {"line", "speak"}
    /\ "close" \in SetOf(line) <=> close = "line"
    /\ pump = "speak"  => Holds("reply")
    /\ greet = "speak" => Holds("greet")

\* Who has not had the lock has said nothing; who has it spoke last, if at all.
Spoken ==
    /\ NeverInterleaved
    /\ Greeting \in SetOf(out) => greet \in {"speak", "done"}
    /\ Goodbye \in SetOf(out) => close \in {"sleep", "hangup", "done"}
    /\ \A w \in SetOf(out) : w # Goodbye => w <= turn
    /\ pump = "turn" => turn \notin SetOf(out)
    /\ pump = "speak" /\ turn \in SetOf(out) => out[Len(out)] = turn
    /\ greet = "speak" => out # <<>> /\ out[Len(out)] = Greeting

\* Utterances keep their order from the queue to the turns, the sentinel is last,
\* and every reply answers at least one.
InOrder ==
    /\ Rising(answered) /\ Rising(parts) /\ Ended(queue)
    /\ \A a \in SetOf(answered) : \A p \in SetOf(parts) : a < p
    /\ \A a \in SetOf(answered) \cup SetOf(parts) : \A q \in SetOf(queue) : q # 0 => a < q
    /\ \A a \in SetOf(answered) \cup SetOf(parts) \cup SetOf(queue) : a <= heard
    /\ sttUp => 0 \notin SetOf(queue)
    /\ parts # <<>> <=> pump = "gather"
    /\ turn = 0 \/ \E a \in SetOf(answered) : turn <= a
    /\ pump \in {"turn", "speak"} => turn > 0

\* No utterance is lost.
Everywhere ==
    \A n \in 1..heard :
        \/ n \in SetOf(answered) \/ n \in SetOf(parts) \/ n \in SetOf(queue)
        \/ n \in ours \/ n \in merged

\* Deepgram is hearing words only while the caller's are not used up.
Bounded == heard <= call.heard /\ (live # "none" => heard < call.heard)

\* Whenever our own words can be on their way to the pump, or lie in the queue it
\* is about to take from, the tail in which it recognises them is not over.
Heeded ==
    /\ until > 0 => lag = 0
    /\ \A n \in ours : n <= heard
    /\ ~blind =>
        /\ Len(buffer) <= until
        /\ live = "ours" => InWindow
        /\ pump = "speak" /\ chunks > 0 => InWindow
        /\ pump = "save" => InWindow
        /\ \/ \A n \in SetOf(queue) : n \notin ours
           \/ InWindow
           \/ pump \in {"turn", "off"}
           \/ pump = "speak" /\ chunks = 0

\* Our own words are in a turn only if their text was pruned before it was taken.
Unanswered ==
    ~blind => \A n \in SetOf(answered) \cup SetOf(parts) : n \in ours => Pruned(n)

\* The deadline is set once, with the first part.
Held == IF pump = "gather" THEN age + left = MaxHold ELSE age = 0

IInv ==
    /\ TypeOK
    /\ Locked
    /\ Spoken
    /\ InOrder
    /\ Everywhere
    /\ Bounded
    /\ Heeded
    /\ Unanswered
    /\ Held

-----------------------------------------------------------------------------
(* Sequences *)

LEMMA SetOfEmpty == SetOf(<<>>) = {}
BY DEF SetOf

LEMMA SetOfAppend ==
  ASSUME NEW S, NEW s \in Seq(S), NEW e \in S
  PROVE  /\ Append(s, e) \in Seq(S) /\ SetOf(Append(s, e)) = SetOf(s) \cup {e}
         /\ Append(s, e) # <<>> /\ Len(Append(s, e)) = Len(s) + 1
         /\ Append(s, e)[Len(s) + 1] = e
         /\ DOMAIN s = 1..Len(s) /\ DOMAIN Append(s, e) = 1..(Len(s) + 1)
         /\ \A i \in 1..Len(s) : Append(s, e)[i] = s[i]
<1>1. /\ Append(s, e) \in Seq(S) /\ Append(s, e) # <<>> /\ Len(Append(s, e)) = Len(s) + 1
      /\ Append(s, e)[Len(s) + 1] = e /\ Len(s) \in Nat
      /\ DOMAIN s = 1..Len(s) /\ DOMAIN Append(s, e) = 1..(Len(s) + 1)
      /\ \A i \in 1..Len(s) : Append(s, e)[i] = s[i]
  OBVIOUS
<1>2. \A i \in 1..(Len(s) + 1) : i \in 1..Len(s) \/ i = Len(s) + 1
  BY <1>1
<1>3. 1..Len(s) \subseteq 1..(Len(s) + 1) /\ Len(s) + 1 \in 1..(Len(s) + 1)
  BY <1>1
<1>4. SetOf(Append(s, e)) = SetOf(s) \cup {e}
  BY <1>1, <1>2, <1>3 DEF SetOf
<1> QED
  BY <1>1, <1>4

LEMMA SetOfTail ==
  ASSUME NEW S, NEW s \in Seq(S), s # <<>>
  PROVE  /\ Tail(s) \in Seq(S) /\ SetOf(s) = {Head(s)} \cup SetOf(Tail(s)) /\ Head(s) \in S
         /\ Head(s) = s[1] /\ Len(s) \in Nat \ {0} /\ Len(Tail(s)) = Len(s) - 1
         /\ DOMAIN s = 1..Len(s) /\ DOMAIN Tail(s) = 1..(Len(s) - 1)
         /\ \A i \in 1..(Len(s) - 1) : Tail(s)[i] = s[i + 1]
<1>1. /\ Tail(s) \in Seq(S) /\ Head(s) = s[1] /\ Head(s) \in S
      /\ Len(s) \in Nat \ {0} /\ Len(Tail(s)) = Len(s) - 1
      /\ DOMAIN s = 1..Len(s) /\ DOMAIN Tail(s) = 1..(Len(s) - 1)
      /\ \A i \in 1..(Len(s) - 1) : Tail(s)[i] = s[i + 1]
  OBVIOUS
<1>2. \A i \in 1..Len(s) : i = 1 \/ (i - 1 \in 1..(Len(s) - 1) /\ i = (i - 1) + 1)
  BY <1>1
<1>3. \A i \in 1..(Len(s) - 1) : i + 1 \in 1..Len(s)
  BY <1>1
<1>4. ASSUME NEW x \in SetOf(s) PROVE x \in {Head(s)} \cup SetOf(Tail(s))
  <2>1. PICK i \in 1..Len(s) : x = s[i]
    BY <1>1 DEF SetOf
  <2>2. CASE i = 1
    BY <1>1, <2>1, <2>2
  <2>3. CASE i - 1 \in 1..(Len(s) - 1) /\ i = (i - 1) + 1
    <3>1. Tail(s)[i - 1] = x
      BY <1>1, <2>1, <2>3
    <3> QED
      BY <1>1, <3>1, <2>3 DEF SetOf
  <2> QED
    BY <1>2, <2>2, <2>3
<1>5. ASSUME NEW x \in SetOf(Tail(s)) PROVE x \in SetOf(s)
  <2>1. PICK i \in 1..(Len(s) - 1) : x = Tail(s)[i]
    BY <1>1 DEF SetOf
  <2>2. s[i + 1] = x /\ i + 1 \in 1..Len(s)
    BY <1>1, <1>3, <2>1
  <2> QED
    BY <1>1, <2>2 DEF SetOf
<1>6. Head(s) \in SetOf(s)
  BY <1>1 DEF SetOf
<1>7. SetOf(s) = {Head(s)} \cup SetOf(Tail(s))
  BY <1>4, <1>5, <1>6
<1> QED
  BY <1>1, <1>7

LEMMA SetOfConcat ==
  ASSUME NEW S, NEW s \in Seq(S), NEW t \in Seq(S)
  PROVE  /\ s \o t \in Seq(S) /\ SetOf(s \o t) = SetOf(s) \cup SetOf(t)
         /\ DOMAIN s = 1..Len(s) /\ DOMAIN t = 1..Len(t) /\ Len(s) \in Nat /\ Len(t) \in Nat
         /\ DOMAIN (s \o t) = 1..(Len(s) + Len(t)) /\ Len(s \o t) = Len(s) + Len(t)
         /\ \A i \in 1..(Len(s) + Len(t)) :
               (s \o t)[i] = IF i <= Len(s) THEN s[i] ELSE t[i - Len(s)]
<1>1. /\ s \o t \in Seq(S) /\ Len(s) \in Nat /\ Len(t) \in Nat
      /\ DOMAIN s = 1..Len(s) /\ DOMAIN t = 1..Len(t)
      /\ DOMAIN (s \o t) = 1..(Len(s) + Len(t)) /\ Len(s \o t) = Len(s) + Len(t)
      /\ \A i \in 1..(Len(s) + Len(t)) :
            (s \o t)[i] = IF i <= Len(s) THEN s[i] ELSE t[i - Len(s)]
  OBVIOUS
<1>2. \A i \in 1..(Len(s) + Len(t)) :
         i \in 1..Len(s) \/ (i - Len(s) \in 1..Len(t) /\ ~ i <= Len(s))
  BY <1>1
<1>3. /\ \A i \in 1..Len(s) : i \in 1..(Len(s) + Len(t)) /\ i <= Len(s)
      /\ \A i \in 1..Len(t) : /\ i + Len(s) \in 1..(Len(s) + Len(t)) /\ ~ i + Len(s) <= Len(s)
                              /\ (i + Len(s)) - Len(s) = i
  BY <1>1
<1>4. ASSUME NEW x \in SetOf(s \o t) PROVE x \in SetOf(s) \cup SetOf(t)
  <2>1. PICK i \in 1..(Len(s) + Len(t)) : x = (s \o t)[i]
    BY <1>1 DEF SetOf
  <2>2. CASE i \in 1..Len(s)
    <3>1. x = s[i]
      BY <1>1, <2>1, <2>2
    <3> QED
      BY <1>1, <2>2, <3>1 DEF SetOf
  <2>3. CASE i - Len(s) \in 1..Len(t) /\ ~ i <= Len(s)
    <3>1. x = t[i - Len(s)]
      BY <1>1, <2>1, <2>3
    <3> QED
      BY <1>1, <2>3, <3>1 DEF SetOf
  <2> QED
    BY <1>2, <2>2, <2>3
<1>5. ASSUME NEW x \in SetOf(s) PROVE x \in SetOf(s \o t)
  <2>1. PICK i \in 1..Len(s) : x = s[i]
    BY <1>1 DEF SetOf
  <2>2. i \in 1..(Len(s) + Len(t)) /\ (s \o t)[i] = x
    BY <1>1, <1>3, <2>1
  <2> QED
    BY <1>1, <2>2 DEF SetOf
<1>6. ASSUME NEW x \in SetOf(t) PROVE x \in SetOf(s \o t)
  <2>1. PICK i \in 1..Len(t) : x = t[i]
    BY <1>1 DEF SetOf
  <2>2. i + Len(s) \in 1..(Len(s) + Len(t)) /\ (s \o t)[i + Len(s)] = x
    BY <1>1, <1>3, <2>1
  <2> QED
    BY <1>1, <2>2 DEF SetOf
<1>7. SetOf(s \o t) = SetOf(s) \cup SetOf(t)
  BY <1>4, <1>5, <1>6
<1> QED
  BY <1>1, <1>7

LEMMA OnceAppend ==
  ASSUME NEW S, NEW s \in Seq(S), NEW e \in S, Once(s), e \notin SetOf(s)
  PROVE  Once(Append(s, e))
<1>1. \A i \in 1..(Len(s) + 1) : i \in 1..Len(s) \/ i = Len(s) + 1
  OBVIOUS
<1>2. \A i \in 1..Len(s) : s[i] # e
  BY DEF SetOf
<1> QED
  BY <1>1, <1>2, SetOfAppend DEF Once

LEMMA OnceTail ==
  ASSUME NEW S, NEW s \in Seq(S), s # <<>>, Once(s)
  PROVE  Once(Tail(s)) /\ Head(s) \notin SetOf(Tail(s))
<1>1. \A i \in 1..(Len(s) - 1) : i + 1 \in 1..Len(s) /\ i + 1 # 1 /\ Tail(s)[i] = s[i + 1]
  BY SetOfTail
<1>2. /\ DOMAIN s = 1..Len(s) /\ DOMAIN Tail(s) = 1..(Len(s) - 1)
      /\ Head(s) = s[1] /\ 1 \in 1..Len(s)
  BY SetOfTail
<1>3. Once(Tail(s))
  BY <1>1, <1>2 DEF Once
<1>4. \A i \in 1..(Len(s) - 1) : Tail(s)[i] # Head(s)
  BY <1>1, <1>2 DEF Once
<1> QED
  BY <1>2, <1>3, <1>4 DEF SetOf

LEMMA RisingAppend ==
  ASSUME NEW s \in Seq(Nat), NEW e \in Nat, Rising(s), \A x \in SetOf(s) : x < e
  PROVE  Rising(Append(s, e))
<1>1. \A i \in 1..(Len(s) + 1) : i \in 1..Len(s) \/ i = Len(s) + 1
  OBVIOUS
<1>2. \A i \in 1..Len(s) : s[i] < e
  BY DEF SetOf
<1>3. \A i, j \in 1..(Len(s) + 1) : i < j => i \in 1..Len(s)
  OBVIOUS
<1> QED
  BY <1>1, <1>2, <1>3, SetOfAppend DEF Rising

LEMMA EndedAppend ==
  ASSUME NEW s \in Seq(Nat), NEW e \in Nat, Ended(s), 0 \notin SetOf(s),
         e # 0 => \A x \in SetOf(s) : x < e
  PROVE  Ended(Append(s, e))
<1>1. \A i \in 1..(Len(s) + 1) : i \in 1..Len(s) \/ i = Len(s) + 1
  OBVIOUS
<1>2. \A i \in 1..Len(s) : s[i] # 0 /\ (e # 0 => s[i] < e)
  BY DEF SetOf
<1>3. \A i, j \in 1..(Len(s) + 1) : i < j => i \in 1..Len(s)
  OBVIOUS
<1> QED
  BY <1>1, <1>2, <1>3, SetOfAppend DEF Ended

LEMMA EndedTail ==
  ASSUME NEW s \in Seq(Nat), s # <<>>, Ended(s)
  PROVE  /\ Ended(Tail(s))
         /\ Head(s) = 0 => Tail(s) = <<>>
         /\ \A x \in SetOf(Tail(s)) : x # 0 => Head(s) < x
<1>1. \A i \in 1..(Len(s) - 1) : i + 1 \in 1..Len(s) /\ 1 < i + 1 /\ Tail(s)[i] = s[i + 1]
  BY SetOfTail
<1>2. /\ DOMAIN s = 1..Len(s) /\ DOMAIN Tail(s) = 1..(Len(s) - 1) /\ Head(s) = s[1]
      /\ 1 \in 1..Len(s) /\ Len(s) \in Nat \ {0} /\ Len(Tail(s)) = Len(s) - 1
  BY SetOfTail
<1>3. \A i, j \in 1..(Len(s) - 1) : i < j => i + 1 < j + 1
  OBVIOUS
<1>4. Ended(Tail(s))
  BY <1>1, <1>2, <1>3 DEF Ended
<1>5. \A i \in 1..(Len(s) - 1) : Head(s) # 0 /\ (Tail(s)[i] # 0 => Head(s) < Tail(s)[i])
  BY <1>1, <1>2 DEF Ended
<1>6. Head(s) = 0 => Tail(s) = <<>>
  <2>1. Head(s) = 0 => Len(s) - 1 = 0
    <3>1. Len(s) - 1 # 0 => 1 \in 1..(Len(s) - 1)
      BY <1>2
    <3> QED
      BY <1>5, <3>1
  <2>2. Tail(s) \in Seq(Nat)
    BY SetOfTail
  <2> QED
    BY <2>1, <2>2, <1>2
<1> QED
  BY <1>2, <1>4, <1>5, <1>6 DEF SetOf

LEMMA RisingConcat ==
  ASSUME NEW s \in Seq(Nat), NEW t \in Seq(Nat), Rising(s), Rising(t),
         \A x \in SetOf(s) : \A y \in SetOf(t) : x < y
  PROVE  Rising(s \o t)
<1>1. \A i \in 1..(Len(s) + Len(t)) :
         i \in 1..Len(s) \/ (i - Len(s) \in 1..Len(t) /\ ~ i <= Len(s))
  OBVIOUS
<1>2. \A i \in 1..Len(s) : \A j \in 1..Len(t) : s[i] < t[j]
  BY DEF SetOf
<1>3. ASSUME NEW i \in 1..(Len(s) + Len(t)), NEW j \in 1..(Len(s) + Len(t)), i < j
      PROVE  (s \o t)[i] < (s \o t)[j]
  <2>1. CASE i \in 1..Len(s) /\ j \in 1..Len(s)
    BY <1>3, <2>1, SetOfConcat DEF Rising
  <2>2. CASE i \in 1..Len(s) /\ j - Len(s) \in 1..Len(t) /\ ~ j <= Len(s)
    BY <1>2, <2>2, SetOfConcat
  <2>3. CASE /\ i - Len(s) \in 1..Len(t) /\ ~ i <= Len(s)
             /\ j - Len(s) \in 1..Len(t) /\ ~ j <= Len(s)
    <3>1. i - Len(s) < j - Len(s)
      BY <1>3
    <3> QED
      BY <2>3, <3>1, SetOfConcat DEF Rising
  <2>4. i \in 1..Len(s) \/ ~ j \in 1..Len(s)
    BY <1>3
  <2> QED
    BY <1>1, <2>1, <2>2, <2>3, <2>4
<1> QED
  BY <1>3, SetOfConcat DEF Rising

-----------------------------------------------------------------------------
(* Who has the lock *)

Users == {"reply", "greet", "close"}

LEMMA LineGrows ==
  ASSUME line \in Seq(Users), Once(line), NEW x \in Users, x \notin SetOf(line), Waits(x)
  PROVE  /\ Once(line') /\ SetOf(line') = SetOf(line) \cup {x}
         /\ \A w \in Users : Holds(w) => Holds(w)'
<1>1. line # <<>> => line' # <<>> /\ Head(line') = Head(line)
  BY DEF Waits
<1>2. Once(line') /\ SetOf(line') = SetOf(line) \cup {x}
  BY OnceAppend, SetOfAppend DEF Waits
<1> QED
  BY <1>1, <1>2 DEF Holds

LEMMA LineMoves ==
  ASSUME line \in Seq(Users), Once(line), NEW x \in Users, Holds(x), Releases
  PROVE  Once(line') /\ SetOf(line') = SetOf(line) \ {x} /\ x \in SetOf(line)
<1> USE DEF Holds, Releases
<1>1. Once(Tail(line)) /\ Head(line) \notin SetOf(Tail(line))
  BY OnceTail
<1>2. SetOf(line) = {Head(line)} \cup SetOf(Tail(line))
  BY SetOfTail
<1> QED
  BY <1>1, <1>2

LEMMA LockedStep ==
  ASSUME IInv, Next
  PROVE  Locked'
<1>i. Locked /\ Once(line) /\ line \in Seq(Users) /\ InOrder
  BY DEF IInv, Locked, TypeOK, Users
<1>same. UNCHANGED <<line, pump, greet, close>> => Locked'
  BY <1>i DEF Locked, Holds
<1>reply. Waits("reply") /\ pump = "gather" /\ pump' = "turn" /\ UNCHANGED <<greet, close>>
            => Locked'
  BY <1>i, LineGrows DEF Locked, Users
<1>1. CASE Stt
  BY <1>1, <1>same DEF Stt, SpeechStarts, Delivered, SttEnds, Words, turnVars, floor, tasks
<1>2. CASE TakePart
  <2>1. pump \in {"wait", "gather"} /\ pump' = "gather" /\ UNCHANGED <<line, greet, close>>
    BY <1>2 DEF TakePart, floor, tasks
  <2> QED
    BY <1>i, <2>1 DEF Locked, Holds
<1>3. CASE TakeEcho
  BY <1>3, <1>same DEF TakeEcho, floor, tasks
<1>4. CASE TakeSentinel
  <2>1. CASE pump = "gather"
    <3>1. Waits("reply") /\ pump' = "turn" /\ UNCHANGED <<greet, close>>
      BY <1>4, <2>1 DEF TakeSentinel, Gathered, tasks
    <3> QED
      BY <2>1, <3>1, <1>reply
  <2>2. CASE pump # "gather"
    <3>1. pump = "wait" /\ pump' = "off" /\ UNCHANGED <<line, greet, close>>
      BY <1>4, <2>2 DEF TakeSentinel, tasks
    <3> QED
      BY <1>i, <3>1 DEF Locked, Holds
  <2> QED
    BY <2>1, <2>2
<1>5. CASE WindowCloses
  <2>1. pump = "gather" /\ Waits("reply") /\ pump' = "turn" /\ UNCHANGED <<greet, close>>
    BY <1>5 DEF WindowCloses, Gathered, tasks
  <2> QED
    BY <2>1, <1>reply
<1>6. CASE IdleEnds
  <2>1. pump = "wait" /\ pump' = "off" /\ UNCHANGED <<line, greet, close>>
    BY <1>6 DEF IdleEnds, floor, tasks
  <2> QED
    BY <1>i, <2>1 DEF Locked, Holds
<1>7. CASE ReplyBegins
  <2>1. pump = "turn" /\ Holds("reply") /\ pump' = "speak" /\ UNCHANGED <<line, greet, close>>
    BY <1>7 DEF ReplyBegins, tasks
  <2> QED
    BY <1>i, <2>1 DEF Locked, Holds
<1>8. CASE ReplyAudio
  BY <1>8, <1>same DEF ReplyAudio, turnVars, tasks
<1>yields. pump = "speak" /\ Releases /\ pump' \in {"save", "off"} /\ UNCHANGED <<greet, close>>
            => Locked'
  <2> SUFFICES ASSUME pump = "speak", Releases, pump' \in {"save", "off"},
                      UNCHANGED <<greet, close>>
               PROVE  Locked'
    OBVIOUS
  <2>1. Holds("reply") /\ greet # "speak"
    BY <1>i DEF Locked, Holds
  <2>2. Once(line') /\ SetOf(line') = SetOf(line) \ {"reply"}
    BY <1>i, <2>1, LineMoves DEF Users
  <2> QED
    BY <1>i, <2>1, <2>2 DEF Locked
<1>9. CASE BargeIn
  BY <1>9, <1>yields DEF BargeIn, tasks
<1>10. CASE ReplyEnds
  BY <1>10, <1>yields DEF ReplyEnds, tasks
<1>11. CASE Saved
  <2>1. pump = "save" /\ pump' = "wait" /\ UNCHANGED <<line, greet, close>>
    BY <1>11 DEF Saved, floor, tasks
  <2> QED
    BY <1>i, <2>1 DEF Locked, Holds
<1>12. CASE PumpDies
  <2>1. CASE pump = "speak"
    BY <1>12, <2>1, <1>yields DEF PumpDies, tasks
  <2>2. CASE pump = "save"
    <3>1. pump' = "off" /\ UNCHANGED <<line, greet, close>>
      BY <1>12, <2>2 DEF PumpDies, tasks
    <3> QED
      BY <1>i, <2>2, <3>1 DEF Locked, Holds
  <2> QED
    BY <1>12, <2>1, <2>2 DEF PumpDies
<1>13. CASE GreetAsks
  <2>1. greet = "built" /\ greet' = "line" /\ Waits("greet") /\ UNCHANGED <<pump, close>>
    BY <1>13 DEF GreetAsks, turnVars
  <2> QED
    BY <1>i, <2>1, LineGrows DEF Locked, Users
<1>14. CASE GreetAudio
  <2>1. /\ greet \in {"line", "speak"} /\ Holds("greet") /\ greet' = "speak"
        /\ UNCHANGED <<line, pump, close>>
    BY <1>14 DEF GreetAudio, turnVars
  <2> QED
    BY <1>i, <2>1 DEF Locked, Holds
<1>greeted. ASSUME greet \in {"line", "speak"}, Holds("greet"), greet' = "done",
                   Releases, UNCHANGED <<pump, close>>
            PROVE  Locked'
  <2>1. pump # "speak"
    BY <1>i, <1>greeted DEF Locked, Holds
  <2>2. Once(line') /\ SetOf(line') = SetOf(line) \ {"greet"}
    BY <1>i, <1>greeted, LineMoves DEF Users
  <2> QED
    BY <1>i, <1>greeted, <2>1, <2>2 DEF Locked
<1>15. CASE GreetEnds
  BY <1>15, <1>greeted DEF GreetEnds, turnVars
<1>16. CASE GreetFallback
  BY <1>16, <1>greeted DEF GreetFallback, turnVars
<1>17. CASE LimitReached
  <2>1. CASE close' = "line" /\ Waits("close")
    <3>1. close = "armed" /\ UNCHANGED <<pump, greet>>
      BY <1>17 DEF LimitReached, turnVars
    <3> QED
      BY <1>i, <2>1, <3>1, LineGrows DEF Locked, Users
  <2>2. CASE close' = "hangup" /\ UNCHANGED line
    <3>1. close = "armed" /\ UNCHANGED <<pump, greet>>
      BY <1>17 DEF LimitReached, turnVars
    <3> QED
      BY <1>i, <2>2, <3>1 DEF Locked, Holds
  <2> QED
    BY <1>17, <2>1, <2>2 DEF LimitReached
<1>18. CASE CloseSpeaks
  <2>1. /\ close = "line" /\ Holds("close") /\ close' = "sleep" /\ Releases
        /\ UNCHANGED <<pump, greet>>
    BY <1>18 DEF CloseSpeaks, turnVars
  <2>2. pump # "speak" /\ greet # "speak"
    BY <1>i, <2>1 DEF Locked, Holds
  <2>3. Once(line') /\ SetOf(line') = SetOf(line) \ {"close"}
    BY <1>i, <2>1, LineMoves DEF Users
  <2> QED
    BY <1>i, <2>1, <2>2, <2>3 DEF Locked
<1>19. CASE NapOver
  <2>1. close = "sleep" /\ close' = "hangup" /\ UNCHANGED <<line, pump, greet>>
    BY <1>19 DEF NapOver, turnVars, floor
  <2> QED
    BY <1>i, <2>1 DEF Locked, Holds
<1>20. CASE HangUp
  <2>1. close = "hangup" /\ close' = "done" /\ UNCHANGED <<line, pump, greet>>
    BY <1>20 DEF HangUp, turnVars, floor
  <2> QED
    BY <1>i, <2>1 DEF Locked, Holds
<1>21. CASE Tick
  BY <1>21, <1>same DEF Tick, floor
<1> QED
  BY <1>1, <1>2, <1>3, <1>4, <1>5, <1>6, <1>7, <1>8, <1>9, <1>10, <1>11, <1>12, <1>13, <1>14,
     <1>15, <1>16, <1>17, <1>18, <1>19, <1>20, <1>21
  DEF Next, Turns, Reply, Greet, Close

-----------------------------------------------------------------------------
(* Who has spoken *)

LEMMA Sends ==
  ASSUME out \in Seq(Speakers), Once(out), NEW who \in Speakers, NEW n, Send(who, n),
         who \in SetOf(out) => out # <<>> /\ out[Len(out)] = who
  PROVE  /\ Once(out') /\ SetOf(out') = SetOf(out) \cup {who}
         /\ out' \in Seq(Speakers) /\ out' # <<>> /\ out'[Len(out')] = who
<1>1. CASE out # <<>> /\ out[Len(out)] = who
  <2>1. out' = out
    BY <1>1 DEF Send
  <2>2. Len(out) \in DOMAIN out
    BY <1>1
  <2>3. who \in SetOf(out)
    BY <1>1, <2>2 DEF SetOf
  <2> QED
    BY <1>1, <2>1, <2>3
<1>2. CASE ~(out # <<>> /\ out[Len(out)] = who)
  <2>1. out' = Append(out, who) /\ who \notin SetOf(out)
    BY <1>2 DEF Send
  <2> QED
    BY <2>1, OnceAppend, SetOfAppend
<1> QED
  BY <1>1, <1>2

\* A turn that is gathered has an utterance behind every one that was answered.
LEMMA TurnBehind ==
  ASSUME IInv, pump = "gather"
  PROVE  /\ \E p \in SetOf(parts) : turn + 1 <= p
         /\ turn + 1 \in 1..MaxHeard
<1>1. /\ parts \in Seq(1..MaxHeard) /\ parts # <<>> /\ turn \in 0..MaxHeard /\ MaxHeard \in Nat
      /\ answered \in Seq(1..MaxHeard)
  BY BoundAssumption DEF IInv, TypeOK, InOrder
<1>2. Head(parts) \in 1..MaxHeard /\ Head(parts) \in SetOf(parts)
  BY <1>1, SetOfTail
<1>3. CASE turn = 0
  BY <1>1, <1>2, <1>3
<1>4. CASE \E a \in SetOf(answered) : turn <= a
  <2>1. PICK a \in SetOf(answered) : turn <= a
    BY <1>4
  <2>2. a < Head(parts)
    BY <1>2 DEF IInv, InOrder
  <2>3. a \in 1..MaxHeard
    BY <1>1 DEF SetOf
  <2>4. turn + 1 <= Head(parts) /\ turn + 1 \in 1..MaxHeard
    BY <1>1, <1>2, <2>1, <2>2, <2>3
  <2> QED
    BY <1>2, <2>4
<1> QED
  BY <1>3, <1>4 DEF IInv, InOrder

LEMMA SpokenStep ==
  ASSUME IInv, Next
  PROVE  Spoken'
<1>i. /\ Spoken /\ Locked /\ Once(out) /\ out \in Seq(Speakers)
      /\ turn \in 0..MaxHeard /\ MaxHeard \in Nat
      /\ pump \in {"turn", "speak"} => turn > 0
  BY BoundAssumption DEF IInv, Spoken, NeverInterleaved, Once, TypeOK, InOrder
<1>set. SetOf(out) \subseteq 0..(MaxHeard + 1)
  BY <1>i DEF SetOf, Speakers
<1>same. UNCHANGED <<out, turn, pump, greet, close>> => Spoken'
  BY <1>i DEF Spoken, NeverInterleaved, SetOf
<1>move. ASSUME pump' \notin {"turn", "speak"}, UNCHANGED <<out, turn, greet, close>>
         PROVE  Spoken'
  BY <1>i, <1>move DEF Spoken, NeverInterleaved, SetOf
<1>reply. ASSUME pump = "gather", turn' = turn + 1, pump' = "turn",
                 UNCHANGED <<out, greet, close>>
          PROVE  Spoken'
  <2>1. turn + 1 \in 1..MaxHeard
    BY <1>reply, TurnBehind
  <2>2. \A w \in SetOf(out) : w # Goodbye => w <= turn /\ w <= turn + 1 /\ w # turn + 1
    BY <1>i, <1>set DEF Spoken
  <2>3. turn + 1 # Goodbye
    BY <2>1, <1>i DEF Goodbye
  <2>4. SetOf(out)' = SetOf(out) /\ NeverInterleaved'
    BY <1>i, <1>reply DEF Spoken, NeverInterleaved, SetOf
  <2> QED
    BY <1>i, <1>reply, <2>2, <2>3, <2>4 DEF Spoken
<1>1. CASE Stt
  BY <1>1, <1>same DEF Stt, SpeechStarts, Delivered, SttEnds, Words, turnVars, gathering, tasks,
                       sound, air
<1>2. CASE TakePart
  BY <1>2, <1>move DEF TakePart, tasks, sound, air
<1>3. CASE TakeEcho
  BY <1>3, <1>same DEF TakeEcho, tasks, sound, air
<1>4. CASE TakeSentinel
  <2>1. CASE pump = "gather"
    BY <1>4, <2>1, <1>reply DEF TakeSentinel, Gathered, tasks, sound, air
  <2>2. CASE pump # "gather"
    BY <1>4, <2>2, <1>move DEF TakeSentinel, gathering, tasks, sound, air
  <2> QED
    BY <2>1, <2>2
<1>5. CASE WindowCloses
  BY <1>5, <1>reply DEF WindowCloses, Gathered, tasks, sound, air
<1>6. CASE IdleEnds
  BY <1>6, <1>move DEF IdleEnds, gathering, tasks, sound, air
<1>7. CASE ReplyBegins
  <2>1. pump = "turn" /\ pump' = "speak" /\ UNCHANGED <<out, turn, greet, close>>
    BY <1>7 DEF ReplyBegins, gathering, tasks, sound, air
  <2>2. SetOf(out)' = SetOf(out) /\ NeverInterleaved'
    BY <1>i, <2>1 DEF Spoken, NeverInterleaved, SetOf
  <2> QED
    BY <1>i, <2>1, <2>2 DEF Spoken
<1>8. CASE ReplyAudio
  <2>1. pump = "speak" /\ (\E n : Send(turn, n)) /\ UNCHANGED <<turn, pump, greet, close>>
    BY <1>8 DEF ReplyAudio, SendNoted, turnVars, gathering, tasks
  <2>2. turn \in 1..MaxHeard /\ turn \in Speakers /\ turn # Greeting /\ turn # Goodbye
    BY <1>i, <2>1 DEF Speakers, Greeting, Goodbye
  <2>3. greet # "speak"
    BY <1>i, <2>1 DEF Locked, Holds
  <2>4. turn \in SetOf(out) => out # <<>> /\ out[Len(out)] = turn
    BY <1>i, <2>1, SetOfEmpty DEF Spoken
  <2>5. Once(out') /\ SetOf(out') = SetOf(out) \cup {turn} /\ out'[Len(out')] = turn
    BY <1>i, <2>1, <2>2, <2>4, Sends
  <2>6. NeverInterleaved'
    BY <2>5 DEF NeverInterleaved, Once
  <2>7. \A w \in SetOf(out') : w # Goodbye => w <= turn
    BY <1>i, <2>2, <2>5 DEF Spoken
  <2> QED
    BY <1>i, <2>1, <2>2, <2>3, <2>5, <2>6, <2>7 DEF Spoken
<1>9. CASE BargeIn
  BY <1>9, <1>move DEF BargeIn, Clear, gathering, tasks
<1>10. CASE ReplyEnds
  BY <1>10, <1>move DEF ReplyEnds, gathering, tasks
<1>11. CASE Saved
  BY <1>11, <1>move DEF Saved, tasks, sound, air
<1>12. CASE PumpDies
  BY <1>12, <1>move DEF PumpDies, gathering, tasks, sound, air
<1>13. CASE GreetAsks
  <2>1. greet = "built" /\ greet' = "line" /\ UNCHANGED <<out, turn, pump, close>>
    BY <1>13 DEF GreetAsks, turnVars, gathering, sound, air
  <2>2. SetOf(out)' = SetOf(out) /\ NeverInterleaved'
    BY <1>i, <2>1 DEF Spoken, NeverInterleaved, SetOf
  <2> QED
    BY <1>i, <2>1, <2>2 DEF Spoken
<1>greets. ASSUME greet \in {"line", "speak"}, Holds("greet"), greet' \in {"speak", "done"},
                  Send(Greeting, noted.greet), UNCHANGED <<turn, pump, close>>
           PROVE  Spoken'
  <2>1. Greeting \in Speakers /\ Greeting # Goodbye /\ Greeting <= turn
    BY <1>i DEF Speakers, Greeting, Goodbye
  <2>2. pump # "speak" /\ (pump = "turn" => turn # Greeting)
    BY <1>i, <1>greets DEF Locked, Holds, Greeting
  <2>3. Greeting \in SetOf(out) => out # <<>> /\ out[Len(out)] = Greeting
    BY <1>i, <1>greets DEF Spoken
  <2>4. /\ Once(out') /\ SetOf(out') = SetOf(out) \cup {Greeting}
        /\ out' # <<>> /\ out'[Len(out')] = Greeting
    BY <1>i, <1>greets, <2>1, <2>3, Sends
  <2>5. NeverInterleaved'
    BY <2>4 DEF NeverInterleaved, Once
  <2> QED
    BY <1>i, <1>greets, <2>1, <2>2, <2>4, <2>5 DEF Spoken
<1>14. CASE GreetAudio
  BY <1>14, <1>greets DEF GreetAudio, SendNoted, turnVars, gathering
<1>15. CASE GreetEnds
  <2>1. /\ greet \in {"line", "speak"} /\ Holds("greet") /\ greet' = "done"
        /\ UNCHANGED <<out, turn, pump, close>>
    BY <1>15 DEF GreetEnds, turnVars, gathering, sound, air
  <2>2. SetOf(out)' = SetOf(out) /\ NeverInterleaved'
    BY <1>i, <2>1 DEF Spoken, NeverInterleaved, SetOf
  <2> QED
    BY <1>i, <2>1, <2>2 DEF Spoken
<1>16. CASE GreetFallback
  BY <1>16, <1>greets DEF GreetFallback, turnVars, gathering
<1>17. CASE LimitReached
  <2>1. /\ close = "armed" /\ close' \in {"line", "hangup"}
        /\ UNCHANGED <<out, turn, pump, greet>>
    BY <1>17 DEF LimitReached, turnVars, gathering, sound, air
  <2>2. SetOf(out)' = SetOf(out) /\ NeverInterleaved'
    BY <1>i, <2>1 DEF Spoken, NeverInterleaved, SetOf
  <2> QED
    BY <1>i, <2>1, <2>2 DEF Spoken
<1>18. CASE CloseSpeaks
  <2>1. /\ close = "line" /\ Holds("close") /\ close' = "sleep" /\ Send(Goodbye, 0)
        /\ UNCHANGED <<turn, pump, greet>>
    BY <1>18 DEF CloseSpeaks, SendNoted, turnVars, gathering
  <2>2. pump # "speak" /\ greet # "speak"
    BY <1>i, <2>1 DEF Locked, Holds
  <2>3. Goodbye \in Speakers /\ Goodbye # Greeting /\ turn # Goodbye
    BY <1>i DEF Speakers, Greeting, Goodbye
  <2>4. Goodbye \notin SetOf(out)
    BY <1>i, <2>1 DEF Spoken
  <2>5. Once(out') /\ SetOf(out') = SetOf(out) \cup {Goodbye}
    BY <1>i, <2>1, <2>3, <2>4, Sends
  <2>6. NeverInterleaved'
    BY <2>5 DEF NeverInterleaved, Once
  <2> QED
    BY <1>i, <2>1, <2>2, <2>3, <2>5, <2>6 DEF Spoken
<1>19. CASE NapOver
  <2>1. close = "sleep" /\ close' = "hangup" /\ UNCHANGED <<out, turn, pump, greet>>
    BY <1>19 DEF NapOver, turnVars, gathering, sound, air
  <2>2. SetOf(out)' = SetOf(out) /\ NeverInterleaved'
    BY <1>i, <2>1 DEF Spoken, NeverInterleaved, SetOf
  <2> QED
    BY <1>i, <2>1, <2>2 DEF Spoken
<1>20. CASE HangUp
  <2>1. close = "hangup" /\ close' = "done" /\ UNCHANGED <<out, turn, pump, greet>>
    BY <1>20 DEF HangUp, turnVars, gathering, sound, air
  <2>2. SetOf(out)' = SetOf(out) /\ NeverInterleaved'
    BY <1>i, <2>1 DEF Spoken, NeverInterleaved, SetOf
  <2> QED
    BY <1>i, <2>1, <2>2 DEF Spoken
<1>21. CASE Tick
  BY <1>21, <1>same DEF Tick
<1> QED
  BY <1>1, <1>2, <1>3, <1>4, <1>5, <1>6, <1>7, <1>8, <1>9, <1>10, <1>11, <1>12, <1>13, <1>14,
     <1>15, <1>16, <1>17, <1>18, <1>19, <1>20, <1>21
  DEF Next, Turns, Reply, Greet, Close

-----------------------------------------------------------------------------
(* Where the words are *)

LEMMA WordTypes ==
  ASSUME TypeOK
  PROVE  /\ answered \in Seq(Nat) /\ parts \in Seq(Nat) /\ queue \in Seq(Nat)
         /\ SetOf(answered) \subseteq 1..MaxHeard /\ SetOf(parts) \subseteq 1..MaxHeard
         /\ SetOf(queue) \subseteq 0..MaxHeard
         /\ heard \in Nat /\ turn \in Nat /\ MaxHeard \in Nat
<1>1. /\ answered \in Seq(1..MaxHeard) /\ parts \in Seq(1..MaxHeard) /\ queue \in Seq(0..MaxHeard)
      /\ heard \in 0..MaxHeard /\ turn \in 0..MaxHeard /\ MaxHeard \in Nat
  BY BoundAssumption DEF TypeOK
<1>2. /\ SetOf(answered) \subseteq 1..MaxHeard /\ SetOf(parts) \subseteq 1..MaxHeard
      /\ SetOf(queue) \subseteq 0..MaxHeard
  BY <1>1 DEF SetOf
<1>3. answered \in Seq(Nat) /\ parts \in Seq(Nat) /\ queue \in Seq(Nat)
  BY <1>1
<1> QED
  BY <1>1, <1>2, <1>3

LEMMA WordsStep ==
  ASSUME IInv, Next
  PROVE  InOrder' /\ Everywhere'
<1>i. InOrder /\ Everywhere /\ TypeOK
  BY DEF IInv
<1>t. /\ answered \in Seq(Nat) /\ parts \in Seq(Nat) /\ queue \in Seq(Nat)
      /\ SetOf(answered) \subseteq 1..MaxHeard /\ SetOf(parts) \subseteq 1..MaxHeard
      /\ SetOf(queue) \subseteq 0..MaxHeard
      /\ heard \in Nat /\ turn \in Nat /\ MaxHeard \in Nat
  BY <1>i, WordTypes
<1> DEFINE Kept == UNCHANGED <<answered, parts, queue, heard, ours, merged, sttUp, turn>>
<1>same. ASSUME Kept, \/ pump' = pump
                      \/ /\ pump # "gather" /\ pump' # "gather"
                         /\ pump' \in {"turn", "speak"} => pump \in {"turn", "speak"}
         PROVE  InOrder' /\ Everywhere'
  <2>1. Everywhere'
    BY <1>i, <1>same DEF Everywhere
  <2> QED
    BY <1>i, <1>same, <2>1 DEF InOrder, Rising, Ended, SetOf
<1>gather. ASSUME pump = "gather", Gathered, UNCHANGED <<heard, ours, merged, sttUp>>,
                  \/ queue' = queue
                  \/ queue # <<>> /\ Head(queue) = 0 /\ queue' = Tail(queue)
           PROVE  InOrder' /\ Everywhere'
  <2>1. /\ Ended(queue') /\ SetOf(queue') \subseteq SetOf(queue)
        /\ SetOf(queue) \subseteq SetOf(queue') \cup {0}
    <3>1. CASE queue' = queue
      BY <1>i, <3>1 DEF InOrder
    <3>2. CASE queue # <<>> /\ Head(queue) = 0 /\ queue' = Tail(queue)
      <4>1. Ended(Tail(queue))
        BY <1>i, <1>t, <3>2, EndedTail DEF InOrder
      <4>2. SetOf(queue) = {Head(queue)} \cup SetOf(Tail(queue))
        BY <1>t, <3>2, SetOfTail
      <4> QED
        BY <3>2, <4>1, <4>2
    <3> QED
      BY <1>gather, <3>1, <3>2
  <2>2. /\ answered' = answered \o parts /\ parts' = <<>> /\ turn' = turn + 1 /\ pump' = "turn"
    BY <1>gather DEF Gathered
  <2>3. Rising(answered') /\ SetOf(answered') = SetOf(answered) \cup SetOf(parts)
    <3>1. Rising(answered \o parts)
      BY <1>i, <1>t, RisingConcat DEF InOrder
    <3>2. SetOf(answered \o parts) = SetOf(answered) \cup SetOf(parts)
      BY <1>t, SetOfConcat
    <3> QED
      BY <2>2, <3>1, <3>2
  <2>4. Rising(parts') /\ SetOf(parts') = {}
    BY <2>2, SetOfEmpty DEF Rising
  <2>5. \E p \in SetOf(parts) : turn + 1 <= p
    BY <1>gather, TurnBehind
  <2>6. \A a \in SetOf(answered) \cup SetOf(parts) : \A q \in SetOf(queue) : q # 0 => a < q
    BY <1>i DEF InOrder
  <2>7. \A a \in SetOf(answered) \cup SetOf(parts) \cup SetOf(queue) : a <= heard
    BY <1>i DEF InOrder
  <2>8. sttUp' => 0 \notin SetOf(queue')
    BY <1>i, <1>gather, <2>1 DEF InOrder
  <2>9. InOrder'
    BY <1>t, <1>gather, <2>1, <2>2, <2>3, <2>4, <2>5, <2>6, <2>7, <2>8 DEF InOrder
  <2>10. Everywhere'
    BY <1>i, <1>gather, <2>1, <2>3, <2>4 DEF Everywhere
  <2> QED
    BY <2>9, <2>10
<1>1. CASE SpeechStarts \/ \E w \in {"caller", "ours"} : Words(w)
  <2>1. Kept /\ pump' = pump
    BY <1>1 DEF SpeechStarts, Words, turnVars, gathering
  <2> QED
    BY <2>1, <1>same
<1>2. CASE Delivered
  <2>1. /\ sttUp /\ heard' = heard + 1 /\ queue' = Append(queue, heard + 1)
        /\ UNCHANGED <<answered, parts, merged, sttUp, turn, pump>> /\ ours \subseteq ours'
    BY <1>2 DEF Delivered, turnVars, gathering
  <2>2. Ended(queue') /\ SetOf(queue') = SetOf(queue) \cup {heard + 1}
    <3>1. 0 \notin SetOf(queue) /\ Ended(queue) /\ \A x \in SetOf(queue) : x <= heard
      BY <1>i, <2>1 DEF InOrder
    <3>2. heard + 1 \in Nat /\ \A x \in SetOf(queue) : x < heard + 1
      BY <1>t, <3>1
    <3>3. Ended(Append(queue, heard + 1))
      BY <1>t, <3>1, <3>2, EndedAppend
    <3>4. SetOf(Append(queue, heard + 1)) = SetOf(queue) \cup {heard + 1}
      BY <1>t, <3>2, SetOfAppend
    <3> QED
      BY <2>1, <3>3, <3>4
  <2>3. \A a \in SetOf(answered) \cup SetOf(parts) \cup SetOf(queue) : a <= heard /\ a < heard + 1
    BY <1>i, <1>t DEF InOrder
  <2>4. SetOf(answered') = SetOf(answered) /\ SetOf(parts') = SetOf(parts)
    BY <2>1
  <2>5. \A a \in SetOf(answered') \cup SetOf(parts') : \A q \in SetOf(queue') : q # 0 => a < q
    BY <1>i, <2>2, <2>3, <2>4 DEF InOrder
  <2>6. \A a \in SetOf(answered') \cup SetOf(parts') \cup SetOf(queue') : a <= heard'
    BY <1>t, <2>1, <2>2, <2>3, <2>4
  <2>7. sttUp' => 0 \notin SetOf(queue')
    BY <1>i, <1>t, <2>1, <2>2 DEF InOrder
  <2>8. InOrder'
    BY <1>i, <2>1, <2>2, <2>4, <2>5, <2>6, <2>7 DEF InOrder
  <2>9. \A n \in 1..(heard + 1) : n \in 1..heard \/ n = heard + 1
    BY <1>t
  <2>10. Everywhere'
    BY <1>i, <2>1, <2>2, <2>4, <2>9 DEF Everywhere
  <2> QED
    BY <2>8, <2>10
<1>3. CASE SttEnds
  <2>1. /\ sttUp /\ ~sttUp' /\ queue' = Append(queue, 0)
        /\ UNCHANGED <<answered, parts, merged, heard, ours, turn, pump>>
    BY <1>3 DEF SttEnds, turnVars, gathering
  <2>2. Ended(queue') /\ SetOf(queue') = SetOf(queue) \cup {0}
    <3>1. 0 \notin SetOf(queue) /\ Ended(queue)
      BY <1>i, <2>1 DEF InOrder
    <3>2. Ended(Append(queue, 0))
      BY <1>t, <3>1, EndedAppend
    <3>3. SetOf(Append(queue, 0)) = SetOf(queue) \cup {0}
      <4>1. queue \in Seq(Nat) /\ 0 \in Nat
        BY <1>t
      <4> QED
        BY ONLY <4>1, SetOfAppend
    <3> QED
      BY <2>1, <3>2, <3>3
  <2>3. InOrder'
    BY <1>i, <1>t, <2>1, <2>2 DEF InOrder
  <2>4. Everywhere'
    BY <1>i, <2>1, <2>2 DEF Everywhere
  <2> QED
    BY <2>3, <2>4
<1>head. ASSUME queue # <<>>, Head(queue) # 0, queue' = Tail(queue)
         PROVE  /\ Ended(queue') /\ SetOf(queue) = {Head(queue)} \cup SetOf(queue')
                /\ Head(queue) \in Nat /\ Head(queue) \in SetOf(queue)
                /\ \A q \in SetOf(queue') : q # 0 => Head(queue) < q
                /\ \A a \in SetOf(answered) \cup SetOf(parts) : a < Head(queue)
  <2>1. /\ Ended(Tail(queue)) /\ \A x \in SetOf(Tail(queue)) : x # 0 => Head(queue) < x
    BY <1>i, <1>t, <1>head, EndedTail DEF InOrder
  <2>2. SetOf(queue) = {Head(queue)} \cup SetOf(Tail(queue)) /\ Head(queue) \in Nat
    BY <1>t, <1>head, SetOfTail
  <2> QED
    BY <1>i, <1>head, <2>1, <2>2 DEF InOrder
<1>4. CASE TakePart
  <2>1. /\ queue # <<>> /\ Head(queue) # 0 /\ queue' = Tail(queue) /\ pump' = "gather"
        /\ pump \in {"wait", "gather"} /\ Merge(Head(queue))
        /\ UNCHANGED <<answered, heard, ours, sttUp, turn>>
    BY <1>4 DEF TakePart
  <2>h. /\ Ended(queue') /\ SetOf(queue) = {Head(queue)} \cup SetOf(queue')
        /\ Head(queue) \in Nat /\ Head(queue) \in SetOf(queue)
        /\ \A q \in SetOf(queue') : q # 0 => Head(queue) < q
        /\ \A a \in SetOf(answered) \cup SetOf(parts) : a < Head(queue)
    BY <2>1, <1>head
  <2>2. CASE parts' = Append(parts, Head(queue)) /\ UNCHANGED merged
    <3>1. Rising(parts') /\ SetOf(parts') = SetOf(parts) \cup {Head(queue)} /\ parts' # <<>>
      <4>1. Rising(parts) /\ \A x \in SetOf(parts) : x < Head(queue)
        BY <1>i, <2>h DEF InOrder
      <4>2. Rising(Append(parts, Head(queue)))
        BY <1>t, <2>h, <4>1, RisingAppend
      <4>3. /\ SetOf(Append(parts, Head(queue))) = SetOf(parts) \cup {Head(queue)}
            /\ Append(parts, Head(queue)) # <<>>
        <5>1. parts \in Seq(Nat) /\ Head(queue) \in Nat
          BY <1>t, <2>h
        <5> QED
          BY ONLY <5>1, SetOfAppend
      <4> QED
        BY <2>2, <4>2, <4>3
    <3>2. InOrder'
      BY <1>i, <2>1, <2>h, <3>1 DEF InOrder
    <3>3. Everywhere'
      BY <1>i, <2>1, <2>2, <2>h, <3>1 DEF Everywhere
    <3> QED
      BY <3>2, <3>3
  <2>3. CASE pump = "gather" /\ merged' = merged \cup {Head(queue)} /\ UNCHANGED parts
    <3>1. InOrder'
      BY <1>i, <2>1, <2>h, <2>3 DEF InOrder
    <3>2. Everywhere'
      BY <1>i, <2>1, <2>3, <2>h DEF Everywhere
    <3> QED
      BY <3>1, <3>2
  <2> QED
    BY <2>1, <2>2, <2>3 DEF Merge
<1>5. CASE TakeEcho
  <2>1. /\ queue # <<>> /\ Head(queue) # 0 /\ queue' = Tail(queue) /\ Head(queue) \in ours
        /\ UNCHANGED <<answered, parts, heard, ours, merged, sttUp, turn, pump>>
    BY <1>5 DEF TakeEcho, IsEcho, world
  <2>h. Ended(queue') /\ SetOf(queue) = {Head(queue)} \cup SetOf(queue')
    BY <2>1, <1>head
  <2>2. InOrder'
    BY <1>i, <2>1, <2>h DEF InOrder
  <2>3. Everywhere'
    BY <1>i, <2>1, <2>h DEF Everywhere
  <2> QED
    BY <2>2, <2>3
<1>6. CASE TakeSentinel
  <2>1. CASE pump = "gather"
    <3>1. /\ Gathered /\ UNCHANGED <<heard, ours, merged, sttUp>>
          /\ queue # <<>> /\ Head(queue) = 0 /\ queue' = Tail(queue)
      BY <1>6, <2>1 DEF TakeSentinel, world
    <3> QED
      BY <2>1, <3>1, <1>gather
  <2>2. CASE pump # "gather"
    <3>1. /\ pump = "wait" /\ pump' = "off" /\ queue # <<>> /\ Head(queue) = 0
          /\ queue' = Tail(queue)
          /\ UNCHANGED <<answered, parts, heard, ours, merged, sttUp, turn>>
      BY <1>6, <2>2 DEF TakeSentinel, world, gathering
    <3>2. Ended(queue')
      BY <1>i, <1>t, <3>1, EndedTail DEF InOrder
    <3>3. SetOf(queue) = {0} \cup SetOf(queue')
      BY <1>t, <3>1, SetOfTail
    <3>4. InOrder'
      BY <1>i, <3>1, <3>2, <3>3 DEF InOrder
    <3>5. Everywhere'
      BY <1>i, <1>t, <3>1, <3>3 DEF Everywhere
    <3> QED
      BY <3>4, <3>5
  <2> QED
    BY <2>1, <2>2
<1>7. CASE WindowCloses
  <2>1. /\ pump = "gather" /\ Gathered /\ UNCHANGED <<heard, ours, merged, sttUp, queue>>
    BY <1>7 DEF WindowCloses, world
  <2> QED
    BY <2>1, <1>gather
<1>8. CASE IdleEnds
  <2>1. Kept /\ pump = "wait" /\ pump' = "off"
    BY <1>8 DEF IdleEnds, world, gathering
  <2> QED
    BY <2>1, <1>same
<1>9. CASE Reply
  <2>1. CASE ReplyBegins
    <3>1. Kept /\ pump = "turn" /\ pump' = "speak"
      BY <2>1 DEF ReplyBegins, gathering
    <3> QED
      BY <3>1, <1>same
  <2>2. CASE ReplyAudio
    <3>1. Kept /\ pump' = pump
      BY <2>2 DEF ReplyAudio, turnVars, gathering, world
    <3> QED
      BY <3>1, <1>same
  <2>3. CASE BargeIn \/ ReplyEnds \/ Saved \/ PumpDies
    <3>1. Kept /\ pump \in {"speak", "save"} /\ pump' \in {"save", "wait", "off"}
      BY <2>3 DEF BargeIn, ReplyEnds, Saved, PumpDies, gathering, world
    <3> QED
      BY <3>1, <1>same
  <2> QED
    BY <1>9, <2>1, <2>2, <2>3 DEF Reply
<1>10. CASE Greet
  <2>1. Kept /\ pump' = pump
    BY <1>10 DEF Greet, GreetAsks, GreetAudio, GreetEnds, GreetFallback, turnVars, gathering,
       world
  <2> QED
    BY <2>1, <1>same
<1>11. CASE Close
  <2>1. Kept /\ pump' = pump
    BY <1>11 DEF Close, LimitReached, CloseSpeaks, NapOver, HangUp, turnVars, gathering, world
  <2> QED
    BY <2>1, <1>same
<1>12. CASE Tick
  <2>1. Kept /\ pump' = pump
    BY <1>12 DEF Tick
  <2> QED
    BY <2>1, <1>same
<1> QED
  BY <1>1, <1>2, <1>3, <1>4, <1>5, <1>6, <1>7, <1>8, <1>9, <1>10, <1>11, <1>12
  DEF Next, Stt, Turns

-----------------------------------------------------------------------------
(* What is heard, and how long it is held *)

LEMMA CallKept == Next => call' = call
BY DEF Next

LEMMA CallTypes ==
  ASSUME TypeOK
  PROVE  call.heard \in 0..MaxHeard /\ call.chunks \in Nat /\ MaxHeard \in Nat
BY BoundAssumption DEF TypeOK

LEMMA BoundedStep ==
  ASSUME IInv, Next
  PROVE  Bounded'
<1>i. Bounded /\ heard \in Nat /\ call.heard \in Nat /\ call' = call
  BY CallTypes, CallKept, WordTypes DEF IInv
<1>1. CASE \E w \in {"caller", "ours"} : Words(w)
  <2>1. heard < call.heard /\ heard' = heard
    BY <1>1 DEF Words
  <2> QED
    BY <1>i, <2>1 DEF Bounded
<1>2. CASE Delivered
  <2>1. live # "none" /\ heard' = heard + 1 /\ live' = "none"
    BY <1>2 DEF Delivered
  <2> QED
    BY <1>i, <2>1 DEF Bounded
<1>3. CASE SpeechStarts \/ SttEnds \/ Turns \/ Reply \/ Greet \/ Close \/ Tick
  <2>1. UNCHANGED <<heard, live>>
    <3>1. CASE SpeechStarts \/ SttEnds \/ Tick
      BY <3>1 DEF SpeechStarts, SttEnds, Tick
    <3>2. CASE Turns
      BY <3>2 DEF Turns, TakePart, TakeEcho, TakeSentinel, WindowCloses, IdleEnds, world
    <3>3. CASE Reply
      BY <3>3 DEF Reply, ReplyBegins, ReplyAudio, BargeIn, ReplyEnds, Saved, PumpDies, world
    <3>4. CASE Greet
      BY <3>4 DEF Greet, GreetAsks, GreetAudio, GreetEnds, GreetFallback, world
    <3>5. CASE Close
      BY <3>5 DEF Close, LimitReached, CloseSpeaks, NapOver, HangUp, world
    <3> QED
      BY <1>3, <3>1, <3>2, <3>3, <3>4, <3>5
  <2> QED
    BY <1>i, <2>1 DEF Bounded
<1> QED
  BY <1>1, <1>2, <1>3 DEF Next, Stt

LEMMA HeldStep ==
  ASSUME IInv, Next
  PROVE  Held'
<1>i. Held /\ age \in Nat /\ left \in 0..MaxHold /\ MaxHold \in Nat
  BY TimeAssumption DEF IInv, TypeOK
<1>same. UNCHANGED <<age, left, pump>> => Held'
  BY <1>i DEF Held
<1>other. pump # "gather" /\ pump' # "gather" /\ UNCHANGED age => Held'
  BY <1>i DEF Held
<1>gathered. Gathered => Held'
  BY DEF Gathered, Held
<1>1. CASE Stt
  BY <1>1, <1>same DEF Stt, SpeechStarts, Delivered, SttEnds, Words, turnVars, gathering
<1>2. CASE TakePart
  <2>1. /\ pump \in {"wait", "gather"} /\ pump' = "gather" /\ age' = age
        /\ left' = IF pump = "wait" THEN MaxHold ELSE left
    BY <1>2 DEF TakePart
  <2>2. CASE pump = "wait"
    BY <1>i, <2>1, <2>2 DEF Held
  <2>3. CASE pump = "gather"
    BY <1>i, <2>1, <2>3 DEF Held
  <2> QED
    BY <2>1, <2>2, <2>3
<1>3. CASE TakeEcho
  BY <1>3, <1>same DEF TakeEcho
<1>4. CASE TakeSentinel
  <2>1. CASE pump = "gather"
    BY <1>4, <2>1, <1>gathered DEF TakeSentinel
  <2>2. CASE pump # "gather"
    BY <1>4, <2>2, <1>other DEF TakeSentinel, gathering
  <2> QED
    BY <2>1, <2>2
<1>5. CASE WindowCloses
  BY <1>5, <1>gathered DEF WindowCloses
<1>6. CASE IdleEnds
  BY <1>6, <1>other DEF IdleEnds, gathering
<1>7. CASE ReplyAudio
  BY <1>7, <1>same DEF ReplyAudio, turnVars, gathering
<1>8. CASE ReplyBegins \/ BargeIn \/ ReplyEnds \/ Saved \/ PumpDies
  BY <1>8, <1>other DEF ReplyBegins, BargeIn, ReplyEnds, Saved, PumpDies, gathering
<1>9. CASE Greet
  BY <1>9, <1>same DEF Greet, GreetAsks, GreetAudio, GreetEnds, GreetFallback, turnVars, gathering
<1>10. CASE Close
  BY <1>10, <1>same DEF Close, LimitReached, CloseSpeaks, NapOver, HangUp, turnVars, gathering
<1>11. CASE Tick
  <2>1. CASE pump = "gather"
    <3>1. age' = age + 1 /\ left' = Less(left) /\ pump' = "gather" /\ left # 0
      BY <1>11, <2>1 DEF Tick, Due
    <3> QED
      BY <1>i, <2>1, <3>1 DEF Held, Less
  <2>2. CASE pump # "gather"
    BY <1>11, <2>2, <1>other DEF Tick
  <2> QED
    BY <2>1, <2>2
<1> QED
  BY <1>1, <1>2, <1>3, <1>4, <1>5, <1>6, <1>7, <1>8, <1>9, <1>10, <1>11 DEF Next, Turns, Reply

-----------------------------------------------------------------------------
(* Our own words *)

LEMMA HeededStep ==
  ASSUME IInv, Next
  PROVE  Heeded'
<1>i. Heeded /\ TypeOK /\ InOrder
  BY DEF IInv
<1>t. /\ heard \in Nat /\ until \in Nat /\ lag \in 0..(EchoTail + 1) /\ EchoTail \in Nat \ {0}
      /\ buffer \in Seq(Chunks) /\ Len(buffer) \in Nat /\ ours \subseteq 1..MaxHeard
      /\ blind \in BOOLEAN /\ MaxHeard \in Nat
  <2>1. /\ heard \in Nat /\ until \in Nat /\ lag \in 0..(EchoTail + 1) /\ EchoTail \in Nat \ {0}
        /\ buffer \in Seq(Chunks) /\ ours \subseteq 1..MaxHeard /\ MaxHeard \in Nat
    BY BoundAssumption, TimeAssumption DEF IInv, TypeOK
  <2>2. blind \in BOOLEAN
    BY Zenon DEF IInv, TypeOK
  <2> QED
    BY <2>1, <2>2
<1>q. queue \in Seq(Nat)
  BY <1>i, WordTypes
<1> DEFINE Words0 == UNCHANGED <<queue, ours, heard>>
           Air    == UNCHANGED <<until, lag, buffer, blind>>
<1>same. Words0 /\ Air /\ UNCHANGED <<live, pump, chunks>> => Heeded'
  BY <1>i DEF Heeded, InWindow, SetOf
<1>noted. ASSUME Words0, UNCHANGED <<live, pump, blind>>, until' = until + 1, lag' = 0,
                 Len(buffer') = Len(buffer) + 1
          PROVE  Heeded'
  <2>1. SetOf(queue') = SetOf(queue) /\ InWindow'
    BY <1>noted, <1>t DEF InWindow
  <2> QED
    BY <1>i, <1>t, <1>noted, <2>1 DEF Heeded
<1>off. Words0 /\ Air /\ UNCHANGED live /\ pump' = "off" => Heeded'
  BY <1>i DEF Heeded, InWindow, SetOf
<1>1. CASE SpeechStarts
  BY <1>1, <1>same DEF SpeechStarts, turnVars, gathering, floor, sound, air
<1>2. CASE \E w \in {"caller", "ours"} : Words(w)
  <2>1. PICK w \in {"caller", "ours"} : Words(w)
    BY <1>2
  <2>2. /\ Words0 /\ Air /\ UNCHANGED <<pump, chunks>> /\ live' = w
        /\ w = "ours" => buffer # <<>>
    BY <2>1 DEF Words, turnVars, gathering, floor, sound, air
  <2>3. live' = "ours" /\ ~blind => InWindow
    <3>1. buffer # <<>> => Len(buffer) > 0
      BY <1>t
    <3> QED
      BY <1>i, <1>t, <2>2, <3>1 DEF Heeded, InWindow
  <2> QED
    BY <1>i, <2>2, <2>3 DEF Heeded, InWindow, SetOf
<1>3. CASE Delivered
  <2>1. /\ heard' = heard + 1 /\ queue' = Append(queue, heard + 1) /\ live' = "none" /\ Air
        /\ live # "none" /\ ours' = IF live = "ours" THEN ours \cup {heard + 1} ELSE ours
        /\ UNCHANGED <<pump, chunks>>
    BY <1>3 DEF Delivered, turnVars, gathering, floor, sound, air
  <2>2. SetOf(queue') = SetOf(queue) \cup {heard + 1}
    <3>1. queue \in Seq(Nat) /\ heard + 1 \in Nat
      BY <1>t, <1>q
    <3> QED
      BY ONLY <2>1, <3>1, SetOfAppend
  <2>3. InWindow' = InWindow
    BY <2>1 DEF InWindow
  <2>4. heard + 1 \notin ours
    <3>1. \A n \in ours : n <= heard
      BY <1>i DEF Heeded
    <3>2. ~(heard + 1 <= heard)
      BY <1>t
    <3> QED
      BY <3>1, <3>2
  <2>5. \A n \in ours' : n <= heard'
    <3>1. \A n \in ours : n <= heard
      BY <1>i DEF Heeded
    <3>2. \A n \in ours : n \in Nat
      BY <1>t
    <3> QED
      BY <1>t, <2>1, <3>1, <3>2
  <2>6. CASE live = "ours"
    <3>1. ~blind => InWindow
      BY <1>i, <2>6 DEF Heeded
    <3> QED
      BY <1>i, <2>1, <2>2, <2>3, <2>4, <2>5, <2>6, <3>1 DEF Heeded
  <2>7. CASE live # "ours"
    <3>1. ours' = ours
      BY <2>1, <2>7
    <3> QED
      BY <1>i, <2>1, <2>2, <2>3, <2>4, <2>5, <3>1 DEF Heeded
  <2> QED
    BY <2>6, <2>7
<1>4. CASE SttEnds
  <2>1. /\ queue' = Append(queue, 0) /\ Air
        /\ UNCHANGED <<pump, chunks, ours, heard, live>>
    BY <1>4 DEF SttEnds, turnVars, gathering, floor, sound, air
  <2>2. SetOf(queue') = SetOf(queue) \cup {0}
    <3>1. queue \in Seq(Nat) /\ 0 \in Nat
      BY <1>q
    <3> QED
      BY ONLY <2>1, <3>1, SetOfAppend
  <2>3. 0 \notin ours
    BY <1>t
  <2>4. InWindow' = InWindow
    BY <2>1 DEF InWindow
  <2> QED
    BY <1>i, <2>1, <2>2, <2>3, <2>4 DEF Heeded
<1>head. ASSUME queue # <<>>, queue' = Tail(queue)
         PROVE  SetOf(queue) = {Head(queue)} \cup SetOf(queue')
  BY <1>q, <1>head, SetOfTail
<1>5. CASE TakePart
  <2>1. /\ queue # <<>> /\ queue' = Tail(queue) /\ pump \in {"wait", "gather"}
        /\ pump' = "gather" /\ Air /\ UNCHANGED <<ours, heard, live, chunks>>
    BY <1>5 DEF TakePart, floor, sound, air
  <2>2. SetOf(queue) = {Head(queue)} \cup SetOf(queue')
    BY <2>1, <1>head
  <2>3. InWindow' = InWindow
    BY <2>1 DEF InWindow
  <2> QED
    BY <1>i, <2>1, <2>2, <2>3 DEF Heeded
<1>6. CASE TakeEcho
  <2>1. /\ queue # <<>> /\ queue' = Tail(queue) /\ Air
        /\ UNCHANGED <<pump, ours, heard, live, chunks>>
    BY <1>6 DEF TakeEcho, world, floor, sound, air
  <2>2. SetOf(queue) = {Head(queue)} \cup SetOf(queue')
    BY <2>1, <1>head
  <2>3. InWindow' = InWindow
    BY <2>1 DEF InWindow
  <2> QED
    BY <1>i, <2>1, <2>2, <2>3 DEF Heeded
<1>leaves. ASSUME pump \in {"wait", "gather"}, pump' \in {"turn", "off"}, Air,
                  UNCHANGED <<ours, heard, live, chunks>>
           PROVE  Heeded'
  <2>1. InWindow' = InWindow
    BY <1>leaves DEF InWindow
  <2> QED
    BY <1>i, <1>leaves, <2>1 DEF Heeded
<1>7. CASE TakeSentinel
  <2>1. /\ Air /\ UNCHANGED <<ours, heard, live, chunks>>
        /\ pump \in {"wait", "gather"} /\ pump' \in {"turn", "off"}
    BY <1>7 DEF TakeSentinel, Gathered, world, sound, air
  <2> QED
    BY <2>1, <1>leaves
<1>8. CASE WindowCloses
  <2>1. /\ Air /\ UNCHANGED <<ours, heard, live, chunks>> /\ pump = "gather" /\ pump' = "turn"
    BY <1>8 DEF WindowCloses, Gathered, world, sound, air
  <2> QED
    BY <2>1, <1>leaves
<1>9. CASE IdleEnds
  BY <1>9, <1>off DEF IdleEnds, world, gathering, sound, air
<1>10. CASE ReplyBegins
  <2>1. Words0 /\ Air /\ UNCHANGED live /\ pump' = "speak" /\ chunks' = 0
    BY <1>10 DEF ReplyBegins, gathering, sound, air
  <2> QED
    BY <1>i, <2>1 DEF Heeded, InWindow, SetOf
<1>sent. ASSUME NEW who \in Speakers, NEW n \in Ages, SendNoted(who, n)
         PROVE  until' = until + 1 /\ lag' = 0 /\ Len(buffer') = Len(buffer) + 1
  BY <1>t, <1>sent DEF SendNoted, Send, Chunks
<1>ages. noted.reply \in Ages /\ noted.greet \in Ages /\ Retention \in Nat /\ 0 \in Ages
  BY <1>i, TimeAssumption DEF TypeOK, Ages
<1>11. CASE ReplyAudio
  <2>1. turn \in Speakers
    BY <1>i, <1>t DEF TypeOK, Speakers
  <2>2. Words0 /\ UNCHANGED <<live, pump, blind>>
    BY <1>11 DEF ReplyAudio, turnVars, gathering, world
  <2>3. PICK n \in 0..noted.reply : SendNoted(turn, n)
    BY <1>11 DEF ReplyAudio
  <2>4. n \in Ages
    BY <1>ages DEF Ages
  <2> QED
    BY <2>1, <2>2, <2>3, <2>4, <1>sent, <1>noted
<1>12. CASE BargeIn
  <2>1. /\ Words0 /\ UNCHANGED <<live, blind>> /\ pump' = "save"
        /\ until' = 0 /\ lag' = 0 /\ buffer' = <<>>
    BY <1>12 DEF BargeIn, Clear, world, gathering
  <2>2. SetOf(queue') = SetOf(queue) /\ InWindow' /\ Len(buffer') = 0
    BY <1>t, <2>1 DEF InWindow
  <2> QED
    BY <1>i, <2>1, <2>2 DEF Heeded
<1>13. CASE ReplyEnds
  <2>1. /\ Words0 /\ UNCHANGED <<live, chunks, until, lag, buffer>> /\ pump = "speak"
        /\ pump' = "save"
    BY <1>13 DEF ReplyEnds, world, gathering
  <2>2. ~blind' => ~blind /\ chunks # 0
    BY <1>13 DEF ReplyEnds
  <2>3. chunks # 0 => chunks > 0
    BY <1>i, CallTypes DEF TypeOK
  <2>4. ~blind' => InWindow
    BY <1>i, <2>1, <2>2, <2>3 DEF Heeded
  <2> QED
    BY <1>i, <2>1, <2>2, <2>4 DEF Heeded, InWindow, SetOf
<1>14. CASE Saved
  <2>1. Words0 /\ Air /\ UNCHANGED live /\ pump = "save" /\ pump' = "wait"
    BY <1>14 DEF Saved, world, sound, air
  <2> QED
    BY <1>i, <2>1 DEF Heeded, InWindow, SetOf
<1>15. CASE PumpDies
  BY <1>15, <1>off DEF PumpDies, world, gathering, sound, air
<1>16. CASE GreetAsks \/ GreetEnds
  BY <1>16, <1>same DEF GreetAsks, GreetEnds, world, turnVars, gathering, sound, air
<1>17. CASE GreetAudio
  <2>1. Greeting \in Speakers
    BY <1>t DEF Greeting, Speakers
  <2>2. SendNoted(Greeting, noted.greet) /\ Words0 /\ UNCHANGED <<live, pump, blind>>
    BY <1>17 DEF GreetAudio, turnVars, gathering, world
  <2> QED
    BY <2>1, <2>2, <1>sent, <1>noted, <1>ages
<1>18. CASE GreetFallback
  <2>1. blind' = TRUE /\ UNCHANGED <<ours, heard, until, lag>>
    BY <1>18 DEF GreetFallback, world
  <2> QED
    BY <1>i, <2>1 DEF Heeded
<1>19. CASE LimitReached \/ NapOver \/ HangUp
  BY <1>19, <1>same DEF LimitReached, NapOver, HangUp, world, turnVars, gathering, floor, sound, air
<1>20. CASE CloseSpeaks
  <2>1. Goodbye \in Speakers
    BY <1>t DEF Goodbye, Speakers
  <2>2. SendNoted(Goodbye, 0) /\ Words0 /\ UNCHANGED <<live, pump, blind>>
    BY <1>20 DEF CloseSpeaks, turnVars, gathering, world
  <2> QED
    BY <2>1, <2>2, <1>sent, <1>noted, <1>ages
<1>21. CASE Tick
  <2>1. /\ Words0 /\ UNCHANGED <<live, pump, chunks, blind>> /\ until' = Less(until)
        /\ lag' = IF until > 0 \/ lag > EchoTail THEN lag ELSE lag + 1
        /\ Len(buffer') = Less(Len(buffer))
    <3>1. Less(Len(buffer)) \in Nat
      BY <1>t DEF Less
    <3> QED
      BY <1>21, <3>1 DEF Tick, floor
  <2>2. /\ live = "ours" => ~ lag >= EchoTail
        /\ pump = "speak" /\ chunks > 0 => ~ lag >= EchoTail
        /\ pump # "save" /\ (pump \in {"wait", "gather"} => queue = <<>>)
    BY <1>21 DEF Tick, Due
  <2>3. until' > 0 => lag' = 0
    BY <1>i, <1>t, <2>1 DEF Heeded, Less
  <2>4. ~ lag >= EchoTail => InWindow'
    BY <1>t, <2>1 DEF InWindow
  <2>5. ~blind => Len(buffer') <= until'
    <3>1. ~blind => Len(buffer) <= until
      BY <1>i DEF Heeded
    <3> QED
      BY <1>t, <2>1, <3>1 DEF Less
  <2>6. SetOf(queue') = SetOf(queue)
    BY <2>1
  <2>7. queue = <<>> => SetOf(queue) = {}
    BY SetOfEmpty
  <2>8. pump = "speak" => chunks > 0 \/ chunks = 0
    BY <1>i, CallTypes DEF TypeOK
  <2>9. pump \in {"wait", "gather", "turn", "speak", "save", "off"}
    BY <1>i DEF TypeOK
  <2> QED
    BY <1>i, <2>1, <2>2, <2>3, <2>4, <2>5, <2>6, <2>7, <2>8, <2>9 DEF Heeded
<1> QED
  BY <1>1, <1>2, <1>3, <1>4, <1>5, <1>6, <1>7, <1>8, <1>9, <1>10, <1>11, <1>12, <1>13, <1>14,
     <1>15, <1>16, <1>17, <1>18, <1>19, <1>20, <1>21
  DEF Next, Stt, Turns, Reply, Greet, Close

\* What was pruned stays so.
LEMMA PrunedKept ==
  ASSUME IInv, Next, NEW n \in 1..heard, Pruned(n)
  PROVE  Pruned(n)'
<1>t. /\ heard \in 0..MaxHeard /\ MaxHeard \in Nat /\ since \in [1..MaxHeard -> Ages]
      /\ Retention \in Nat /\ n \in 1..MaxHeard /\ n # heard + 1
  BY BoundAssumption, TimeAssumption DEF IInv, TypeOK
<1>same. since' = since => Pruned(n)'
  BY DEF Pruned
<1>1. CASE \E w \in {"caller", "ours"} : Words(w)
  <2>1. since' = since \/ since' = [since EXCEPT ![heard + 1] = Head(buffer).since]
    BY <1>1 DEF Words
  <2> QED
    BY <1>t, <1>same, <2>1 DEF Pruned
<1>2. CASE SpeechStarts \/ Delivered \/ SttEnds
  BY <1>2, <1>same DEF SpeechStarts, Delivered, SttEnds, sound
<1>3. CASE Turns
  BY <1>3, <1>same DEF Turns, TakePart, TakeEcho, TakeSentinel, WindowCloses, IdleEnds, sound
<1>4. CASE Reply
  BY <1>4, <1>same DEF Reply, ReplyBegins, ReplyAudio, BargeIn, ReplyEnds, Saved, PumpDies, sound
<1>5. CASE Greet
  BY <1>5, <1>same DEF Greet, GreetAsks, GreetAudio, GreetEnds, GreetFallback, sound
<1>6. CASE Close
  BY <1>6, <1>same DEF Close, LimitReached, CloseSpeaks, NapOver, HangUp, sound
<1>7. CASE Tick
  <2>1. since'[n] = Older(since[n])
    BY <1>t, <1>7 DEF Tick
  <2> QED
    BY <1>t, <2>1 DEF Pruned, Older
<1> QED
  BY <1>1, <1>2, <1>3, <1>4, <1>5, <1>6, <1>7 DEF Next, Stt

LEMMA UnansweredStep ==
  ASSUME IInv, Next
  PROVE  Unanswered'
<1> DEFINE Taken == SetOf(answered) \cup SetOf(parts)
<1>i. Heeded /\ Unanswered /\ TypeOK /\ InOrder /\ IInv
  BY DEF IInv
<1>q. /\ queue \in Seq(Nat) /\ answered \in Seq(Nat) /\ parts \in Seq(Nat)
      /\ Taken \subseteq 1..MaxHeard /\ heard \in Nat /\ MaxHeard \in Nat
  BY <1>i, WordTypes
<1>old. \A n \in Taken : n \in 1..heard
  <2>1. \A n \in Taken : n <= heard
    BY <1>i DEF InOrder
  <2> QED
    BY <1>q, <2>1
<1>blind. blind => blind'
  <2>1. blind' = blind \/ blind' = (blind \/ chunks = 0) \/ blind' = TRUE
    <3>1. CASE Stt
      BY <3>1 DEF Stt, SpeechStarts, Words, Delivered, SttEnds, sound, air
    <3>2. CASE Turns
      BY <3>2 DEF Turns, TakePart, TakeEcho, TakeSentinel, WindowCloses, IdleEnds, sound, air
    <3>3. CASE Reply
      BY <3>3 DEF Reply, ReplyBegins, ReplyAudio, BargeIn, ReplyEnds, Saved, PumpDies, sound, air
    <3>4. CASE Greet
      BY <3>4 DEF Greet, GreetAsks, GreetAudio, GreetEnds, GreetFallback, sound, air
    <3>5. CASE Close
      BY <3>5 DEF Close, LimitReached, CloseSpeaks, NapOver, HangUp, sound, air
    <3>6. CASE Tick
      BY <3>6 DEF Tick
    <3> QED
      BY <3>1, <3>2, <3>3, <3>4, <3>5, <3>6 DEF Next
  <2> QED
    BY <2>1
<1>pruned. \A n \in Taken : n \in ours /\ ~blind => Pruned(n)'
  BY <1>i, <1>old, PrunedKept DEF Unanswered
<1>same. ASSUME Taken' \subseteq Taken, \A n \in Taken : n \in ours' => n \in ours
         PROVE  Unanswered'
  BY <1>same, <1>blind, <1>pruned DEF Unanswered
<1>1. CASE TakePart
  <2>1. /\ queue # <<>> /\ ~IsEcho(Head(queue)) /\ Merge(Head(queue))
        /\ pump \in {"wait", "gather"} /\ UNCHANGED <<answered, ours, blind>>
        /\ Head(queue) # 0
    BY <1>1 DEF TakePart, sound, air
  <2>2. Head(queue) \in SetOf(queue) /\ Head(queue) \in Nat
    BY <1>q, <2>1, SetOfTail
  <2>3. Taken' \subseteq Taken \cup {Head(queue)}
    <3>1. SetOf(answered') = SetOf(answered)
      BY <2>1
    <3>2. CASE parts' = Append(parts, Head(queue))
      <4>1. SetOf(parts') = SetOf(parts) \cup {Head(queue)}
        BY ONLY <1>q, <2>2, <3>2, SetOfAppend
      <4> QED
        BY <3>1, <4>1
    <3>3. CASE parts' = parts
      BY <3>1, <3>3
    <3> QED
      BY <2>1, <3>2, <3>3 DEF Merge
  <2>4. ASSUME ~blind', NEW n \in Taken', n \in ours'
        PROVE  Pruned(n)'
    <3>1. ~blind /\ n \in ours
      BY <2>1, <2>4
    <3>2. CASE n \in Taken
      BY <1>pruned, <3>1, <3>2
    <3>3. CASE n = Head(queue)
      <4>1. n \in SetOf(queue) /\ n \in 1..heard
        <5>1. n \in SetOf(queue) /\ n \in Nat /\ n # 0
          BY <2>1, <2>2, <3>3
        <5>2. n <= heard
          BY <1>i, <5>1 DEF InOrder
        <5> QED
          BY <1>q, <5>1, <5>2
      <4>2. InWindow
        BY <1>i, <2>1, <3>1, <4>1 DEF Heeded
      <4>3. Pruned(n)
        BY <2>1, <3>1, <3>3, <4>2 DEF IsEcho
      <4> QED
        BY <1>i, <4>1, <4>3, PrunedKept
    <3> QED
      BY <2>3, <2>4, <3>2, <3>3
  <2> QED
    BY <2>4 DEF Unanswered
<1>gathered. ASSUME Gathered, UNCHANGED ours
             PROVE  Unanswered'
  <2>1. answered' = answered \o parts /\ parts' = <<>>
    BY <1>gathered DEF Gathered
  <2>2. SetOf(answered') = SetOf(answered) \cup SetOf(parts) /\ SetOf(parts') = {}
    BY <1>q, <2>1, SetOfConcat, SetOfEmpty
  <2> QED
    BY <1>gathered, <1>same, <2>2
<1>2. CASE TakeSentinel
  <2>1. CASE pump = "gather"
    BY <1>2, <2>1, <1>gathered DEF TakeSentinel, world
  <2>2. CASE pump # "gather"
    BY <1>2, <2>2, <1>same DEF TakeSentinel, world, gathering
  <2> QED
    BY <2>1, <2>2
<1>3. CASE WindowCloses
  BY <1>3, <1>gathered DEF WindowCloses, world
<1>4. CASE TakeEcho \/ IdleEnds
  BY <1>4, <1>same DEF TakeEcho, IdleEnds, world, gathering
<1>5. CASE Delivered
  <2>1. UNCHANGED <<answered, parts>> /\ ours' \subseteq ours \cup {heard + 1}
    BY <1>5 DEF Delivered, turnVars, gathering
  <2>2. \A n \in Taken : n # heard + 1
    BY <1>q, <1>old
  <2>3. Taken' = Taken
    BY <2>1
  <2> QED
    BY <1>same, <2>1, <2>2, <2>3
<1>6. CASE SpeechStarts \/ SttEnds \/ (\E w \in {"caller", "ours"} : Words(w))
  BY <1>6, <1>same DEF SpeechStarts, SttEnds, Words, turnVars, gathering
<1>7. CASE Reply
  BY <1>7, <1>same DEF Reply, ReplyBegins, ReplyAudio, BargeIn, ReplyEnds, Saved, PumpDies,
                       turnVars, gathering, world
<1>8. CASE Greet
  BY <1>8, <1>same DEF Greet, GreetAsks, GreetAudio, GreetEnds, GreetFallback,
                       turnVars, gathering, world
<1>9. CASE Close
  BY <1>9, <1>same DEF Close, LimitReached, CloseSpeaks, NapOver, HangUp,
                       turnVars, gathering, world
<1>10. CASE Tick
  BY <1>10, <1>same DEF Tick
<1> QED
  BY <1>1, <1>2, <1>3, <1>4, <1>5, <1>6, <1>7, <1>8, <1>9, <1>10 DEF Next, Stt, Turns

-----------------------------------------------------------------------------
(* Types *)

Longest == IF Idle > Window THEN Idle ELSE Window

FlagsOK == {up, started, sttUp, blind} \subseteq BOOLEAN
WordsOK ==
    /\ call \in Calls /\ live \in {"none", "caller", "ours"} /\ heard \in 0..MaxHeard
    /\ queue \in Seq(0..MaxHeard) /\ parts \in Seq(1..MaxHeard) /\ answered \in Seq(1..MaxHeard)
    /\ ours \subseteq 1..MaxHeard /\ merged \subseteq 1..MaxHeard
TurnOK ==
    /\ pump \in {"wait", "gather", "turn", "speak", "save", "off"}
    /\ quiet \in 0..Longest /\ left \in 0..MaxHold /\ turn \in 0..MaxHeard /\ age \in Nat
FloorOK ==
    /\ chunks \in 0..(call.chunks + 1) /\ line \in Seq(Users)
    /\ greet \in {"built", "line", "speak", "done"}
    /\ close \in {"off", "armed", "line", "sleep", "hangup", "done"} /\ nap \in 0..2
SoundOK ==
    /\ until \in Nat /\ lag \in 0..(EchoTail + 1)
    /\ noted \in [greet : Ages, reply : Ages] /\ since \in [1..MaxHeard -> Ages]
    /\ buffer \in Seq(Chunks) /\ out \in Seq(Speakers)

LEMMA TypeParts == TypeOK <=> FlagsOK /\ WordsOK /\ TurnOK /\ FloorOK /\ SoundOK
BY Zenon DEF TypeOK, FlagsOK, WordsOK, TurnOK, FloorOK, SoundOK, Users, Longest

LEMMA TypePartsNext == FlagsOK' /\ WordsOK' /\ TurnOK' /\ FloorOK' /\ SoundOK' => TypeOK'
BY Zenon DEF TypeOK, FlagsOK, WordsOK, TurnOK, FloorOK, SoundOK, Users, Longest

LEMMA FlagsStep ==
  ASSUME IInv, Next
  PROVE  FlagsOK'
<1>i. up \in BOOLEAN /\ started \in BOOLEAN /\ sttUp \in BOOLEAN /\ blind \in BOOLEAN
  BY Zenon DEF IInv, TypeOK
<1> SUFFICES /\ up' \in BOOLEAN /\ started' \in BOOLEAN
             /\ sttUp' \in BOOLEAN /\ blind' \in BOOLEAN
  BY Zenon DEF FlagsOK
<1>1. CASE Stt
  BY <1>i, <1>1 DEF Stt, SpeechStarts, Words, Delivered, SttEnds, sound, air
<1>2. CASE Turns
  BY <1>i, <1>2 DEF Turns, TakePart, TakeEcho, TakeSentinel, WindowCloses, IdleEnds,
                    world, sound, air
<1>3. CASE Reply
  BY <1>i, <1>3 DEF Reply, ReplyBegins, ReplyAudio, BargeIn, ReplyEnds, Saved, PumpDies, world,
     sound, air
<1>4. CASE Greet
  BY <1>i, <1>4 DEF Greet, GreetAsks, GreetAudio, GreetEnds, GreetFallback, world, sound, air
<1>5. CASE Close
  BY <1>i, <1>5 DEF Close, LimitReached, CloseSpeaks, NapOver, HangUp, world, sound, air
<1>6. CASE Tick
  BY <1>i, <1>6 DEF Tick
<1> QED
  BY <1>1, <1>2, <1>3, <1>4, <1>5, <1>6 DEF Next

LEMMA WordsTypeStep ==
  ASSUME IInv, Next
  PROVE  WordsOK'
<1>i. WordsOK /\ Bounded /\ MaxHeard \in Nat /\ call.heard \in 0..MaxHeard /\ call' = call
  BY TypeParts, CallTypes, CallKept DEF IInv
<1>same. UNCHANGED <<live, heard, queue, parts, answered, ours, merged>> => WordsOK'
  BY <1>i DEF WordsOK
<1>1. CASE SpeechStarts
  BY <1>1, <1>same DEF SpeechStarts, turnVars, gathering
<1>2. CASE \E w \in {"caller", "ours"} : Words(w)
  <2>1. /\ live' \in {"caller", "ours"}
        /\ UNCHANGED <<heard, queue, parts, answered, ours, merged>>
    BY <1>2 DEF Words, turnVars, gathering
  <2> QED
    BY <1>i, <2>1 DEF WordsOK
<1>3. CASE Delivered
  <2>1. /\ heard < call.heard /\ heard' = heard + 1 /\ live' = "none"
        /\ queue' = Append(queue, heard + 1) /\ ours' \subseteq ours \cup {heard + 1}
        /\ UNCHANGED <<parts, answered, merged>>
    BY <1>i, <1>3 DEF Delivered, Bounded, turnVars, gathering
  <2>2. heard + 1 \in 1..MaxHeard /\ heard + 1 \in 0..MaxHeard
    BY <1>i, <2>1 DEF WordsOK
  <2> QED
    BY <1>i, <2>1, <2>2 DEF WordsOK
<1>4. CASE SttEnds
  <2>1. /\ queue' = Append(queue, 0) /\ 0 \in 0..MaxHeard
        /\ UNCHANGED <<live, heard, parts, answered, ours, merged>>
    BY <1>i, <1>4 DEF SttEnds, turnVars, gathering
  <2> QED
    BY <1>i, <2>1 DEF WordsOK
<1>head. ASSUME queue # <<>>
         PROVE  Tail(queue) \in Seq(0..MaxHeard) /\ Head(queue) \in 0..MaxHeard
  BY <1>i, <1>head DEF WordsOK
<1>5. CASE TakePart
  <2>1. /\ queue # <<>> /\ queue' = Tail(queue) /\ Head(queue) # 0
        /\ \/ parts' = Append(parts, Head(queue)) /\ UNCHANGED merged
           \/ merged' = merged \cup {Head(queue)} /\ UNCHANGED parts
        /\ UNCHANGED <<live, heard, answered, ours>>
    BY <1>5 DEF TakePart, Merge
  <2>2. Head(queue) \in 1..MaxHeard /\ queue' \in Seq(0..MaxHeard)
    BY <1>i, <1>head, <2>1
  <2>3. parts' \in Seq(1..MaxHeard) /\ merged' \subseteq 1..MaxHeard
    <3>1. parts \in Seq(1..MaxHeard) /\ merged \subseteq 1..MaxHeard
      BY <1>i DEF WordsOK
    <3>2. CASE parts' = Append(parts, Head(queue)) /\ UNCHANGED merged
      BY ONLY <2>2, <3>1, <3>2
    <3>3. CASE merged' = merged \cup {Head(queue)} /\ UNCHANGED parts
      BY ONLY <2>2, <3>1, <3>3
    <3> QED
      BY <2>1, <3>2, <3>3
  <2> QED
    BY <1>i, <2>1, <2>2, <2>3 DEF WordsOK
<1>6. CASE TakeEcho
  <2>1. /\ queue # <<>> /\ queue' = Tail(queue)
        /\ UNCHANGED <<live, heard, parts, answered, ours, merged>>
    BY <1>6 DEF TakeEcho, world
  <2> QED
    BY <1>i, <1>head, <2>1 DEF WordsOK
<1>gathered. Gathered => /\ answered' \in Seq(1..MaxHeard) /\ parts' \in Seq(1..MaxHeard)
  BY <1>i DEF Gathered, WordsOK
<1>7. CASE TakeSentinel
  <2>1. queue # <<>> /\ queue' = Tail(queue) /\ UNCHANGED <<live, heard, ours, merged>>
    BY <1>7 DEF TakeSentinel, world
  <2>2. answered' \in Seq(1..MaxHeard) /\ parts' \in Seq(1..MaxHeard)
    <3>1. CASE pump = "gather"
      BY <1>7, <3>1, <1>gathered DEF TakeSentinel
    <3>2. CASE pump # "gather"
      BY <1>i, <1>7, <3>2 DEF TakeSentinel, gathering, WordsOK
    <3> QED
      BY <3>1, <3>2
  <2> QED
    BY <1>i, <1>head, <2>1, <2>2 DEF WordsOK
<1>8. CASE WindowCloses
  <2>1. Gathered /\ UNCHANGED <<queue, live, heard, ours, merged>>
    BY <1>8 DEF WindowCloses, world
  <2> QED
    BY <1>i, <1>gathered, <2>1 DEF WordsOK
<1>9. CASE IdleEnds
  BY <1>9, <1>same DEF IdleEnds, world, gathering
<1>10. CASE Reply
  BY <1>10, <1>same DEF Reply, ReplyBegins, ReplyAudio, BargeIn, ReplyEnds, Saved, PumpDies,
                        turnVars, gathering, world
<1>11. CASE Greet
  BY <1>11, <1>same DEF Greet, GreetAsks, GreetAudio, GreetEnds, GreetFallback,
                        turnVars, gathering, world
<1>12. CASE Close
  BY <1>12, <1>same DEF Close, LimitReached, CloseSpeaks, NapOver, HangUp,
                        turnVars, gathering, world
<1>13. CASE Tick
  BY <1>13, <1>same DEF Tick
<1> QED
  BY <1>1, <1>2, <1>3, <1>4, <1>5, <1>6, <1>7, <1>8, <1>9, <1>10, <1>11, <1>12, <1>13
  DEF Next, Stt, Turns

LEMMA TurnTypeStep ==
  ASSUME IInv, Next
  PROVE  TurnOK'
<1>i. /\ TurnOK /\ MaxHeard \in Nat /\ MaxHold \in Nat /\ Window \in Nat /\ Idle \in Nat
      /\ 0 \in 0..Longest /\ Longest \in Nat
  <2>1. MaxHeard \in Nat /\ MaxHold \in Nat /\ Window \in Nat /\ Idle \in Nat
    BY BoundAssumption, TimeAssumption
  <2> QED
    BY <2>1, TypeParts DEF IInv, Longest
<1>same. UNCHANGED <<pump, quiet, left, turn, age>> => TurnOK'
  BY <1>i DEF TurnOK
<1>1. CASE Stt
  BY <1>1, <1>same DEF Stt, SpeechStarts, Delivered, SttEnds, Words, turnVars, gathering
<1>2. CASE TakePart
  <2>1. /\ pump' = "gather" /\ left' \in {left, MaxHold} /\ quiet' = 0 /\ UNCHANGED <<turn, age>>
    BY <1>2 DEF TakePart
  <2> QED
    BY <1>i, <2>1 DEF TurnOK
<1>3. CASE TakeEcho
  <2>1. quiet' = 0 /\ UNCHANGED <<pump, left, turn, age>>
    BY <1>3 DEF TakeEcho
  <2> QED
    BY <1>i, <2>1 DEF TurnOK
<1>gathered. ASSUME pump = "gather", Gathered PROVE TurnOK'
  <2>1. turn + 1 \in 0..MaxHeard
    BY <1>gathered, <1>i, TurnBehind
  <2>2. pump' = "turn" /\ turn' = turn + 1 /\ age' = 0 /\ UNCHANGED <<quiet, left>>
    BY <1>gathered DEF Gathered
  <2> QED
    BY <1>i, <2>1, <2>2 DEF TurnOK
<1>off. pump' = "off" /\ UNCHANGED <<quiet, left, turn, age>> => TurnOK'
  BY <1>i DEF TurnOK
<1>4. CASE TakeSentinel
  <2>1. CASE pump = "gather"
    BY <1>4, <2>1, <1>gathered DEF TakeSentinel
  <2>2. CASE pump # "gather"
    BY <1>4, <2>2, <1>off DEF TakeSentinel, gathering
  <2> QED
    BY <2>1, <2>2
<1>5. CASE WindowCloses
  BY <1>5, <1>gathered DEF WindowCloses
<1>6. CASE IdleEnds
  BY <1>6, <1>off DEF IdleEnds, gathering
<1>7. CASE ReplyAudio
  BY <1>7, <1>same DEF ReplyAudio, turnVars, gathering
<1>8. CASE ReplyBegins \/ BargeIn \/ ReplyEnds \/ PumpDies
  <2>1. pump' \in {"speak", "save", "off"} /\ UNCHANGED <<quiet, left, turn, age>>
    BY <1>8 DEF ReplyBegins, BargeIn, ReplyEnds, PumpDies, gathering
  <2> QED
    BY <1>i, <2>1 DEF TurnOK
<1>9. CASE Saved
  <2>1. pump' = "wait" /\ quiet' = 0 /\ UNCHANGED <<left, turn, age>>
    BY <1>9 DEF Saved
  <2> QED
    BY <1>i, <2>1 DEF TurnOK
<1>10. CASE Greet
  BY <1>10, <1>same DEF Greet, GreetAsks, GreetAudio, GreetEnds, GreetFallback, turnVars,
     gathering
<1>11. CASE Close
  BY <1>11, <1>same DEF Close, LimitReached, CloseSpeaks, NapOver, HangUp, turnVars, gathering
<1>12. CASE Tick
  <2>1. /\ quiet' = IF pump \in {"wait", "gather"} THEN quiet + 1 ELSE quiet
        /\ left' = IF pump = "gather" THEN Less(left) ELSE left
        /\ age'  = IF pump = "gather" THEN age + 1 ELSE age
        /\ UNCHANGED <<pump, turn>>
    BY <1>12 DEF Tick
  <2>2. /\ pump = "gather" => ~ quiet >= Window
        /\ pump = "wait" => ~ quiet >= Idle
    BY <1>12 DEF Tick, Due
  <2>3. quiet' \in 0..Longest
    BY <1>i, <2>1, <2>2 DEF TurnOK, Longest
  <2>4. left' \in 0..MaxHold /\ age' \in Nat
    BY <1>i, <2>1 DEF TurnOK, Less
  <2> QED
    BY <1>i, <2>1, <2>3, <2>4 DEF TurnOK
<1> QED
  BY <1>1, <1>2, <1>3, <1>4, <1>5, <1>6, <1>7, <1>8, <1>9, <1>10, <1>11, <1>12
  DEF Next, Turns, Reply

LEMMA FloorTypeStep ==
  ASSUME IInv, Next
  PROVE  FloorOK'
<1>i. FloorOK /\ call.chunks \in Nat /\ call' = call
  BY TypeParts, CallTypes, CallKept DEF IInv
<1>h. /\ \A x \in Users : Waits(x) => line' \in Seq(Users)
      /\ \A x \in Users : Holds(x) /\ Releases => line' \in Seq(Users)
  <2>1. line \in Seq(Users)
    BY <1>i DEF FloorOK
  <2>2. ASSUME NEW x \in Users, Waits(x) PROVE line' \in Seq(Users)
    BY ONLY <2>1, <2>2 DEF Waits
  <2>3. ASSUME NEW x \in Users, Holds(x), Releases PROVE line' \in Seq(Users)
    BY ONLY <2>1, <2>3 DEF Holds, Releases
  <2> QED
    BY <2>2, <2>3
<1>u. "reply" \in Users /\ "greet" \in Users /\ "close" \in Users
  BY DEF Users
<1>same. UNCHANGED <<chunks, line, greet, close, nap>> => FloorOK'
  BY <1>i DEF FloorOK
<1>line. line' \in Seq(Users) /\ UNCHANGED <<chunks, greet, close, nap>> => FloorOK'
  BY <1>i DEF FloorOK
<1>1. CASE Stt
  BY <1>1, <1>same DEF Stt, SpeechStarts, Delivered, SttEnds, Words, floor, tasks
<1>2. CASE TakePart \/ TakeEcho \/ IdleEnds
  BY <1>2, <1>same DEF TakePart, TakeEcho, IdleEnds, floor, tasks
<1>3. CASE TakeSentinel
  <2>1. UNCHANGED <<chunks, greet, close, nap>>
    BY <1>3 DEF TakeSentinel, tasks
  <2>2. line' \in Seq(Users)
    <3>1. CASE pump = "gather"
      BY <1>3, <3>1, <1>h, <1>u DEF TakeSentinel, Gathered
    <3>2. CASE pump # "gather"
      BY <1>i, <1>3, <3>2 DEF TakeSentinel, FloorOK
    <3> QED
      BY <3>1, <3>2
  <2> QED
    BY <2>1, <2>2, <1>line
<1>4. CASE WindowCloses
  BY <1>4, <1>h, <1>u, <1>line DEF WindowCloses, Gathered, tasks
<1>5. CASE ReplyBegins
  <2>1. chunks' = 0 /\ UNCHANGED <<line, greet, close, nap>>
    BY <1>5 DEF ReplyBegins, tasks
  <2> QED
    BY <1>i, <2>1 DEF FloorOK
<1>6. CASE ReplyAudio
  <2>1. chunks' = chunks + 1 /\ chunks < call.chunks /\ UNCHANGED <<line, greet, close, nap>>
    BY <1>6 DEF ReplyAudio, tasks
  <2> QED
    BY <1>i, <2>1 DEF FloorOK
<1>7. CASE BargeIn \/ ReplyEnds \/ Saved \/ PumpDies
  <2>1. UNCHANGED <<chunks, greet, close, nap>>
    BY <1>7 DEF BargeIn, ReplyEnds, Saved, PumpDies, floor, tasks
  <2>2. \/ pump = "speak" /\ Releases
        \/ line' = line
    BY <1>7 DEF BargeIn, ReplyEnds, Saved, PumpDies, floor
  <2>3. pump = "speak" => Holds("reply")
    BY DEF IInv, Locked
  <2>4. line' \in Seq(Users)
    BY <1>i, <1>h, <1>u, <2>2, <2>3 DEF FloorOK
  <2> QED
    BY <2>1, <2>4, <1>line
<1>8. CASE GreetAsks
  <2>1. greet' = "line" /\ Waits("greet") /\ UNCHANGED <<chunks, close, nap>>
    BY <1>8 DEF GreetAsks
  <2> QED
    BY <1>i, <1>h, <1>u, <2>1 DEF FloorOK
<1>9. CASE GreetAudio
  <2>1. /\ chunks' = (IF greet = "line" THEN 1 ELSE chunks + 1) /\ greet' = "speak"
        /\ greet = "speak" => chunks < call.chunks
        /\ greet \in {"line", "speak"}
        /\ UNCHANGED <<line, close, nap>>
    BY <1>9 DEF GreetAudio
  <2>2. chunks' \in 0..(call.chunks + 1)
    BY <1>i, <2>1 DEF FloorOK
  <2> QED
    BY <1>i, <2>1, <2>2 DEF FloorOK
<1>10. CASE GreetEnds \/ GreetFallback
  <2>1. greet' = "done" /\ Holds("greet") /\ Releases /\ UNCHANGED <<chunks, close, nap>>
    BY <1>10 DEF GreetEnds, GreetFallback
  <2> QED
    BY <1>i, <1>h, <1>u, <2>1 DEF FloorOK
<1>11. CASE LimitReached
  <2>1. /\ close' \in {"line", "hangup"} /\ UNCHANGED <<chunks, greet, nap>>
        /\ Waits("close") \/ line' = line
    BY <1>11 DEF LimitReached
  <2> QED
    BY <1>i, <1>h, <1>u, <2>1 DEF FloorOK
<1>12. CASE CloseSpeaks
  <2>1. /\ close' = "sleep" /\ nap' = 0 /\ Holds("close") /\ Releases
        /\ UNCHANGED <<chunks, greet>>
    BY <1>12 DEF CloseSpeaks
  <2> QED
    BY <1>i, <1>h, <1>u, <2>1 DEF FloorOK
<1>13. CASE NapOver \/ HangUp
  <2>1. close' \in {"hangup", "done"} /\ UNCHANGED <<chunks, line, greet, nap>>
    BY <1>13 DEF NapOver, HangUp, floor
  <2> QED
    BY <1>i, <2>1 DEF FloorOK
<1>14. CASE Tick
  <2>1. /\ nap' = (IF close = "sleep" /\ nap < 2 THEN nap + 1 ELSE nap)
        /\ UNCHANGED <<chunks, line, greet, close>>
    BY <1>14 DEF Tick, floor
  <2>2. nap' \in 0..2
    BY <1>i, <2>1 DEF FloorOK
  <2> QED
    BY <1>i, <2>1, <2>2 DEF FloorOK
<1> QED
  BY <1>1, <1>2, <1>3, <1>4, <1>5, <1>6, <1>7, <1>8, <1>9, <1>10, <1>11, <1>12, <1>13, <1>14
  DEF Next, Turns, Reply, Greet, Close

LEMMA SoundTypeStep ==
  ASSUME IInv, Next
  PROVE  SoundOK'
<1>i. SoundOK /\ EchoTail \in Nat \ {0} /\ MaxHeard \in Nat /\ turn \in 0..MaxHeard
  BY TypeParts, BoundAssumption, TimeAssumption DEF IInv, TypeOK
<1>who. Greeting \in Speakers /\ Goodbye \in Speakers /\ turn \in Speakers
  BY <1>i DEF Greeting, Goodbye, Speakers
<1>ages. /\ noted.reply \in Ages /\ noted.greet \in Ages /\ Retention \in Nat
         /\ 0 \in Ages /\ Ages \subseteq Nat
         /\ \A n \in Ages : Older(n) \in Ages
  BY <1>i, TimeAssumption DEF SoundOK, Ages, Older
<1>send. ASSUME NEW who \in Speakers, NEW n \in Ages, Send(who, n)
         PROVE  buffer' \in Seq(Chunks) /\ out' \in Seq(Speakers)
  <2>1. [by |-> who, since |-> n] \in Chunks
    BY DEF Chunks
  <2> QED
    BY <1>i, <1>send, <2>1 DEF Send, SoundOK
<1>noted. ASSUME NEW who \in Speakers, NEW n \in Ages, SendNoted(who, n), since' = since,
                 noted' \in [greet : Ages, reply : Ages]
          PROVE  SoundOK'
  <2>1. until' = until + 1 /\ lag' = 0 /\ Send(who, n)
    BY <1>noted DEF SendNoted
  <2> QED
    BY <1>i, <1>send, <1>noted, <2>1 DEF SoundOK
<1>same. UNCHANGED <<until, lag, buffer, out, noted, since>> => SoundOK'
  BY <1>i DEF SoundOK
<1>began. ASSUME UNCHANGED <<until, lag, buffer, out, since>>,
                 \/ noted' = [noted EXCEPT !.reply = 0] \/ noted' = [noted EXCEPT !.greet = 0]
          PROVE  SoundOK'
  BY <1>i, <1>ages, <1>began DEF SoundOK
<1>1. CASE SpeechStarts \/ Delivered \/ SttEnds
  BY <1>1, <1>same DEF SpeechStarts, Delivered, SttEnds, sound, air
<1>2. CASE \E w \in {"caller", "ours"} : Words(w)
  <2>1. /\ UNCHANGED <<until, lag, buffer, out, noted>>
        /\ \/ since' = since
           \/ buffer # <<>> /\ since' = [since EXCEPT ![heard + 1] = Head(buffer).since]
    BY <1>2 DEF Words, air
  <2>2. buffer # <<>> => Head(buffer).since \in Ages
    <3>1. buffer # <<>> => Head(buffer) \in Chunks
      BY <1>i DEF SoundOK
    <3> QED
      BY <3>1 DEF Chunks
  <2>3. since' \in [1..MaxHeard -> Ages]
    BY <1>i, <2>1, <2>2 DEF SoundOK
  <2> QED
    BY <1>i, <2>1, <2>3 DEF SoundOK
<1>3. CASE Turns
  BY <1>3, <1>same DEF Turns, TakePart, TakeEcho, TakeSentinel, WindowCloses, IdleEnds, sound, air
<1>4. CASE ReplyBegins
  BY <1>4, <1>began DEF ReplyBegins, air
<1>5. CASE ReplyAudio
  <2>1. PICK n \in 0..noted.reply : /\ SendNoted(turn, n) /\ since' = since
                                    /\ noted' = [noted EXCEPT !.reply = n]
    BY <1>5 DEF ReplyAudio
  <2>2. n \in Ages
    BY <1>ages DEF Ages
  <2>3. noted' \in [greet : Ages, reply : Ages]
    BY <1>i, <2>1, <2>2 DEF SoundOK
  <2> QED
    BY <1>who, <1>noted, <2>1, <2>2, <2>3
<1>6. CASE BargeIn
  <2>1. buffer' = <<>> /\ until' = 0 /\ lag' = 0 /\ UNCHANGED <<out, noted, since>>
    BY <1>6 DEF BargeIn, Clear
  <2> QED
    BY <1>i, <2>1 DEF SoundOK
<1>7. CASE ReplyEnds \/ Saved \/ PumpDies
  BY <1>7, <1>same DEF ReplyEnds, Saved, PumpDies, sound, air
<1>8. CASE GreetAsks
  BY <1>8, <1>began DEF GreetAsks, air
<1>9. CASE GreetAudio
  <2>1. SendNoted(Greeting, noted.greet) /\ UNCHANGED <<noted, since>>
    BY <1>9 DEF GreetAudio
  <2> QED
    BY <1>i, <1>who, <1>ages, <1>noted, <2>1 DEF SoundOK
<1>10. CASE GreetEnds
  BY <1>10, <1>same DEF GreetEnds, sound, air
<1>11. CASE GreetFallback
  <2>1. Send(Greeting, noted.greet) /\ UNCHANGED <<until, lag, noted, since>>
    BY <1>11 DEF GreetFallback
  <2> QED
    BY <1>i, <1>who, <1>ages, <1>send, <2>1 DEF SoundOK
<1>12. CASE CloseSpeaks
  <2>1. SendNoted(Goodbye, 0) /\ UNCHANGED <<noted, since>>
    BY <1>12 DEF CloseSpeaks
  <2> QED
    BY <1>i, <1>who, <1>ages, <1>noted, <2>1 DEF SoundOK
<1>13. CASE LimitReached \/ NapOver \/ HangUp
  BY <1>13, <1>same DEF LimitReached, NapOver, HangUp, sound, air
<1>14. CASE Tick
  <2>1. /\ until' = Less(until) /\ out' = out
        /\ lag' = IF until > 0 \/ lag > EchoTail THEN lag ELSE lag + 1
    BY <1>14 DEF Tick
  <2>2. until' \in Nat /\ lag' \in 0..(EchoTail + 1)
    BY <1>i, <2>1 DEF SoundOK, Less
  <2>3. buffer' \in Seq(Chunks)
    <3>1. Len(buffer) \in Nat /\ \A i \in 1..Len(buffer) : buffer[i] \in Chunks
      BY <1>i DEF SoundOK
    <3>2. /\ Less(Len(buffer)) \in Nat
          /\ \A i \in 1..Less(Len(buffer)) : i + 1 \in 1..Len(buffer)
      BY <3>1 DEF Less
    <3>3. \A c \in Chunks : [c EXCEPT !.since = Older(@)] \in Chunks
      BY <1>ages DEF Chunks
    <3>4. \A i \in 1..Less(Len(buffer)) : [buffer[i + 1] EXCEPT !.since = Older(@)] \in Chunks
      BY <3>1, <3>2, <3>3
    <3>5. buffer' = [i \in 1..Less(Len(buffer)) |->
                       [buffer[i + 1] EXCEPT !.since = Older(@)]]
      BY <1>14 DEF Tick
    <3> DEFINE Played(i) == [buffer[i + 1] EXCEPT !.since = Older(@)]
               Rest      == Less(Len(buffer))
    <3>6. /\ buffer' = [i \in 1..Rest |-> Played(i)]
          /\ Rest \in Nat /\ \A i \in 1..Rest : Played(i) \in Chunks
      BY <3>2, <3>4, <3>5
    <3> HIDE DEF Played, Rest
    <3> QED
      BY <3>6
  <2>4. noted' \in [greet : Ages, reply : Ages]
    BY <1>14, <1>ages DEF Tick
  <2>5. since' \in [1..MaxHeard -> Ages]
    <3>1. \A n \in 1..MaxHeard : since[n] \in Ages
      BY <1>i DEF SoundOK
    <3> QED
      BY <1>14, <1>ages, <3>1 DEF Tick
  <2> QED
    BY <1>i, <2>1, <2>2, <2>3, <2>4, <2>5 DEF SoundOK
<1> QED
  BY <1>1, <1>2, <1>3, <1>4, <1>5, <1>6, <1>7, <1>8, <1>9, <1>10, <1>11, <1>12, <1>13, <1>14
  DEF Next, Stt, Reply, Greet, Close

-----------------------------------------------------------------------------
(* The results *)

LEMMA Initially == Init => IInv
<1> SUFFICES ASSUME Init PROVE IInv
  OBVIOUS
<1>t. /\ MaxHeard \in Nat /\ MaxHold \in Nat /\ EchoTail \in Nat /\ Window \in Nat /\ Idle \in Nat
      /\ Retention \in Nat /\ call \in Calls /\ call.heard \in Nat
      /\ call.chunks \in Nat /\ call.boxed \in BOOLEAN
  BY BoundAssumption, TimeAssumption DEF Init
<1>0. SetOf(<<>>) = {} /\ <<>> \in Seq(Nat)
  BY SetOfEmpty
<1>1. TypeOK
  <2>1. FlagsOK
    BY Zenon DEF Init, FlagsOK
  <2>2. WordsOK
    BY <1>t DEF Init, WordsOK
  <2>3. TurnOK
    BY <1>t DEF Init, TurnOK, Longest
  <2>4. FloorOK
    BY <1>t DEF Init, FloorOK
  <2>5. SoundOK
    BY <1>t DEF Init, SoundOK, Ages
  <2> QED
    BY <2>1, <2>2, <2>3, <2>4, <2>5, TypeParts
<1>2. Locked
  BY <1>0, <1>t DEF Init, Locked, Once
<1>3. Spoken
  BY <1>0 DEF Init, Spoken, NeverInterleaved
<1>4. InOrder
  BY <1>0 DEF Init, InOrder, Rising, Ended
<1>5. Everywhere /\ Bounded
  BY <1>t DEF Init, Everywhere, Bounded
<1>6. Heeded
  BY <1>0 DEF Init, Heeded
<1>8. Unanswered
  BY <1>0 DEF Init, Unanswered
<1>7. Held
  BY DEF Init, Held
<1> QED
  BY <1>1, <1>2, <1>3, <1>4, <1>5, <1>6, <1>7, <1>8 DEF IInv

LEMMA Stutters == IInv /\ UNCHANGED vars => IInv'
<1> SUFFICES ASSUME IInv, UNCHANGED vars PROVE IInv'
  OBVIOUS
<1>v. /\ UNCHANGED <<call, up, live, started, sttUp, heard, ours, merged, queue, pump>>
      /\ UNCHANGED <<parts, quiet, left, turn, answered, age, chunks, line, greet, close, nap>>
      /\ UNCHANGED <<until, lag, buffer, out, blind, noted, since>>
  BY DEF vars, world, turnVars, gathering, floor, tasks, sound, air
<1>1. TypeOK'
  BY <1>v, Zenon DEF IInv, TypeOK
<1>2. Locked' /\ Held'
  BY <1>v DEF IInv, Locked, Held, Once, SetOf, Holds
<1>3. Spoken'
  BY <1>v DEF IInv, Spoken, NeverInterleaved, SetOf
<1>4. InOrder' /\ Everywhere' /\ Bounded'
  BY <1>v DEF IInv, InOrder, Everywhere, Bounded, Rising, Ended, SetOf
<1>5. Heeded' /\ Unanswered'
  BY <1>v DEF IInv, Heeded, Unanswered, InWindow, Pruned, SetOf
<1> QED
  BY <1>1, <1>2, <1>3, <1>4, <1>5 DEF IInv

LEMMA Steps == IInv /\ [Next]_vars => IInv'
<1> SUFFICES ASSUME IInv, [Next]_vars PROVE IInv'
  OBVIOUS
<1>1. CASE Next
  <2>1. TypeOK'
    BY <1>1, FlagsStep, WordsTypeStep, TurnTypeStep, FloorTypeStep, SoundTypeStep, TypePartsNext
  <2>2. /\ Locked' /\ Spoken' /\ InOrder' /\ Everywhere' /\ Bounded' /\ Heeded' /\ Unanswered'
        /\ Held'
    BY <1>1, LockedStep, SpokenStep, WordsStep, BoundedStep, HeededStep, UnansweredStep, HeldStep
  <2> QED
    BY <2>1, <2>2 DEF IInv
<1>2. CASE UNCHANGED vars
  BY <1>2, Stutters
<1> QED
  BY <1>1, <1>2

LEMMA EndedConcat ==
  ASSUME NEW s \in Seq(Nat), NEW t \in Seq(Nat), Rising(s), Ended(t), 0 \notin SetOf(s),
         \A x \in SetOf(s) : \A y \in SetOf(t) : y # 0 => x < y
  PROVE  Ended(s \o t)
<1>1. \A i \in 1..(Len(s) + Len(t)) :
         i \in 1..Len(s) \/ (i - Len(s) \in 1..Len(t) /\ ~ i <= Len(s))
  OBVIOUS
<1>2. /\ \A i \in 1..Len(s) : s[i] # 0
      /\ \A i \in 1..Len(s) : \A j \in 1..Len(t) : t[j] # 0 => s[i] < t[j]
  BY DEF SetOf
<1>3. ASSUME NEW i \in 1..(Len(s) + Len(t)), NEW j \in 1..(Len(s) + Len(t)), i < j
      PROVE  (s \o t)[i] # 0 /\ ((s \o t)[j] # 0 => (s \o t)[i] < (s \o t)[j])
  <2>1. CASE i \in 1..Len(s) /\ j \in 1..Len(s)
    BY <1>2, <1>3, <2>1, SetOfConcat DEF Rising
  <2>2. CASE i \in 1..Len(s) /\ j - Len(s) \in 1..Len(t) /\ ~ j <= Len(s)
    BY <1>2, <2>2, SetOfConcat
  <2>3. CASE /\ i - Len(s) \in 1..Len(t) /\ ~ i <= Len(s)
             /\ j - Len(s) \in 1..Len(t) /\ ~ j <= Len(s)
    <3>1. i - Len(s) < j - Len(s)
      BY <1>3
    <3> QED
      BY <2>3, <3>1, SetOfConcat DEF Ended
  <2>4. i \in 1..Len(s) \/ ~ j \in 1..Len(s)
    BY <1>3
  <2> QED
    BY <1>1, <2>1, <2>2, <2>3, <2>4
<1> QED
  BY <1>3, SetOfConcat DEF Ended

\* The invariant says of the three sequences what EachWordInOneTurn says of the
\* one they make.
LEMMA InTurn == IInv => EachWordInOneTurn
<1> SUFFICES ASSUME IInv PROVE EachWordInOneTurn
  OBVIOUS
<1> DEFINE taken == answered \o parts
           all   == answered \o parts \o queue
<1>t. /\ answered \in Seq(Nat) /\ parts \in Seq(Nat) /\ queue \in Seq(Nat)
      /\ SetOf(answered) \subseteq 1..MaxHeard /\ SetOf(parts) \subseteq 1..MaxHeard
      /\ MaxHeard \in Nat
  BY WordTypes DEF IInv
<1>1. taken \in Seq(Nat) /\ SetOf(taken) = SetOf(answered) \cup SetOf(parts)
  BY <1>t, SetOfConcat
<1>2. Rising(taken)
  BY <1>t, RisingConcat DEF IInv, InOrder
<1>3. 0 \notin SetOf(taken)
  BY <1>t, <1>1
<1>4. Ended(queue) /\ \A x \in SetOf(taken) : \A y \in SetOf(queue) : y # 0 => x < y
  BY <1>1 DEF IInv, InOrder
<1> HIDE DEF taken
<1>5. Ended(taken \o queue)
  BY <1>t, <1>1, <1>2, <1>3, <1>4, EndedConcat
<1>6. taken \o queue \in Seq(Nat) /\ SetOf(taken \o queue) = SetOf(taken) \cup SetOf(queue)
  BY <1>t, <1>1, SetOfConcat
<1>7. all = taken \o queue
  BY DEF taken
<1> HIDE DEF all
<1>8. \A i, j \in DOMAIN all : i < j /\ all[j] # 0 => 0 < all[i] /\ all[i] < all[j]
  <2>1. \A i \in DOMAIN all : all[i] \in Nat
    BY <1>6, <1>7
  <2>2. \A i, j \in DOMAIN all : i < j => all[i] # 0 /\ (all[j] # 0 => all[i] < all[j])
    BY <1>5, <1>7 DEF Ended
  <2> QED
    BY <2>1, <2>2
<1>9. 1..heard \subseteq SetOf(all) \cup ours \cup merged
  BY <1>1, <1>6, <1>7 DEF IInv, Everywhere
<1> QED
  BY <1>8, <1>9 DEF EachWordInOneTurn, all

\* The lock, the order of the words, the echo window and the deadline, together.
THEOREM Inductive == Spec => []IInv
BY Initially, Steps, PTL DEF Spec

\* Every variable keeps its type: no turn is counted without an utterance behind
\* it, and no timer passes the moment at which its task is due.
THEOREM TypeCorrect == Spec => []TypeOK
<1>1. IInv => TypeOK
  BY DEF IInv
<1> QED
  BY <1>1, Inductive, PTL

\* One voice at a time: the `speaking' lock keeps greeting, replies and goodbye
\* whole, through interruptions, failures and the end of the pump.
THEOREM OneVoice == Spec => []NeverInterleaved
<1>1. IInv => NeverInterleaved
  BY DEF IInv, Spoken
<1> QED
  BY <1>1, Inductive, PTL

\* collect_turn and _pump_turns lose no utterance, use none twice and keep
\* their order.
THEOREM WordsKept == Spec => []EachWordInOneTurn
BY InTurn, Inductive, PTL

\* COALESCE_MAX bounds the gathering of a turn however much the caller says.
THEOREM HeldBriefly == Spec => []HeldNoLongerThanMax
<1>1. IInv => HeldNoLongerThanMax
  <2>1. TypeOK => age \in Nat /\ left \in 0..MaxHold /\ MaxHold \in Nat
    BY TimeAssumption DEF TypeOK
  <2> QED
    BY <2>1 DEF IInv, Held, HeldNoLongerThanMax
<1> QED
  BY <1>1, Inductive, PTL

\* SpokenLog's window covers the audio and its tail, so an echo is known for one
\* before it can start or extend a turn, as long as its text is retained.
THEOREM EchoesHeeded == Spec => []NeverAnswersItself
<1>1. IInv => NeverAnswersItself
  BY DEF IInv, Unanswered, NeverAnswersItself
<1> QED
  BY <1>1, Inductive, PTL
=============================================================================
