---------------------------- MODULE AccountsProofs ----------------------------
(****************************************************************************)
(* Proofs about Access and Accounts, for any requests and addresses, any    *)
(* lifetime of the key cache and any failures.                              *)
(*                                                                          *)
(* None of the four invariants is inductive.  RetiredKeyEnds needs to know  *)
(* when the answers under way and the cache were asked for (Keyring);       *)
(* KeyLimit needs what a request at the limit counted to be no less than    *)
(* what there is, or another request to have inserted since (Counted);      *)
(* NoOrphanCompany needs a child company to belong to the request that made *)
(* it (Children) and those who are served to be served for a company with a *)
(* user (Served); LinkWorksOnce needs a taken link to be gone for good      *)
(* (Linked, TakenOnce) and its click or its user to be found (Spent).       *)
(*                                                                          *)
(* The proof first says of Next which request moves, and how (Progress),    *)
(* and which part of the state each step may change (Parts); the conjuncts  *)
(* then argue from the few steps that touch what they name.                 *)
(****************************************************************************)
EXTENDS Accounts, FiniteSetTheorems, TLAPS

Begun(r) == step[r] \notin {"idle", "begin"}
Made     == {r \in Requests : kind[r] # "none"}

\* Which requests can be at which step.
Fits(k, s) ==
    /\ k = "none" <=> s = "idle"
    /\ s \in {"key", "fetch", "apply", "remote"} => k = "sign"
    /\ s = "limit" => k = "key"
    /\ s \in {"captcha", "insert", "issue", "mail"} => k = "book"
    /\ s = "row" => k = "click"
    /\ s = "status" => k \in {"click", "invite"}
    /\ s = "invite" => k \in {"click", "invite", "child"}
    /\ s = "rollback" => k = "child"

Flow == \A r \in Requests :
           Fits(kind[r], step[r]) /\ (kind[r] # "none" => about[r] \in Emails)

\* The withdrawn key is in an answer only if it was asked for before, and in the
\* cache only if that was filled soon after.
Keyring ==
    /\ fetchedAt <= now /\ retired <= now
    /\ retired # 0 <=> published = {2}
    /\ 1 \in cache /\ retired # 0 => fetchedAt <= retired + FetchTime
    /\ \A r \in Requests :
        /\ accepted[r] <= now
        /\ step[r] \in {"idle", "begin", "key", "fetch", "apply"} => accepted[r] = 0
        /\ step[r] \in {"fetch", "apply"} => asked[r] <= now /\ now - asked[r] <= FetchTime
        /\ step[r] = "apply" /\ 1 \in reply[r] /\ retired # 0 => asked[r] <= retired

\* What a request counted is what there is, or another inserted beside it; and
\* each key above the limit is that of a request another inserted beside.
Counted ==
    /\ IsFiniteSet(Made) /\ active \subseteq Made
    /\ \A r \in raced : Begun(r)
    /\ \A r \in Requests \ raced : step[r] = "limit" => Cardinality(active) <= counted[r]
    /\ Cardinality(active) <= MaxKeys + Cardinality({r \in raced : step[r] # "limit"})

\* A child company belongs to the request that inserted it, and its user is the
\* one that request names.
Children ==
    /\ \A r \in Requests : Child(r) \in companies \/ r \in undone => kind[r] = "child" /\ Begun(r)
    /\ \A e \in Emails, r \in Requests :
          users[e] = Child(r) => about[r] = e /\ kind[r] = "child" /\ Begun(r)

\* A company that somebody is served for has a user, or its request was rolled
\* back after all.
Known(c) ==
    \/ c = NoCompany
    \/ c \in companies /\ \E e \in Emails : users[e] = c
    \/ c \in {Child(r) : r \in undone}

Served ==
    /\ \A r \in Requests : Known(actsFor[r])
    /\ \A e \in Emails : Known(cached[e])

\* A link is that of a booking, and names its address.
Linked ==
    /\ \A t \in rows \cup links \cup expired \cup mailed : kind[t] = "book" /\ Begun(t)
    /\ \A t \in mailed : step[t] \in {"done", "failed"}
    /\ \A t \in Requests : step[t] = "mail" => t \in links \cup expired
    /\ \A r \in Requests :
        /\ link[r] # 0 =>
              /\ kind[r] \in {"click", "invite"} /\ Begun(r)
              /\ kind[link[r]] = "book" /\ Begun(link[r])
              /\ about[r] = about[link[r]]
              /\ kind[r] = "click" => link[r] \in mailed
        /\ step[r] \in {"row", "status"} => link[r] # 0
        /\ step[r] = "invite" => link[r] # 0 \/ kind[r] = "child"

\* Requests that took a link.
Took(r) == kind[r] = "click" /\ link[r] # 0 /\ step[r] # "refused"

TakenOnce ==
    /\ \A r \in Requests : Took(r) => link[r] \notin links
    /\ \A q, r \in Requests : Took(q) /\ Took(r) /\ link[q] = link[r] => q = r

\* What became of a link that works no more.
Spent ==
    /\ \A t \in mailed \ links :
          \/ t \in expired
          \/ users[about[t]] # NoCompany
          \/ \E r \in Requests : Took(r) /\ link[r] = t /\ step[r] \in {"row", "invite", "failed"}
    /\ \A r \in Requests : step[r] = "status" => users[about[r]] # NoCompany
    /\ \A t \in invited : users[about[t]] # NoCompany

IInv ==
    /\ TypeOK
    /\ Flow
    /\ Keyring
    /\ RetiredKeyEnds
    /\ Counted
    /\ Children
    /\ NoOrphanCompany
    /\ Served
    /\ Linked
    /\ TakenOnce
    /\ Spent

-----------------------------------------------------------------------------
(* What each kind of step changes *)

\* A step of get_signing_key or of the API keys, or the time or Supabase.
SignStep(r) ==
    \/ LookUpKey(r) \/ UseCache(r) \/ BeginFetch(r) \/ FetchAnswered(r) \/ FillCache(r)
    \/ FetchFails(r) \/ VerifyRemotely(r) \/ VerifySecret(r)
KeyStep(r)  == CountKeys(r) \/ RefuseKey(r) \/ InsertKey(r) \/ InsertKeyFails(r) \/ RevokeKey(r)
WorldStep   == Rotate \/ Retire \/ Tick

Elsewhere == UNCHANGED <<about, booking, tenancy, serving>>

\* A step of an account, a booking, an invitation or a company.
BookStep(r)   == \/ Throttle(r) \/ VerifyRecaptcha(r) \/ InsertBooking(r) \/ IssueToken(r)
                 \/ MailLink(r)
LinkStep(r)   == Consume(r) \/ ReadBooking(r) \/ PickBooking(r) \/ MarkInvited(r)
ChildStep(r)  == InsertChild(r) \/ RollBack(r) \/ RollBackFails(r)
ServeStep(r)  == CompanyFromCache(r) \/ LookUpCompany(r) \/ CacheCompany(r) \/ Serve(r)
Expiry        == \/ \E t \in Requests : TokenExpires(t)
                 \/ \E e \in Emails : CompanyCacheExpires(e)
                 \/ ThrottleEnds

\* The companies are told apart by their `of' and `n'.
LEMMA Companies ==
  /\ \A e \in Emails : Own(e) \in Company \ {NoCompany, Unlinked} /\ Own(e).of = "own"
  /\ \A r \in Requests : /\ Child(r) \in Company \ {NoCompany, Unlinked}
                         /\ Child(r).of = "child" /\ Child(r).n = r
  /\ \A c \in Company : c.of = "child" => c.n \in Requests /\ c = Child(c.n)
  /\ NoCompany \in Company /\ Unlinked \in Company /\ NoCompany # Unlinked
<1>1. NoCompany.of = "none" /\ Unlinked.of = "unlinked" /\ NoCompany # Unlinked
  BY DEF NoCompany, Unlinked
<1>2. \A e : Own(e).of = "own"
  BY DEF Own
<1>3. \A r : Child(r).of = "child" /\ Child(r).n = r
  BY DEF Child
<1> QED
  BY <1>1, <1>2, <1>3 DEF Company

LEMMA NextSteps ==
  ASSUME Next
  PROVE  \/ \E r \in Requests :
               \/ (SignStep(r) \/ KeyStep(r)) /\ Elsewhere
               \/ \E k \in Kinds, e \in Emails : Arrive(r, k, e)
               \/ BookStep(r) \/ LinkStep(r) \/ Invite(r) \/ InviteChild(r)
               \/ ChildStep(r) \/ ServeStep(r) \/ Die(r)
         \/ WorldStep /\ Elsewhere
         \/ Expiry
BY DEF Next, AccessNext, SignStep, KeyStep, WorldStep, Elsewhere, BookStep, LinkStep, ChildStep,
   ServeStep, Expiry

\* Each part of the state has its own steps; the others leave it alone.
LEMMA Parts ==
  ASSUME Next
  PROVE  /\ UNCHANGED signing \/ WorldStep \/ \E r \in Requests : SignStep(r)
         /\ UNCHANGED apikeys \/ \E r \in Requests : KeyStep(r)
         /\ \/ UNCHANGED booking
            \/ \E r \in Requests : BookStep(r) \/ LinkStep(r) \/ TokenExpires(r)
            \/ ThrottleEnds
         /\ \/ UNCHANGED tenancy
            \/ \E r \in Requests : Invite(r) \/ InviteChild(r) \/ ChildStep(r) \/ Die(r)
         /\ \/ UNCHANGED serving
            \/ \E r \in Requests : ServeStep(r)
            \/ \E e \in Emails : CompanyCacheExpires(e)
<1>1. ASSUME NEW r \in Requests, SignStep(r), Elsewhere
      PROVE  UNCHANGED apikeys
  BY <1>1 DEF SignStep, LookUpKey, UseCache, BeginFetch, FetchAnswered, FillCache, FetchFails,
     VerifyRemotely, VerifySecret, Rest
<1>2. ASSUME NEW r \in Requests, KeyStep(r)
      PROVE  UNCHANGED signing
  BY <1>2 DEF KeyStep, CountKeys, RefuseKey, InsertKey, InsertKeyFails, RevokeKey
<1>3. WorldStep => UNCHANGED apikeys
  BY DEF WorldStep, Rotate, Retire, Tick, Rest
<1>4. ASSUME NEW r \in Requests, NEW k \in Kinds, NEW e \in Emails, Arrive(r, k, e)
      PROVE  UNCHANGED <<signing, apikeys, booking, tenancy, serving>>
  BY <1>4 DEF Arrive
<1>5. ASSUME NEW r \in Requests, BookStep(r)
      PROVE  UNCHANGED <<signing, apikeys, tenancy, serving>>
  BY <1>5 DEF BookStep, Throttle, VerifyRecaptcha, InsertBooking, IssueToken, MailLink, Others
<1>6. ASSUME NEW r \in Requests, LinkStep(r)
      PROVE  UNCHANGED <<signing, apikeys, tenancy, serving>>
  BY <1>6 DEF LinkStep, Consume, ReadBooking, PickBooking, MarkInvited, Others
<1>7. ASSUME NEW r \in Requests, Invite(r) \/ InviteChild(r) \/ ChildStep(r) \/ Die(r)
      PROVE  UNCHANGED <<signing, apikeys, booking, serving>>
  BY <1>7 DEF Invite, InviteChild, ChildStep, InsertChild, RollBack, RollBackFails, Die, Others
<1>8. ASSUME NEW r \in Requests, ServeStep(r)
      PROVE  UNCHANGED <<signing, apikeys, booking, tenancy>>
  BY <1>8 DEF ServeStep, CompanyFromCache, LookUpCompany, CacheCompany, Serve, Others
<1>9. ASSUME NEW t \in Requests, TokenExpires(t)
      PROVE  UNCHANGED <<signing, apikeys, tenancy, serving>>
  BY <1>9 DEF TokenExpires, access
<1>10. ASSUME NEW e \in Emails, CompanyCacheExpires(e)
       PROVE  UNCHANGED <<signing, apikeys, booking, tenancy>>
  BY <1>10 DEF CompanyCacheExpires, access
<1>11. CASE ThrottleEnds
  BY <1>11 DEF ThrottleEnds, access, tenancy, serving
<1> QED
  BY <1>1, <1>2, <1>3, <1>4, <1>5, <1>6, <1>7, <1>8, <1>9, <1>10, <1>11, NextSteps
     DEF Elsewhere, Expiry

\* A step is that of one request, which arrives with an address or goes on; an
\* address and a link are chosen once.
Still(r)   == UNCHANGED <<kind[r], step[r], about[r], link[r]>>
Arrives(r) == /\ kind[r] = "none" /\ kind'[r] \in Kinds /\ step'[r] = "begin"
              /\ about'[r] \in Emails /\ link'[r] = link[r]
GoesOn(r)  == /\ step[r] \notin {"idle", "done", "failed", "refused"} /\ Begun(r)'
              /\ kind'[r] = kind[r] /\ Fits(kind[r], step'[r])
              /\ \/ UNCHANGED <<about[r], link[r]>>
                 \/ /\ step[r] = "begin" /\ about'[r] = about[link'[r]]
                    /\ \/ /\ kind[r] = "click"  /\ link'[r] \in mailed \ links'
                          /\ step'[r] = "refused" \/ link'[r] \in links
                       \/ kind[r] = "invite" /\ link'[r] \in rows
              /\ step'[r] \in {"row", "status", "invite"} =>
                    \/ kind[r] = "child"
                    \/ step[r] \in {"row", "invite"} /\ UNCHANGED link[r]
                    \/ link'[r] \in mailed \cup rows
              /\ step'[r] \in {"key", "fetch", "apply"} => SignStep(r)
              /\ "limit" \in {step[r], step'[r]} => KeyStep(r)
              /\ step'[r] \in {"issue", "mail"} => BookStep(r)
              /\ step[r] = "row" => step'[r] \in {"invite", "failed"}
              /\ step[r] = "invite" /\ kind[r] = "click" => step'[r] \in {"status", "failed"}
              /\ step'[r] = "status" => Invite(r)
              /\ kind[r] = "child" /\ step[r] \in {"invite", "rollback"} =>
                    InviteChild(r) \/ ChildStep(r) \/ Die(r)

LEMMA Progress ==
  ASSUME TypeOK, Flow, Next
  PROVE  /\ kind' \in [Requests -> Kinds \cup {"none"}] /\ step' \in [Requests -> Labels]
         /\ \A r \in Requests : Still(r) \/ Arrives(r) \/ GoesOn(r)
         /\ \A q, r \in Requests : q = r \/ Still(q) \/ Still(r)
<1> USE DEF TypeOK, AccessTypeOK, Flow, Fits, Begun, Goto, At, Labels, Kinds
<1> DEFINE Typed == kind' \in [Requests -> Kinds \cup {"none"}] /\ step' \in [Requests -> Labels]
           Only(r) == Typed /\ \A q \in Requests \ {r} : Still(q)
<1> USE DEF Still, GoesOn
<1>1. ASSUME NEW r \in Requests, SignStep(r), Elsewhere
      PROVE  Only(r) /\ GoesOn(r)
  BY <1>1 DEF SignStep, LookUpKey, UseCache, BeginFetch, FetchAnswered, FillCache, FetchFails,
     VerifyRemotely, VerifySecret, Accept, Elsewhere, booking, Rest
<1>2. ASSUME NEW r \in Requests, KeyStep(r), Elsewhere
      PROVE  Only(r) /\ GoesOn(r)
  BY <1>2 DEF KeyStep, CountKeys, RefuseKey, InsertKey, InsertKeyFails, RevokeKey, Elsewhere,
     booking
<1>3. ASSUME NEW r \in Requests, BookStep(r)
      PROVE  Only(r) /\ GoesOn(r)
  BY <1>3 DEF BookStep, Throttle, VerifyRecaptcha, InsertBooking, IssueToken, MailLink, Others,
     booking
<1>4. ASSUME NEW r \in Requests, LinkStep(r)
      PROVE  Only(r) /\ GoesOn(r)
  <2>1. CASE Consume(r)
    <3>1. PICK t \in mailed : /\ link' = [link EXCEPT ![r] = t]
                              /\ about' = [about EXCEPT ![r] = about[t]]
                              /\ Goto(r, IF t \in links THEN "row" ELSE "refused")
      BY <2>1 DEF Consume
    <3> QED
      BY <2>1, <3>1 DEF Consume
  <2>2. CASE PickBooking(r)
    <3>1. PICK t \in rows : /\ link' = [link EXCEPT ![r] = t]
                            /\ about' = [about EXCEPT ![r] = about[t]]
      BY <2>2 DEF PickBooking
    <3> QED
      BY <2>2, <3>1 DEF PickBooking
  <2>3. CASE ReadBooking(r) \/ MarkInvited(r)
    BY <2>3 DEF ReadBooking, MarkInvited, Others, booking
  <2> QED
    BY <1>4, <2>1, <2>2, <2>3 DEF LinkStep
<1>5. ASSUME NEW r \in Requests, Invite(r) \/ InviteChild(r)
      PROVE  Only(r) /\ GoesOn(r)
  BY <1>5 DEF Invite, InviteChild, Invites, InviteRaises, Others, booking
<1>6. ASSUME NEW r \in Requests, ChildStep(r) \/ Die(r)
      PROVE  Only(r) /\ GoesOn(r)
  BY <1>6 DEF ChildStep, InsertChild, RollBack, RollBackFails, Die, Others, booking
<1>7. ASSUME NEW r \in Requests, ServeStep(r)
      PROVE  Only(r) /\ GoesOn(r)
  BY <1>7 DEF ServeStep, CompanyFromCache, LookUpCompany, CacheCompany, Serve, Others, booking
<1>8. ASSUME NEW r \in Requests, NEW k \in Kinds, NEW e \in Emails, Arrive(r, k, e)
      PROVE  Only(r) /\ Arrives(r)
  BY <1>8 DEF Arrive, Ask, Arrives, booking
<1>9. CASE (WorldStep /\ Elsewhere) \/ Expiry
  BY <1>9 DEF WorldStep, Rotate, Retire, Tick, Rest, Elsewhere, Expiry, TokenExpires,
     CompanyCacheExpires, ThrottleEnds, access, booking
<1> HIDE DEF TypeOK, AccessTypeOK, Flow, Fits, Begun, Goto, At, Labels, Kinds, Still, GoesOn
<1> QED
  BY <1>1, <1>2, <1>3, <1>4, <1>5, <1>6, <1>7, <1>8, <1>9, NextSteps

LEMMA FlowStep ==
  ASSUME IInv, Next
  PROVE  Flow'
<1> SUFFICES ASSUME NEW r \in Requests
             PROVE  (Fits(kind[r], step[r]) /\ (kind[r] # "none" => about[r] \in Emails))'
  BY DEF Flow
<1> USE DEF IInv
<1>1. CASE Still(r)
  BY <1>1 DEF Still, Flow, Fits
<1>2. CASE Arrives(r)
  BY <1>2 DEF Arrives, Flow, Fits, Kinds
<1>3. CASE GoesOn(r)
  <2>1. about'[r] = about[r] \/ \E t \in mailed \cup rows : about'[r] = about[t]
    BY <1>3 DEF GoesOn
  <2>2. \A t \in mailed \cup rows : t \in Requests /\ about[t] \in Emails
    BY DEF Linked, Flow, TypeOK
  <2>3. Fits(kind[r], step[r])' /\ kind'[r] = kind[r]
    BY <1>3 DEF GoesOn
  <2> QED
    BY <2>1, <2>2, <2>3 DEF Flow
<1> QED
  BY <1>1, <1>2, <1>3, Progress

\* Where a request begun earlier stands: with the kind, the address and the link
\* it had, and no step back.
LEMMA Settled ==
  ASSUME IInv, Next, NEW r \in Requests, Begun(r)
  PROVE  Begun(r)' /\ UNCHANGED <<kind[r], about[r], link[r]>>
BY Progress DEF IInv, Begun, Still, Arrives, GoesOn, Flow, Fits

LEMMA AddressKnown ==
  ASSUME IInv, NEW r \in Requests, step[r] # "idle"
  PROVE  kind[r] \in Kinds /\ about[r] \in Emails
BY DEF IInv, TypeOK, AccessTypeOK, Flow, Fits

-----------------------------------------------------------------------------
(* Types *)

LEMMA ChoicesTyped ==
  ASSUME IInv, Next
  PROVE  /\ plan' \in Plans /\ faults' \in Nat
         /\ about' \in [Requests -> Emails \cup {0}] /\ link' \in [Requests -> Requests \cup {0}]
<1> USE DEF IInv, TypeOK, AccessTypeOK
<1> DEFINE Goal == /\ plan' \in Plans /\ faults' \in Nat
                   /\ about' \in [Requests -> Emails \cup {0}]
                   /\ link' \in [Requests -> Requests \cup {0}]
<1>1. ASSUME NEW r \in Requests, SignStep(r), Elsewhere
      PROVE  Goal
  BY <1>1 DEF SignStep, LookUpKey, UseCache, BeginFetch, FetchAnswered, FillCache, FetchFails,
     VerifyRemotely, VerifySecret, Elsewhere, booking, Rest, Fails
<1>2. ASSUME NEW r \in Requests, KeyStep(r), Elsewhere
      PROVE  Goal
  BY <1>2 DEF KeyStep, CountKeys, RefuseKey, InsertKey, InsertKeyFails, RevokeKey, Elsewhere,
     booking, Fails
<1>3. ASSUME NEW r \in Requests, BookStep(r)
      PROVE  Goal
  BY <1>3 DEF BookStep, Throttle, VerifyRecaptcha, InsertBooking, IssueToken, MailLink, Others,
     booking, Fails
<1>4. ASSUME NEW r \in Requests, LinkStep(r)
      PROVE  Goal
  BY <1>4 DEF LinkStep, Consume, ReadBooking, PickBooking, MarkInvited, Others, booking, Fails
<1>5. ASSUME NEW r \in Requests, Invite(r) \/ InviteChild(r)
      PROVE  Goal
  <2>1. about[r] \in Emails
    BY <1>5, AddressKnown DEF Invite, InviteChild
  <2>2. UNCHANGED <<plan, about, link>>
    BY <1>5 DEF Invite, InviteChild, Others, booking
  <2>3. ASSUME NEW c, NEW then, Invites(r, c, then) \/ InviteRaises(r, c, then)
        PROVE  faults' \in Nat
    BY <2>1, <2>3 DEF Invites, InviteRaises, NewUser, Fails
  <2> QED
    BY <1>5, <2>2, <2>3 DEF Invite, InviteChild
<1>6. ASSUME NEW r \in Requests, ChildStep(r) \/ Die(r)
      PROVE  Goal
  BY <1>6 DEF ChildStep, InsertChild, RollBack, RollBackFails, Die, Others, booking, Fails
<1>7. ASSUME NEW r \in Requests, ServeStep(r)
      PROVE  Goal
  BY <1>7 DEF ServeStep, CompanyFromCache, LookUpCompany, CacheCompany, Serve, Others, booking,
     Fails
<1>8. ASSUME NEW r \in Requests, NEW k \in Kinds, NEW e \in Emails, Arrive(r, k, e)
      PROVE  Goal
  BY <1>8 DEF Arrive, booking
<1>9. CASE (WorldStep /\ Elsewhere) \/ Expiry
  BY <1>9 DEF WorldStep, Rotate, Retire, Tick, Rest, Elsewhere, Expiry, TokenExpires,
     CompanyCacheExpires, ThrottleEnds, access, booking
<1> QED
  BY <1>1, <1>2, <1>3, <1>4, <1>5, <1>6, <1>7, <1>8, <1>9, NextSteps

LEMMA TypeOKStep ==
  ASSUME IInv, Next
  PROVE  TypeOK'
<1> USE DEF IInv, TypeOK, AccessTypeOK
<1>a. kind' \in [Requests -> Kinds \cup {"none"}] /\ step' \in [Requests -> Labels]
  BY Progress
<1>b. /\ plan' \in Plans /\ faults' \in Nat
      /\ about' \in [Requests -> Emails \cup {0}] /\ link' \in [Requests -> Requests \cup {0}]
  BY ChoicesTyped
<1>1. /\ now' \in Nat \ {0} /\ fetchedAt' \in Nat /\ retired' \in Nat
      /\ published' \in {{1}, {1, 2}, {2}} /\ cache' \subseteq Signing
      /\ kid' \in [Requests -> Signing] /\ reply' \in [Requests -> SUBSET Signing]
      /\ asked' \in [Requests -> Nat] /\ accepted' \in [Requests -> Nat]
      /\ outage' \subseteq Requests
  <2> DEFINE Goal == /\ now' \in Nat \ {0} /\ fetchedAt' \in Nat /\ retired' \in Nat
                     /\ published' \in {{1}, {1, 2}, {2}} /\ cache' \subseteq Signing
                     /\ kid' \in [Requests -> Signing] /\ reply' \in [Requests -> SUBSET Signing]
                     /\ asked' \in [Requests -> Nat] /\ accepted' \in [Requests -> Nat]
                     /\ outage' \subseteq Requests
  <2>1. ASSUME NEW r \in Requests, SignStep(r)
        PROVE  Goal
    <3>a. published \subseteq Signing
      BY DEF Signing
    <3> USE <3>a
    <3>1. CASE LookUpKey(r)
      BY <3>1 DEF LookUpKey
    <3>2. CASE BeginFetch(r)
      BY <3>2 DEF BeginFetch
    <3>3. CASE FetchAnswered(r)
      BY <3>3 DEF FetchAnswered
    <3>4. CASE UseCache(r) \/ FillCache(r)
      BY <3>4 DEF UseCache, FillCache, Accept
    <3>5. CASE FetchFails(r)
      BY <3>5 DEF FetchFails
    <3>6. CASE VerifyRemotely(r)
      BY <3>6 DEF VerifyRemotely, signing
    <3>7. CASE VerifySecret(r)
      BY <3>7 DEF VerifySecret, signing
    <3> QED
      BY <2>1, <3>1, <3>2, <3>3, <3>4, <3>5, <3>6, <3>7 DEF SignStep
  <2>2. CASE WorldStep
    BY <2>2 DEF WorldStep, Rotate, Retire, Tick
  <2>3. CASE UNCHANGED signing
    BY <2>3 DEF signing
  <2> QED
    BY <2>1, <2>2, <2>3, Parts
<1>2. counted' \in [Requests -> Nat] /\ active' \subseteq Requests /\ raced' \subseteq Requests
  <2>1. ASSUME NEW r \in Requests, KeyStep(r)
        PROVE  /\ counted' \in [Requests -> Nat]
               /\ active' \subseteq Requests /\ raced' \subseteq Requests
    <3>1. Cardinality(active) \in Nat
      BY FS_Subset, FS_CardinalityType DEF Counted
    <3> QED
      BY <2>1, <3>1 DEF KeyStep, CountKeys, RefuseKey, InsertKey, InsertKeyFails, RevokeKey,
         apikeys
  <2> QED
    BY <2>1, Parts DEF apikeys
<1>3. /\ rows' \cup links' \cup mailed' \cup expired' \subseteq Requests
      /\ invited' \subseteq rows'
  <2>1. ASSUME NEW r \in Requests, BookStep(r) \/ LinkStep(r) \/ TokenExpires(r)
        PROVE  /\ rows' \cup links' \cup mailed' \cup expired' \subseteq Requests
               /\ invited' \subseteq rows'
    BY <2>1 DEF BookStep, Throttle, VerifyRecaptcha, InsertBooking, IssueToken, MailLink,
       LinkStep, Consume, ReadBooking, PickBooking, MarkInvited, TokenExpires, booking
  <2> QED
    BY <2>1, Parts DEF booking, ThrottleEnds
<1>4. throttled' \in BOOLEAN
  BY Parts, Zenon DEF BookStep, Throttle, VerifyRecaptcha, InsertBooking, IssueToken, MailLink,
     LinkStep, Consume, ReadBooking, PickBooking, MarkInvited, TokenExpires, ThrottleEnds, booking
<1>5. /\ users' \in [Emails -> Company] /\ companies' \subseteq Company \ {NoCompany, Unlinked}
      /\ untriggered' \subseteq Emails /\ stuck' \cup undone' \subseteq Requests
  <2> DEFINE Goal == /\ users' \in [Emails -> Company]
                     /\ companies' \subseteq Company \ {NoCompany, Unlinked}
                     /\ untriggered' \subseteq Emails /\ stuck' \cup undone' \subseteq Requests
  <2>1. ASSUME NEW r \in Requests, Invite(r)
        PROVE  Goal
    <3>1. about[r] \in Emails /\ Own(about[r]) \in Company \ {NoCompany, Unlinked}
      BY <2>1, Companies, AddressKnown DEF Invite
    <3> QED
      BY <2>1, <3>1, Companies DEF Invite, Invites, InviteRaises, NewUser
  <2>2. ASSUME NEW r \in Requests, InviteChild(r)
        PROVE  Goal
    <3>1. about[r] \in Emails /\ Child(r) \in Company \ {NoCompany, Unlinked}
      BY <2>2, Companies, AddressKnown DEF InviteChild
    <3> QED
      BY <2>2, <3>1, Companies DEF InviteChild, Invites, InviteRaises, NewUser
  <2>3. ASSUME NEW r \in Requests, InsertChild(r)
        PROVE  Goal
    BY <2>3, Companies DEF InsertChild
  <2>4. ASSUME NEW r \in Requests, RollBack(r)
        PROVE  Goal
    BY <2>4, Companies DEF RollBack
  <2>5. ASSUME NEW r \in Requests, RollBackFails(r) \/ Die(r)
        PROVE  Goal
    BY <2>5 DEF RollBackFails, Die
  <2> QED
    BY <2>1, <2>2, <2>3, <2>4, <2>5, Parts DEF tenancy, ChildStep
<1>6. /\ cached' \in [Emails -> Company \ {Unlinked}]
      /\ actsFor' \in [Requests -> Company \ {Unlinked}]
  <2>1. ASSUME NEW r \in Requests, ServeStep(r)
        PROVE  /\ cached' \in [Emails -> Company \ {Unlinked}]
               /\ actsFor' \in [Requests -> Company \ {Unlinked}]
    <3>1. step[r] \in {"company", "setex"} => about[r] \in Emails
      BY AddressKnown
    <3> QED
      BY <2>1, <3>1 DEF ServeStep, CompanyFromCache, LookUpCompany, CacheCompany, Serve, serving
  <2>2. ASSUME NEW e \in Emails, CompanyCacheExpires(e)
        PROVE  /\ cached' \in [Emails -> Company \ {Unlinked}]
               /\ actsFor' \in [Requests -> Company \ {Unlinked}]
    BY <2>2, Companies DEF CompanyCacheExpires
  <2> QED
    BY <2>1, <2>2, Parts DEF serving
<1> QED
  BY <1>a, <1>b, <1>1, <1>2, <1>3, <1>4, <1>5, <1>6

-----------------------------------------------------------------------------
(* Signing keys *)

LEMMA KeyringStep ==
  ASSUME IInv, Next
  PROVE  Keyring' /\ RetiredKeyEnds'
<1>a. FetchTime \in Nat /\ TTL \in Nat
  BY AccessAssumption
<1> USE <1>a DEF IInv, TypeOK, AccessTypeOK, Keyring, RetiredKeyEnds, Goto
<1> DEFINE Early == {"idle", "begin", "key", "fetch", "apply"}
<1>1. ASSUME NEW r \in Requests, LookUpKey(r)
      PROVE  Keyring' /\ RetiredKeyEnds'
  BY <1>1 DEF LookUpKey, At
<1>2. ASSUME NEW r \in Requests, UseCache(r)
      PROVE  Keyring' /\ RetiredKeyEnds'
  BY <1>2 DEF UseCache, Fresh, Accept
<1>3. ASSUME NEW r \in Requests, BeginFetch(r)
      PROVE  Keyring' /\ RetiredKeyEnds'
  BY <1>3 DEF BeginFetch
<1>4. ASSUME NEW r \in Requests, FetchAnswered(r)
      PROVE  Keyring' /\ RetiredKeyEnds'
  BY <1>4 DEF FetchAnswered
<1>5. ASSUME NEW r \in Requests, FillCache(r)
      PROVE  Keyring' /\ RetiredKeyEnds'
  BY <1>5 DEF FillCache, Accept
<1>6. ASSUME NEW r \in Requests, FetchFails(r)
      PROVE  Keyring' /\ RetiredKeyEnds'
  BY <1>6 DEF FetchFails
<1>7. ASSUME NEW r \in Requests, VerifyRemotely(r) \/ VerifySecret(r)
      PROVE  Keyring' /\ RetiredKeyEnds'
  BY <1>7 DEF VerifyRemotely, VerifySecret, signing
<1>8. CASE Rotate
  BY <1>8 DEF Rotate
<1>9. CASE Retire
  BY <1>9 DEF Retire
<1>10. CASE Tick
  BY <1>10 DEF Tick
<1>11. CASE UNCHANGED signing /\ \A r \in Requests : ~SignStep(r)
  <2>1. \A q \in Requests : /\ step'[q] \in {"key", "fetch", "apply"} => step'[q] = step[q]
                            /\ step'[q] \in Early => step[q] \in Early
    BY <1>11, Progress DEF Still, Arrives, GoesOn, Begun, Flow, Fits
  <2> QED
    BY <1>11, <2>1 DEF signing
<1> QED
  BY <1>1, <1>2, <1>3, <1>4, <1>5, <1>6, <1>7, <1>8, <1>9, <1>10, <1>11, Parts
     DEF SignStep, WorldStep

-----------------------------------------------------------------------------
(* API keys *)

LEMMA CountedStep ==
  ASSUME IInv, Next
  PROVE  Counted'
<1> USE DEF IInv, TypeOK, AccessTypeOK
<1> DEFINE Through == {q \in raced : step[q] # "limit"}
<1>a. MaxKeys \in Nat
  BY AccessAssumption
<1>b. /\ IsFiniteSet(Made) /\ IsFiniteSet(active) /\ IsFiniteSet(raced) /\ IsFiniteSet(Through)
      /\ Cardinality(active) \in Nat /\ Cardinality(Through) \in Nat
      /\ \A q \in raced : q \in Made /\ Begun(q)
  <2>1. raced \subseteq Made
    BY DEF Counted, Begun, Flow, Fits, Made
  <2> QED
    BY <2>1, FS_Subset, FS_CardinalityType DEF Counted
<1>1. IsFiniteSet(Made') /\ \A q \in Made : q \in Made'
  <2>1. \A q \in Made : q \in Made'
    BY Progress DEF Made, Still, Arrives, GoesOn
  <2>2. CASE \A q \in Requests : Still(q)
    BY <2>2, <1>b, FS_Subset DEF Made, Still
  <2>3. ASSUME NEW r \in Requests, ~Still(r)
        PROVE  IsFiniteSet(Made')
    <3>1. Made' \subseteq Made \cup {r}
      BY <2>3, Progress DEF Made, Still
    <3> QED
      BY <3>1, <1>b, FS_AddElement, FS_Subset
  <2> QED
    BY <2>1, <2>2, <2>3
<1>2. \A q \in raced : Begun(q)'
  BY <1>b, Settled
<1> DEFINE Fair  == \A q \in Requests \ raced :
                       step[q] = "limit" => Cardinality(active) <= counted[q]
           Total == Cardinality(active) <= MaxKeys + Cardinality(Through)
<1>3. /\ Fair /\ Total /\ active \subseteq Made
      /\ (active' \subseteq Made' /\ raced' \subseteq raced /\ Fair' /\ Total' => Counted')
  BY <1>1, <1>2 DEF Counted
<1> HIDE DEF Total
<1>4. CASE \A r \in Requests : ~KeyStep(r)
  <2>1. UNCHANGED apikeys
    BY <1>4, Parts
  <2>2. \A q \in Requests : step'[q] = "limit" <=> step[q] = "limit"
    BY <1>4, Progress DEF Still, Arrives, GoesOn, Flow, Fits
  <2>3. Through' = Through
    BY <2>1, <2>2 DEF apikeys
  <2>4. Fair'
    BY <1>3, <2>1, <2>2 DEF apikeys
  <2>5. Total'
    BY <1>3, <2>1, <2>3 DEF Total, apikeys
  <2> QED
    BY <1>1, <1>3, <2>1, <2>4, <2>5 DEF apikeys
<1>5. ASSUME NEW r \in Requests, CountKeys(r)
      PROVE  Counted'
  <2>1. r \notin raced
    BY <1>5, <1>b DEF CountKeys, At, Begun
  <2>2. Through' = Through
    BY <1>5, <2>1 DEF CountKeys, Goto
  <2>3. Fair'
    BY <1>5, <1>3, <1>b DEF CountKeys, Goto
  <2>4. Total'
    BY <1>5, <1>3, <2>2 DEF Total, CountKeys
  <2> QED
    BY <1>1, <1>3, <1>5, <2>3, <2>4 DEF CountKeys
<1>6. ASSUME NEW r \in Requests, RefuseKey(r) \/ InsertKeyFails(r)
      PROVE  Counted'
  <2>1. /\ UNCHANGED apikeys /\ step' \in [Requests -> Labels]
        /\ \A q \in Requests : step'[q] = "limit" => step[q] = "limit"
    BY <1>6 DEF RefuseKey, InsertKeyFails, Goto, Labels
  <2>2. Through \subseteq Through' /\ Through' \subseteq raced
    BY <2>1 DEF apikeys
  <2>3. Cardinality(Through) <= Cardinality(Through') /\ Cardinality(Through') \in Nat
    BY <1>b, <2>2, FS_Subset, FS_CardinalityType
  <2>4. Fair'
    BY <1>3, <2>1 DEF apikeys
  <2>5. Total'
    BY <1>a, <1>b, <1>3, <2>1, <2>3 DEF Total, apikeys
  <2> QED
    BY <1>1, <1>3, <2>1, <2>4, <2>5 DEF apikeys
<1>7. ASSUME NEW r \in Requests, InsertKey(r)
      PROVE  Counted'
  <2> DEFINE others == {q \in Requests \ {r} : step[q] = "limit"}
  <2>1. /\ active' = active \cup {r} /\ raced' = raced \cup others /\ UNCHANGED <<counted, kind>>
        /\ step[r] = "limit" /\ counted[r] < MaxKeys /\ step' = [step EXCEPT ![r] = "done"]
    BY <1>7 DEF InsertKey, MayCreate, Goto
  <2>2. r \in Made /\ Begun(r)
    BY <2>1 DEF Flow, Fits, Made, Begun
  <2>3. raced' \subseteq Made /\ \A q \in raced' : Begun(q)'
    BY <1>b, <2>1, Settled DEF Flow, Fits, Made, Begun
  <2>4. IsFiniteSet(Through') /\ Cardinality(Through') \in Nat
    BY <1>b, <2>3, FS_Subset, FS_CardinalityType
  <2>5. Cardinality(active') \in Nat /\ Cardinality(active') <= Cardinality(active) + 1
    <3>1. /\ IsFiniteSet(active \cup {r})
          /\ Cardinality(active \cup {r}) = IF r \in active THEN Cardinality(active)
                                            ELSE Cardinality(active) + 1
      BY <1>b, FS_AddElement
    <3>2. active' = active \cup {r}
      BY <2>1
    <3> QED
      BY <1>b, <3>1, <3>2
  <2>6. Fair'
    BY <2>1
  <2>7. Total'
    <3>1. CASE r \in raced
      <4>1. Through \cup {r} \subseteq Through' /\ r \notin Through
        BY <2>1, <3>1
      <4>2. Cardinality(Through) + 1 <= Cardinality(Through')
        <5> HIDE DEF Through
        <5>1. Cardinality(Through \cup {r}) = Cardinality(Through) + 1
          BY <1>b, <4>1, FS_AddElement
        <5> QED
          BY <2>4, <4>1, <5>1, FS_Subset
      <4> HIDE DEF Through
      <4> QED
        BY <1>a, <1>b, <1>3, <2>4, <2>5, <4>2 DEF Total
    <3>2. CASE r \notin raced
      <4>1. Cardinality(active) <= counted[r]
        BY <1>3, <2>1, <3>2
      <4> HIDE DEF Through
      <4> QED
        BY <1>a, <1>b, <2>1, <2>4, <2>5, <4>1 DEF Total
    <3> QED
      BY <3>1, <3>2
  <2> QED
    BY <1>1, <1>3, <2>1, <2>2, <2>3, <2>6, <2>7 DEF Counted, Total
<1>8. ASSUME NEW r \in Requests, RevokeKey(r)
      PROVE  Counted'
  <2>1. /\ active' \subseteq active /\ Cardinality(active') \in Nat
        /\ Cardinality(active') <= Cardinality(active)
    BY <1>b, <1>8, FS_Subset, FS_CardinalityType DEF RevokeKey
  <2>2. r \notin raced /\ UNCHANGED <<raced, counted>>
    BY <1>8, <1>b DEF RevokeKey, At, Begun
  <2>3. step' = [step EXCEPT ![r] = "done"] /\ step[r] = "begin"
    BY <1>8 DEF RevokeKey, Goto, At
  <2>4. Through' = Through
    BY <2>2, <2>3
  <2>5. Fair'
    <3> SUFFICES ASSUME NEW q \in Requests \ raced, step'[q] = "limit"
                 PROVE  Cardinality(active') <= counted[q]
      BY <2>2
    <3>1. Cardinality(active) <= counted[q]
      BY <1>3, <2>3
    <3> QED
      BY <1>b, <2>1, <3>1
  <2>6. Total'
    <3> HIDE DEF Through
    <3> QED
      BY <1>a, <1>b, <1>3, <2>1, <2>2, <2>4 DEF Total
  <2> QED
    BY <1>1, <1>3, <2>1, <2>2, <2>5, <2>6
<1> QED
  BY <1>4, <1>5, <1>6, <1>7, <1>8 DEF KeyStep

-----------------------------------------------------------------------------
(* Companies *)

LEMMA ServedStep ==
  ASSUME IInv, Next, \A c \in Company \ {Unlinked} : Known(c) => Known(c)'
  PROVE  Served'
<1> USE DEF IInv, TypeOK, Served
<1>a. Known(NoCompany)' /\ Known(NoCompany)
  BY DEF Known
<1>1. CASE UNCHANGED serving
  BY <1>1 DEF serving
<1>2. ASSUME NEW r \in Requests, ServeStep(r)
      PROVE  Served'
  <2>1. CASE CompanyFromCache(r)
    <3>1. about[r] \in Emails
      BY <2>1, AddressKnown DEF CompanyFromCache
    <3>2. \A q \in Requests : actsFor'[q] \in Company \ {Unlinked} /\ Known(actsFor'[q])
      BY <2>1, <3>1 DEF CompanyFromCache
    <3> QED
      BY <2>1, <3>2 DEF CompanyFromCache
  <2>2. CASE LookUpCompany(r)
    <3>1. about[r] \in Emails
      BY <2>2, AddressKnown DEF LookUpCompany
    <3>2. users[about[r]] \in companies =>
             Known(users[about[r]]) /\ users[about[r]] \in Company \ {Unlinked}
      BY <3>1 DEF Known
    <3>3. \A q \in Requests : actsFor'[q] \in Company \ {Unlinked} /\ Known(actsFor'[q])
      BY <2>2, <3>2 DEF LookUpCompany
    <3> QED
      BY <2>2, <3>3 DEF LookUpCompany
  <2>3. CASE CacheCompany(r)
    <3>1. \A e \in Emails : cached'[e] \in Company \ {Unlinked} /\ Known(cached'[e])
      BY <2>3 DEF CacheCompany
    <3> QED
      BY <2>3, <3>1 DEF CacheCompany
  <2>4. CASE Serve(r)
    BY <1>1, <2>4 DEF Serve
  <2> QED
    BY <1>2, <2>1, <2>2, <2>3, <2>4 DEF ServeStep
<1>3. ASSUME NEW e \in Emails, CompanyCacheExpires(e)
      PROVE  Served'
  <2>1. \A d \in Emails : cached'[d] = NoCompany \/ cached'[d] = cached[d]
    BY <1>3 DEF CompanyCacheExpires
  <2> QED
    BY <1>a, <1>3, <2>1 DEF CompanyCacheExpires
<1> QED
  BY <1>1, <1>2, <1>3, Parts

\* The three parts of NoOrphanCompany.
ChildHasUser(c) ==
    \/ \E e \in Emails : users[e] = c
    \/ step[c.n] \in {"invite", "rollback"}
    \/ c.n \in stuck \/ about[c.n] \in untriggered

WhyUnlinked(e) == e \in untriggered \/ \E r \in undone : about[r] = e

LEMMA CompaniesStep ==
  ASSUME IInv, Next
  PROVE  Children' /\ NoOrphanCompany' /\ Served'
<1> USE DEF IInv, TypeOK
<1>a. \A r \in Requests : Begun(r) => Begun(r)' /\ UNCHANGED <<kind[r], about[r], link[r]>>
  BY Settled
<1>b. /\ \A c \in companies : c.of = "child" =>
            /\ c.n \in Requests /\ c = Child(c.n) /\ kind[c.n] = "child" /\ Begun(c.n)
            /\ ChildHasUser(c)
      /\ \A e \in Emails : users[e] = Unlinked => WhyUnlinked(e)
      /\ \A r \in undone : r \in Requests /\ Begun(r) /\ kind[r] = "child"
  BY Companies DEF NoOrphanCompany, ChildHasUser, WhyUnlinked, Children
<1>c. ASSUME \A c \in companies' : c.of = "child" => ChildHasUser(c)',
             \A e \in Emails : users'[e] = Unlinked => WhyUnlinked(e)',
             Served'
      PROVE  NoOrphanCompany'
  BY <1>c DEF NoOrphanCompany, ChildHasUser, WhyUnlinked, Served, Known
<1> DEFINE Goal == Children' /\ NoOrphanCompany' /\ Served'
           Quiet == \A r \in Requests : ~(Invite(r) \/ InviteChild(r) \/ ChildStep(r) \/ Die(r))
<1>1. CASE Quiet
  <2>1. UNCHANGED tenancy
    BY <1>1, Parts
  <2>2. \A r \in Requests :
           kind[r] = "child" /\ step[r] \in {"invite", "rollback"} => step'[r] = step[r]
    BY <1>1, Progress DEF Still, Arrives, GoesOn
  <2>3. Children'
    BY <1>a, <2>1 DEF Children, tenancy
  <2>4. Served'
    BY <2>1, ServedStep DEF Known, tenancy
  <2>5. ASSUME NEW c \in companies', c.of = "child"
        PROVE  ChildHasUser(c)'
    BY <1>a, <1>b, <2>1, <2>2, <2>5 DEF ChildHasUser, tenancy
  <2>6. ASSUME NEW e \in Emails, users'[e] = Unlinked
        PROVE  WhyUnlinked(e)'
    BY <1>a, <1>b, <2>1, <2>6 DEF WhyUnlinked, tenancy
  <2> QED
    BY <1>c, <2>3, <2>4, <2>5, <2>6
<1>2. ASSUME NEW r \in Requests, NEW c \in Company \ {NoCompany, Unlinked},
             \/ Invite(r) /\ c = Own(about[r])
             \/ InviteChild(r) /\ c = Child(r)
      PROVE  Goal
  <2> DEFINE e == about[r]
  <2>1. /\ e \in Emails /\ UNCHANGED <<stuck, undone, about, kind, serving>>
        /\ \A q \in Requests \ {r} : step'[q] = step[q]
        /\ kind[r] = "child" => c = Child(r)
        /\ kind[r] # "child" => \A q \in Requests : c # Child(q)
        /\ Begun(r) /\ step[r] = "invite"
    <3>1. e \in Emails
      BY <1>2, AddressKnown DEF Invite, InviteChild
    <3>2. UNCHANGED <<stuck, undone, about, kind, serving>> /\ step[r] = "invite"
      BY <1>2 DEF Invite, InviteChild, Others
    <3>3. \A q \in Requests \ {r} : step'[q] = step[q]
      BY <1>2 DEF Invite, InviteChild, Invites, InviteRaises, Goto, AccessTypeOK
    <3>4. kind[r] = "child" => c = Child(r)
      BY <1>2 DEF Invite, InviteChild
    <3>5. kind[r] # "child" => \A q \in Requests : c # Child(q)
      BY <1>2, <3>1, Companies DEF Invite, InviteChild
    <3> QED
      BY <3>1, <3>2, <3>3, <3>4, <3>5 DEF Begun
  <2> DEFINE Joined == /\ users[e] = NoCompany /\ users' = [users EXCEPT ![e] = c]
                       /\ companies' = companies \cup {c} /\ untriggered' = untriggered
             Stranded == /\ users[e] = NoCompany /\ users' = [users EXCEPT ![e] = Unlinked]
                         /\ companies' = companies /\ untriggered' = untriggered \cup {e}
             Refused == /\ UNCHANGED <<users, companies, untriggered>>
                        /\ kind[r] = "child" => step'[r] = "rollback"
  <2>2. Joined \/ Stranded \/ Refused
    BY <1>2 DEF Invite, InviteChild, Invites, InviteRaises, NewUser, Goto
  <2> HIDE DEF e
  <2>3. /\ companies \subseteq companies' /\ companies' \subseteq companies \cup {c}
        /\ untriggered \subseteq untriggered'
        /\ \A d \in Emails : users[d] # NoCompany => users'[d] = users[d]
        /\ \A d \in Emails : users'[d] \in {users[d], Unlinked} \/ (d = e /\ users'[d] = c)
    BY <2>1, <2>2
  <2>4. Children'
    <3>1. ASSUME NEW q \in Requests, Child(q) \in companies' \/ q \in undone'
          PROVE  kind'[q] = "child" /\ Begun(q)'
      BY <1>a, <2>1, <2>3, <3>1, Companies DEF Children
    <3>2. ASSUME NEW d \in Emails, NEW q \in Requests, users'[d] = Child(q)
          PROVE  about'[q] = d /\ kind'[q] = "child" /\ Begun(q)'
      BY <1>a, <2>1, <2>3, <3>2, Companies DEF Children, e
    <3> QED
      BY <3>1, <3>2 DEF Children
  <2>5. Served'
    <3>1. \A k \in Company \ {Unlinked} : Known(k) => Known(k)'
      BY <2>1, <2>3 DEF Known
    <3> QED
      BY <3>1, ServedStep
  <2>6. ASSUME NEW k \in companies', k.of = "child"
        PROVE  ChildHasUser(k)'
    <3>1. CASE k = Child(r) /\ kind[r] = "child"
      <4>1. k.n = r /\ c = k
        BY <2>1, <3>1, Companies
      <4>2. CASE Joined
        <5>1. e \in Emails /\ users'[e] = k
          BY <2>1, <4>1, <4>2
        <5> QED
          BY <5>1 DEF ChildHasUser
      <4>3. CASE Stranded
        BY <2>1, <4>1, <4>3 DEF ChildHasUser, e
      <4>4. CASE Refused
        BY <3>1, <4>1, <4>4 DEF ChildHasUser
      <4> QED
        BY <2>2, <4>2, <4>3, <4>4
    <3>2. CASE ~(k = Child(r) /\ kind[r] = "child")
      <4>1. k \in companies /\ k.n \in Requests \ {r} /\ ChildHasUser(k) /\ k # NoCompany
        BY <1>b, <2>1, <2>3, <2>6, <3>2, Companies
      <4> QED
        BY <2>1, <2>3, <4>1 DEF ChildHasUser
    <3> QED
      BY <3>1, <3>2
  <2>7. ASSUME NEW d \in Emails, users'[d] = Unlinked
        PROVE  WhyUnlinked(d)'
    BY <1>b, <2>1, <2>2, <2>7 DEF WhyUnlinked
  <2> QED
    BY <1>c, <2>4, <2>5, <2>6, <2>7
<1>3. ASSUME NEW r \in Requests, InsertChild(r) \/ RollBackFails(r) \/ Die(r)
      PROVE  Goal
  <2>1. /\ UNCHANGED <<users, undone, untriggered, about, kind, serving>>
        /\ \A q \in Requests \ {r} : step'[q] = step[q]
        /\ companies \subseteq companies' /\ companies' \subseteq companies \cup {Child(r)}
        /\ stuck \subseteq stuck'
        /\ Child(r) \in companies' \ companies => kind[r] = "child" /\ step'[r] = "invite"
        /\ step'[r] = "invite" \/ kind[r] # "child" \/ r \in stuck' \/ Child(r) \notin companies'
    BY <1>3 DEF InsertChild, RollBackFails, Die, Others, Goto, AccessTypeOK, At, Children,
       Begun, Flow, Fits
  <2>2. Children'
    BY <1>a, <2>1, Companies DEF Children, Begun
  <2>3. Served'
    BY <2>1, ServedStep DEF Known
  <2>4. ASSUME NEW k \in companies', k.of = "child"
        PROVE  ChildHasUser(k)'
    <3>1. CASE k = Child(r)
      <4>1. k.n = r /\ kind[r] = "child"
        BY <1>b, <2>1, <2>4, <3>1, Companies
      <4> QED
        BY <2>1, <2>4, <3>1, <4>1 DEF ChildHasUser
    <3>2. CASE k # Child(r)
      <4>1. k \in companies /\ k.n \in Requests \ {r} /\ ChildHasUser(k)
        BY <1>b, <2>1, <2>4, <3>2
      <4> QED
        BY <2>1, <4>1 DEF ChildHasUser
    <3> QED
      BY <3>1, <3>2
  <2>5. ASSUME NEW d \in Emails, users'[d] = Unlinked
        PROVE  WhyUnlinked(d)'
    BY <1>b, <2>1, <2>5 DEF WhyUnlinked
  <2> QED
    BY <1>c, <2>2, <2>3, <2>4, <2>5
<1>4. ASSUME NEW r \in Requests, RollBack(r)
      PROVE  Goal
  <2>1. /\ UNCHANGED <<untriggered, stuck, about, kind, serving>>
        /\ companies' = companies \ {Child(r)}
        /\ users' = [d \in Emails |-> IF users[d] = Child(r) THEN Unlinked ELSE users[d]]
        /\ undone' = IF users' # users THEN undone \cup {r} ELSE undone
        /\ \A q \in Requests \ {r} : step'[q] = step[q]
        /\ kind[r] = "child" /\ Begun(r)
    BY <1>4 DEF RollBack, Others, Goto, AccessTypeOK, Begun, Flow, Fits
  <2>2. \A d \in Emails :
           users[d] = Child(r) => about[r] = d /\ users'[d] = Unlinked /\ r \in undone'
    <3>1. \A d \in Emails : users[d] = Child(r) => users'[d] # users[d]
      BY <2>1, Companies
    <3> QED
      BY <2>1, <3>1 DEF Children
  <2>3. undone \subseteq undone' /\ undone' \subseteq undone \cup {r}
    BY <2>1
  <2>4. Children'
    BY <1>a, <2>1, <2>3, Companies DEF Children
  <2>5. Served'
    <3>1. ASSUME NEW c \in Company \ {Unlinked}, Known(c)
          PROVE  Known(c)'
      <4>1. CASE c = Child(r)
        BY <2>2, <2>3, <3>1, <4>1, Companies DEF Known
      <4>2. CASE c # Child(r)
        BY <2>1, <2>3, <3>1, <4>2 DEF Known
      <4> QED
        BY <4>1, <4>2
    <3> QED
      BY <3>1, ServedStep
  <2>6. ASSUME NEW k \in companies', k.of = "child"
        PROVE  ChildHasUser(k)'
    <3>1. k \in companies /\ k # Child(r) /\ k.n \in Requests \ {r} /\ ChildHasUser(k)
      BY <1>b, <2>1, <2>6
    <3> QED
      BY <2>1, <3>1 DEF ChildHasUser
  <2>7. ASSUME NEW d \in Emails, users'[d] = Unlinked
        PROVE  WhyUnlinked(d)'
    BY <1>b, <2>1, <2>2, <2>3, <2>7 DEF WhyUnlinked
  <2> QED
    BY <1>c, <2>4, <2>5, <2>6, <2>7
<1>5. ASSUME NEW r \in Requests, Invite(r) \/ InviteChild(r)
      PROVE  Goal
  BY <1>2, <1>5, AddressKnown, Companies DEF Invite, InviteChild
<1> QED
  BY <1>1, <1>3, <1>4, <1>5 DEF ChildStep

-----------------------------------------------------------------------------
(* Links *)

\* A link is issued, mailed, and taken in this order, or it expires.
LEMMA BookingStep ==
  ASSUME IInv, Next
  PROVE  /\ \A t \in rows' \cup links' \cup expired' \cup mailed' :
               \/ t \in rows \cup links \cup expired \cup mailed
               \/ t \in Requests /\ kind[t] = "book" /\ Begun(t)
         /\ \A t \in mailed' :
               t \in mailed \/ (step[t] = "mail" /\ step'[t] \in {"done", "failed"})
         /\ \A t \in links' : t \in links \/ step[t] = "issue"
         /\ \A t \in links \ links' :
               t \in expired' \/ \E r \in Requests : Consume(r) /\ link'[r] = t /\ t \in mailed
         /\ \A t \in Requests : step'[t] = "mail" => step[t] = "mail" \/ t \in links'
         /\ mailed \subseteq mailed' /\ rows \subseteq rows' /\ expired \subseteq expired'
<1> DEFINE Goal ==
         /\ \A t \in rows' \cup links' \cup expired' \cup mailed' :
               \/ t \in rows \cup links \cup expired \cup mailed
               \/ t \in Requests /\ kind[t] = "book" /\ Begun(t)
         /\ \A t \in mailed' :
               t \in mailed \/ (step[t] = "mail" /\ step'[t] \in {"done", "failed"})
         /\ \A t \in links' : t \in links \/ step[t] = "issue"
         /\ \A t \in links \ links' :
               t \in expired' \/ \E r \in Requests : Consume(r) /\ link'[r] = t /\ t \in mailed
         /\ mailed \subseteq mailed' /\ rows \subseteq rows' /\ expired \subseteq expired'
<1> USE DEF IInv, TypeOK
<1>1. ASSUME NEW r \in Requests, Throttle(r) \/ VerifyRecaptcha(r) \/ ReadBooking(r)
      PROVE  Goal
  BY <1>1 DEF Throttle, VerifyRecaptcha, ReadBooking, booking
<1>2. ASSUME NEW r \in Requests, InsertBooking(r)
      PROVE  Goal
  BY <1>2 DEF InsertBooking, Flow, Fits, Begun
<1>3. ASSUME NEW r \in Requests, IssueToken(r)
      PROVE  Goal
  BY <1>3 DEF IssueToken, Flow, Fits, Begun
<1>4. ASSUME NEW r \in Requests, MailLink(r)
      PROVE  Goal
  BY <1>4 DEF MailLink, Flow, Fits, Begun, Goto
<1>5. ASSUME NEW r \in Requests, Consume(r)
      PROVE  Goal
  <2>1. PICK t \in mailed : link' = [link EXCEPT ![r] = t] /\ links' = links \ {t}
    BY <1>5 DEF Consume
  <2>2. link'[r] = t /\ UNCHANGED <<rows, mailed, expired>>
    BY <1>5, <2>1 DEF Consume
  <2> QED
    BY <1>5, <2>1, <2>2
<1>6. ASSUME NEW r \in Requests, PickBooking(r) \/ MarkInvited(r)
      PROVE  Goal
  BY <1>6 DEF PickBooking, MarkInvited
<1>7. ASSUME NEW t \in Requests, TokenExpires(t)
      PROVE  Goal
  BY <1>7 DEF TokenExpires
<1>8. ASSUME UNCHANGED booking \/ ThrottleEnds
      PROVE  Goal
  <2>1. rows' = rows /\ links' = links /\ mailed' = mailed /\ expired' = expired
    BY <1>8 DEF booking, ThrottleEnds
  <2> QED
    BY <2>1
<1>9. Goal
  BY <1>1, <1>2, <1>3, <1>4, <1>5, <1>6, <1>7, <1>8, Parts DEF BookStep, LinkStep
<1>10. ASSUME NEW t \in Requests, step'[t] = "mail", step[t] # "mail"
       PROVE  t \in links'
  <2>1. BookStep(t)
    BY <1>10, Progress DEF Still, Arrives, GoesOn
  <2> QED
    BY <1>10, <2>1 DEF BookStep, Throttle, VerifyRecaptcha, InsertBooking, IssueToken, MailLink,
       Goto
<1> QED
  BY <1>9, <1>10

LEMMA LinkedStep ==
  ASSUME IInv, Next
  PROVE  Linked'
<1> USE DEF IInv, TypeOK
<1>a. 0 \notin Requests
  BY AccessAssumption
<1>b. \A r \in Requests : Begun(r) => Begun(r)' /\ UNCHANGED <<kind[r], about[r], link[r]>>
  BY Settled
<1>1. \A t \in rows' \cup links' \cup expired' \cup mailed' : kind'[t] = "book" /\ Begun(t)'
  BY <1>b, BookingStep DEF Linked
<1>2. \A t \in mailed' : step'[t] \in {"done", "failed"}
  BY BookingStep, Progress DEF Linked, Still, Arrives, GoesOn, Flow, Fits
<1>3. ASSUME NEW t \in Requests, step'[t] = "mail"
      PROVE  t \in links' \cup expired'
  <2>1. step[t] = "mail" => t \in links \cup expired /\ t \notin mailed
    BY DEF Linked
  <2> QED
    BY <1>3, <2>1, BookingStep
<1>4. ASSUME NEW r \in Requests, link'[r] # 0
      PROVE  /\ kind'[r] \in {"click", "invite"} /\ Begun(r)'
             /\ kind'[link'[r]] = "book" /\ Begun(link[r])'
             /\ about'[r] = about'[link'[r]]
             /\ kind'[r] = "click" => link'[r] \in mailed'
  <2>1. CASE link[r] # 0
    BY <1>b, <2>1, BookingStep DEF Linked
  <2>2. CASE link[r] = 0
    <3>1. /\ kind'[r] = kind[r] /\ kind[r] \in {"click", "invite"} /\ Begun(r)'
          /\ about'[r] = about[link'[r]] /\ link'[r] \in rows \cup mailed
          /\ kind[r] = "click" => link'[r] \in mailed
      BY <1>4, <2>2, Progress DEF Still, Arrives, GoesOn
    <3>2. kind[link'[r]] = "book" /\ Begun(link'[r]) /\ link'[r] \in Requests
      BY <3>1 DEF Linked
    <3>3. Begun(link[r])' /\ kind'[link'[r]] = "book" /\ about'[link'[r]] = about[link'[r]]
      <4>1. \A t \in Requests : Begun(t) =>
               step'[t] \notin {"idle", "begin"} /\ UNCHANGED <<kind[t], about[t]>>
        BY <1>b DEF Begun
      <4> QED
        BY <3>2, <4>1 DEF Begun
    <3> QED
      BY <3>1, <3>3, BookingStep
  <2> QED
    BY <2>1, <2>2
<1>5. ASSUME NEW r \in Requests
      PROVE  /\ step'[r] \in {"row", "status"} => link'[r] # 0
             /\ step'[r] = "invite" => link'[r] # 0 \/ kind'[r] = "child"
  <2>1. CASE Still(r)
    BY <2>1 DEF Still, Linked
  <2>2. CASE Arrives(r)
    BY <2>2 DEF Arrives
  <2>3. CASE GoesOn(r) /\ step'[r] \in {"row", "status", "invite"}
    <3>1. kind[r] = "child" => step'[r] = "invite" /\ kind'[r] = "child"
      BY <2>3 DEF GoesOn, Fits
    <3>2. link'[r] # 0 \/ kind[r] = "child"
      BY <1>a, <2>3 DEF GoesOn, Linked
    <3> QED
      BY <3>1, <3>2
  <2> QED
    BY <2>1, <2>2, <2>3, Progress
<1> QED
  BY <1>1, <1>2, <1>3, <1>4, <1>5 DEF Linked

LEMMA TakenOnceStep ==
  ASSUME IInv, Next
  PROVE  TakenOnce'
<1> USE DEF IInv, TypeOK
<1>a. 0 \notin Requests
  BY AccessAssumption
\* Who takes a link finds it there and takes it away.
<1>1. ASSUME NEW r \in Requests, Took(r)'
      PROVE  \/ Took(r) /\ link'[r] = link[r]
             \/ link'[r] \in links \ links' /\ ~Still(r)
  <2>1. CASE link[r] # 0
    <3>1. Begun(r) /\ UNCHANGED <<kind[r], link[r]>>
      BY <2>1, Settled DEF Linked
    <3>2. step[r] # "refused"
      BY <1>1, <3>1, Progress DEF Took, Still, Arrives, GoesOn, Flow, Fits, Begun
    <3> QED
      BY <1>1, <2>1, <3>1, <3>2 DEF Took
  <2>2. CASE link[r] = 0
    BY <1>1, <2>2, Progress DEF Took, Still, Arrives, GoesOn
  <2> QED
    BY <2>1, <2>2
<1>2. ASSUME NEW r \in Requests, Took(r)'
      PROVE  link'[r] \notin links'
  <2>1. CASE Took(r) /\ link'[r] = link[r]
    <3>1. link[r] \in mailed /\ link[r] \notin links
      BY <2>1 DEF Took, Linked, TakenOnce
    <3>2. step[link[r]] # "issue"
      BY <3>1 DEF Linked
    <3> QED
      BY <2>1, <3>1, <3>2, BookingStep
  <2> QED
    BY <1>1, <1>2, <2>1
<1>3. ASSUME NEW q \in Requests, NEW r \in Requests, Took(q)', Took(r)', link'[q] = link'[r]
      PROVE  q = r
  <2>1. Took(q) => link[q] \notin links
    BY DEF TakenOnce
  <2>2. Took(r) => link[r] \notin links
    BY DEF TakenOnce
  <2>3. q = r \/ Still(q) \/ Still(r)
    BY Progress
  <2>4. Took(q) /\ Took(r) /\ link[q] = link[r] => q = r
    BY DEF TakenOnce
  <2> QED
    BY <1>1, <1>3, <2>1, <2>2, <2>3, <2>4
<1> QED
  BY <1>2, <1>3 DEF TakenOnce

\* A user once made is not gone, and a click or an invitation that goes on to
\* the booking's status has made its user.
LEMMA UsersStay ==
  ASSUME IInv, Next
  PROVE  /\ \A e \in Emails : users[e] # NoCompany => users'[e] # NoCompany
         /\ \A r \in Requests : step'[r] = "status" =>
               step[r] = "status" \/ users'[about[r]] # NoCompany
<1> USE DEF IInv, TypeOK
<1>1. ASSUME NEW r \in Requests, NEW c \in Company \ {NoCompany, Unlinked}, NEW then,
             Invites(r, c, then) \/ InviteRaises(r, c, then), about[r] \in Emails
      PROVE  \A e \in Emails : users[e] # NoCompany => users'[e] # NoCompany
  BY <1>1, Companies DEF Invites, InviteRaises, NewUser
<1>2. ASSUME NEW r \in Requests, Invite(r) \/ InviteChild(r)
      PROVE  \A e \in Emails : users[e] # NoCompany => users'[e] # NoCompany
  <2>1. about[r] \in Emails
    BY <1>2, AddressKnown DEF Invite, InviteChild
  <2> QED
    BY <1>1, <1>2, <2>1, Companies DEF Invite, InviteChild
<1>3. ASSUME NEW r \in Requests, ChildStep(r) \/ Die(r)
      PROVE  \A e \in Emails : users[e] # NoCompany => users'[e] # NoCompany
  BY <1>3, Companies DEF ChildStep, InsertChild, RollBack, RollBackFails, Die
<1>4. ASSUME NEW r \in Requests, step'[r] = "status", step[r] # "status"
      PROVE  users'[about[r]] # NoCompany
  <2>1. Invite(r)
    BY <1>4, Progress DEF Still, Arrives, GoesOn
  <2>2. about[r] \in Emails /\ Own(about[r]) \in Company \ {NoCompany, Unlinked}
    BY <2>1, AddressKnown, Companies DEF Invite
  <2>3. NewUser(about[r], Own(about[r]))
    BY <1>4, <2>1 DEF Invite, Invites, InviteRaises, Goto
  <2> QED
    BY <2>2, <2>3, Companies DEF NewUser
<1> QED
  BY <1>2, <1>3, <1>4, Parts DEF tenancy

LEMMA SpentStep ==
  ASSUME IInv, Next
  PROVE  Spent'
<1> USE DEF IInv, TypeOK
<1>a. 0 \notin Requests
  BY AccessAssumption
<1>b. \A r \in Requests : Begun(r) => Begun(r)' /\ UNCHANGED <<kind[r], about[r], link[r]>>
  BY Settled
<1>1. ASSUME NEW r \in Requests, step'[r] = "status"
      PROVE  users'[about'[r]] # NoCompany
  <2>1. Begun(r)
    BY <1>1, Progress DEF Still, Arrives, GoesOn, Invite, Begun
  <2>2. about'[r] = about[r] /\ about[r] \in Emails
    BY <1>b, <2>1, AddressKnown DEF Begun
  <2> QED
    BY <1>1, <2>2, UsersStay DEF Spent
<1>2. ASSUME NEW t \in invited'
      PROVE  users'[about'[t]] # NoCompany
  <2>1. CASE t \in invited
    <3>1. Begun(t)
      BY <2>1 DEF Linked
    <3>2. about[t] \in Emails
      BY <2>1, <3>1, AddressKnown DEF Begun
    <3> QED
      BY <1>b, <2>1, <3>1, <3>2, UsersStay DEF Spent
  <2>2. CASE t \notin invited
    <3>1. PICK r \in Requests : step[r] = "status" /\ link[r] = t
      <4>1. ASSUME NEW r \in Requests, BookStep(r) \/ LinkStep(r) \/ TokenExpires(r)
            PROVE  invited' = invited \/ MarkInvited(r)
        BY <4>1 DEF BookStep, Throttle, VerifyRecaptcha, InsertBooking, IssueToken, MailLink,
           LinkStep, Consume, ReadBooking, PickBooking, TokenExpires, booking
      <4>2. PICK r \in Requests : MarkInvited(r)
        BY <2>2, <4>1, Parts DEF booking, ThrottleEnds
      <4> QED
        BY <2>2, <4>2 DEF MarkInvited
    <3>2. /\ about[r] = about[t] /\ Begun(t) /\ users[about[t]] # NoCompany
          /\ t \in Requests /\ about[t] \in Emails
      BY <1>a, <3>1, AddressKnown DEF Spent, Linked, Begun
    <3> QED
      BY <1>b, <3>2, UsersStay
  <2> QED
    BY <2>1, <2>2
<1>3. ASSUME NEW t \in mailed' \ links'
      PROVE  \/ t \in expired'
             \/ users'[about'[t]] # NoCompany
             \/ \E r \in Requests : /\ Took(r)' /\ link'[r] = t
                                    /\ step'[r] \in {"row", "invite", "failed"}
  <2>1. CASE t \in mailed \ links
    <3>a. t \in Requests /\ Begun(t) /\ about[t] \in Emails /\ about'[t] = about[t]
      BY <1>b, <2>1, AddressKnown DEF Linked, Begun
    <3>1. CASE t \in expired
      BY <3>1, BookingStep
    <3>2. CASE users[about[t]] # NoCompany
      BY <3>a, <3>2, UsersStay
    <3>3. ASSUME NEW r \in Requests, Took(r), link[r] = t, step[r] \in {"row", "invite", "failed"}
          PROVE  \/ users'[about[t]] # NoCompany
                 \/ Took(r)' /\ link'[r] = t /\ step'[r] \in {"row", "invite", "failed"}
      <4>1. kind'[r] = kind[r] /\ link'[r] = link[r] /\ kind[r] = "click" /\ about[r] = about[t]
        BY <1>b, <3>3 DEF Took, Linked
      <4>2. step'[r] \in {"row", "invite", "failed", "status"}
        BY <3>3, <4>1, Progress DEF Still, Arrives, GoesOn, Flow, Fits
      <4>3. step'[r] = "status" => users'[about[r]] # NoCompany
        BY <3>3, UsersStay
      <4> QED
        BY <3>3, <4>1, <4>2, <4>3 DEF Took
    <3> QED
      BY <2>1, <3>a, <3>1, <3>2, <3>3 DEF Spent
  <2>2. CASE t \in mailed /\ t \in links
    <3>1. t \in expired' \/ \E r \in Requests : Consume(r) /\ link'[r] = t
      BY <1>3, <2>2, BookingStep
    <3>2. ASSUME NEW r \in Requests, Consume(r), link'[r] = t
          PROVE  Took(r)' /\ step'[r] = "row"
      <4>1. step'[r] = "row" /\ kind'[r] = "click"
        BY <2>2, <3>2 DEF Consume, At, Goto, AccessTypeOK
      <4> QED
        BY <1>a, <2>2, <3>2, <4>1 DEF Took
    <3> QED
      BY <3>1, <3>2
  <2>3. CASE t \notin mailed
    <3>1. step[t] = "mail" /\ t \in Requests
      BY <1>3, <2>3, BookingStep DEF Linked
    <3>2. t \in links \cup expired
      BY <3>1 DEF Linked
    <3> QED
      BY <1>3, <2>3, <3>2, BookingStep
  <2> QED
    BY <2>1, <2>2, <2>3
<1> QED
  BY <1>1, <1>2, <1>3 DEF Spent

-----------------------------------------------------------------------------
LEMMA Initially == Init => IInv
<1> SUFFICES ASSUME Init PROVE IInv
  OBVIOUS
<1> USE AccessAssumption DEF Init, AccessInit
<1>1. TypeOK
  <2>1. throttled \in BOOLEAN
    BY Zenon
  <2> QED
    BY <2>1, Companies DEF TypeOK, AccessTypeOK, Labels, Signing
<1>2. Flow /\ Keyring /\ RetiredKeyEnds
  BY DEF Flow, Fits, Keyring, RetiredKeyEnds
<1>3. Counted
  <2>1. Made = {} /\ {r \in raced : step[r] # "limit"} = {}
    BY DEF Made
  <2> QED
    BY <2>1, FS_EmptySet DEF Counted
<1>4. Children /\ NoOrphanCompany /\ Served
  BY Companies DEF Children, NoOrphanCompany, Served, Known
<1>5. Linked /\ TakenOnce /\ Spent
  BY DEF Linked, TakenOnce, Spent, Took
<1> QED
  BY <1>1, <1>2, <1>3, <1>4, <1>5 DEF IInv

LEMMA Stutters ==
  ASSUME IInv, UNCHANGED vars
  PROVE  IInv'
<1> USE DEF vars, access, signing, apikeys, booking, tenancy, serving
<1>1. TypeOK'
  BY DEF IInv, TypeOK, AccessTypeOK
<1>2. Flow' /\ Keyring' /\ RetiredKeyEnds'
  BY DEF IInv, Flow, Keyring, RetiredKeyEnds
<1>3. Counted'
  BY DEF IInv, Counted, Made, Begun
<1>4. Children' /\ NoOrphanCompany' /\ Served'
  BY DEF IInv, Children, NoOrphanCompany, Served, Known, Begun
<1>5. Linked' /\ TakenOnce' /\ Spent'
  BY DEF IInv, Linked, TakenOnce, Spent, Took, Begun
<1> QED
  BY <1>1, <1>2, <1>3, <1>4, <1>5 DEF IInv

\* The conjuncts of IInv hold initially and every step of a request, of a service
\* and of the clock keeps them together.
THEOREM Inductive == Spec => []IInv
<1>1. Init => IInv
  BY Initially
<1>2. IInv /\ [Next]_vars => IInv'
  <2>1. ASSUME IInv, Next
        PROVE  IInv'
    BY <2>1, TypeOKStep, FlowStep, KeyringStep, CountedStep, CompaniesStep, LinkedStep,
       TakenOnceStep, SpentStep DEF IInv
  <2> QED
    BY <2>1, Stutters
<1> QED
  BY <1>1, <1>2, PTL DEF Spec

\* The state of signing keys, API keys, bookings, companies and caches keeps its
\* types.
THEOREM TypeCorrect == Spec => []TypeOK
BY Inductive, PTL DEF IInv

\* However fetches of the keys overlap and whenever their answers are applied, a
\* key that Supabase withdrew is honoured no longer than FetchTime and TTL
\* together, unless Supabase cannot be reached.
THEOREM RetirementIsHonoured == Spec => []RetiredKeyEnds
BY Inductive, PTL DEF IInv

\* Each active API key above MAX_KEYS_PER_COMPANY is that of a request that
\* counted the keys before another request inserted its own.
THEOREM KeysAreLimited == Spec => []KeyLimit
<1>1. IInv => KeyLimit
  <2> SUFFICES ASSUME IInv PROVE KeyLimit
    OBVIOUS
  <2> DEFINE through == {r \in raced : step[r] # "limit"}
  <2>1. IsFiniteSet(active) /\ IsFiniteSet(raced)
    <3>1. raced \subseteq Made
      BY DEF IInv, TypeOK, AccessTypeOK, Counted, Begun, Flow, Fits, Made
    <3> QED
      BY <3>1, FS_Subset DEF IInv, Counted
  <2>2. through \subseteq raced /\ Cardinality(active) <= MaxKeys + Cardinality(through)
    BY DEF IInv, Counted
  <2> HIDE DEF through
  <2>3. IsFiniteSet(through) /\ Cardinality(through) <= Cardinality(raced)
    BY <2>1, <2>2, FS_Subset
  <2>4. /\ Cardinality(active) \in Nat /\ Cardinality(raced) \in Nat
        /\ Cardinality(through) \in Nat /\ MaxKeys \in Nat
    BY <2>1, <2>3, FS_CardinalityType, AccessAssumption
  <2> QED
    BY <2>2, <2>3, <2>4 DEF KeyLimit
<1> QED
  BY <1>1, Inductive, PTL

\* A child company without its user belongs to a request that is under way, died
\* or could not roll back, or the trigger on its user failed; a user without a
\* company comes from a failed trigger or a rollback after a lost answer; and
\* nobody is served for a company that no such rollback removed.
THEOREM NoCompanyOrphaned == Spec => []NoOrphanCompany
BY Inductive, PTL DEF IInv

\* One click at most gets past a link, and a link that works no more expired,
\* made its user, or was used by a click under way or failed.
THEOREM LinksWorkOnce == Spec => []LinkWorksOnce
<1>1. IInv => LinkWorksOnce
  <2> SUFFICES ASSUME IInv PROVE LinkWorksOnce
    OBVIOUS
  <2>1. ASSUME NEW t \in Requests
        PROVE  Cardinality({r \in Requests : /\ kind[r] = "click" /\ link[r] = t
                                             /\ step[r] \notin {"begin", "refused"}}) <= 1
    <3> DEFINE clicks == {r \in Requests : /\ kind[r] = "click" /\ link[r] = t
                                           /\ step[r] \notin {"begin", "refused"}}
    <3>1. \A q, r \in clicks : q = r
      BY AccessAssumption DEF IInv, TakenOnce, Took
    <3>2. clicks = {} \/ \E r \in clicks : clicks = {r}
      BY <3>1
    <3> HIDE DEF clicks
    <3>3. Cardinality(clicks) \in {0, 1}
      BY <3>2, FS_EmptySet, FS_Singleton
    <3>4. Cardinality(clicks) <= 1
      BY <3>3
    <3> QED
      BY <3>4 DEF clicks
  <2>2. \A t \in mailed \ links :
          \/ t \in expired \/ users[about[t]] # NoCompany
          \/ \E r \in Requests : link[r] = t /\ step[r] \in {"row", "invite", "failed"}
    BY DEF IInv, Spent
  <2>3. \A t \in invited : users[about[t]] # NoCompany
    BY DEF IInv, Spent
  <2> QED
    BY <2>1, <2>2, <2>3 DEF LinkWorksOnce
<1> QED
  BY <1>1, Inductive, PTL
=============================================================================
