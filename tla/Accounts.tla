------------------------------ MODULE Accounts ------------------------------
(****************************************************************************)
(* How an account comes to be: a visitor asks for one (app/public/router.py *)
(* book_demo), the notification e-mail carries a single-use link            *)
(* (app/admin/invite_token.py) that invites them (app/admin/router.py), a   *)
(* company invites the user of a child company (app/companies/router.py),   *)
(* and a trigger of the database gives each new user a company              *)
(* (alembic/schema.sql handle_new_user).  A request is served for the       *)
(* company its user was last seen in (app/dependencies.py).                 *)
(*                                                                          *)
(* Each of these is a row of calls to different services with no            *)
(* transaction around them; a call fails, a call's answer is lost, or the   *)
(* worker dies between two of them.                                         *)
(****************************************************************************)
EXTENDS Access

NoCompany == [of |-> "none", n |-> 0]      \* no user
Unlinked  == [of |-> "unlinked", n |-> 0]  \* a user whose company_id is NULL
Own(e)    == [of |-> "own", n |-> e]       \* what handle_new_user creates
Child(r)  == [of |-> "child", n |-> r]     \* what a child request inserts

VARIABLES
    about,      \* the e-mail address a request names
    throttled,  \* demo_throttle:{ip}
    rows,       \* bookings with a row in demo_requests
    invited,    \* rows with status "invited"
    links,      \* invite_token:{token}, named by the booking that made it
    mailed,     \* links in a mail to the administrator
    link,       \* the link a click follows
    users,      \* the company of each address's user
    companies,  \* rows of companies that came with an invitation
    cached,     \* user_company:{id} in Redis
    actsFor     \* the company a signed-in request is served for

\* History.
VARIABLES
    expired,    \* links that expired unused
    untriggered, \* addresses whose trigger failed
    stuck,      \* child requests that could not roll back
    undone      \* child requests rolled back although the user was made

booking  == <<throttled, rows, invited, links, mailed, link, expired>>
tenancy  == <<users, companies, untriggered, stuck, undone>>
serving  == <<cached, actsFor>>
vars     == <<access, about, booking, tenancy, serving>>
Others   == <<plan, kind, signing, apikeys, about>>

Arrive(r, k, e) ==
    /\ <<k, e>> \in plan[r] /\ Ask(r, k)
    /\ about' = [about EXCEPT ![r] = e]
    /\ UNCHANGED <<plan, faults, signing, apikeys, booking, tenancy, serving>>

-----------------------------------------------------------------------------
(* book_demo *)

\* SET NX EX 3.
Throttle(r) ==
    /\ At(r, "book", "begin")
    /\ throttled' = TRUE
    /\ Goto(r, IF throttled THEN "refused" ELSE "captcha")
    /\ UNCHANGED <<Others, faults, rows, invited, links, mailed, link, expired, tenancy,
                   serving>>

ThrottleEnds ==
    /\ throttled /\ throttled' = FALSE
    /\ UNCHANGED <<access, about, rows, invited, links, mailed, link, expired, tenancy,
                   serving>>

\* _verify_recaptcha: FALSE unless Google says otherwise.
VerifyRecaptcha(r) ==
    /\ step[r] = "captcha"
    /\ \E s \in {"insert", "refused"} : Goto(r, s)
    /\ UNCHANGED <<Others, faults, booking, tenancy, serving>>

\* A failure is passed over and the token gets an empty request_id.
InsertBooking(r) ==
    /\ step[r] = "insert" /\ Goto(r, "issue")
    /\ \/ rows' = rows \cup {r} /\ UNCHANGED faults
       \/ Fails /\ UNCHANGED rows
    /\ UNCHANGED <<Others, throttled, invited, links, mailed, link, expired, tenancy, serving>>

\* issue_invite_token.
IssueToken(r) ==
    /\ step[r] = "issue" /\ Goto(r, "mail")
    /\ links' = links \cup {r}
    /\ UNCHANGED <<Others, faults, throttled, rows, invited, mailed, link, expired, tenancy,
                   serving>>

\* The mail; the answer to it may be lost, and the visitor sees a failure.
MailLink(r) ==
    /\ step[r] = "mail"
    /\ \/ Goto(r, "done")   /\ mailed' = mailed \cup {r} /\ UNCHANGED faults
       \/ Goto(r, "failed") /\ mailed' \in {mailed, mailed \cup {r}} /\ Fails
    /\ UNCHANGED <<Others, throttled, rows, invited, links, link, expired, tenancy, serving>>

TokenExpires(t) ==
    /\ t \in links /\ links' = links \ {t} /\ expired' = expired \cup {t}
    /\ UNCHANGED <<access, about, throttled, rows, invited, mailed, link, tenancy, serving>>

-----------------------------------------------------------------------------
(* Supabase Auth's invitation and the trigger on auth.users *)

\* handle_new_user: the child company of the invitation, or one of their own.
\* It swallows its exceptions, and what it did is undone with them.
NewUser(e, c) ==
    \/ /\ users' = [users EXCEPT ![e] = c]
       /\ companies' = companies \cup {c}
       /\ UNCHANGED untriggered
    \/ /\ Fails
       /\ users' = [users EXCEPT ![e] = Unlinked]
       /\ untriggered' = untriggered \cup {e}
       /\ UNCHANGED companies

\* invite_user_by_email answers, and goes on to `then'.
Invites(r, c, then) ==
    /\ users[about[r]] = NoCompany /\ NewUser(about[r], c) /\ Goto(r, then)
    /\ (users'[about[r]] = c => UNCHANGED faults)

\* It raises, and goes on to `then': the address is known, or the call failed,
\* perhaps only on its way back.
InviteRaises(r, c, then) ==
    /\ Goto(r, then)
    /\ \/ users[about[r]] # NoCompany /\ UNCHANGED <<faults, users, companies, untriggered>>
       \/ Fails /\ UNCHANGED <<users, companies, untriggered>>
       \/ /\ users[about[r]] = NoCompany /\ Fails /\ UNCHANGED untriggered
          /\ users' = [users EXCEPT ![about[r]] = c]
          /\ companies' = companies \cup {c}

-----------------------------------------------------------------------------
(* The link in the mail, and the administrator's own invitation *)

\* Mutant of Consume: the token is read here and deleted a moment later.
GetThenDelete(r) ==
    /\ At(r, "click", "begin")
    /\ \E t \in mailed :
          /\ link'  = [link EXCEPT ![r] = t]
          /\ about' = [about EXCEPT ![r] = about[t]]
          /\ links' = IF \E q \in Requests \ {r} : link[q] = t THEN links \ {t} ELSE links
          /\ Goto(r, IF t \in links THEN "row" ELSE "refused")
    /\ UNCHANGED <<plan, kind, signing, apikeys, faults, throttled, rows, invited, mailed,
                   expired, tenancy, serving>>

\* consume_invite_token: GETDEL.
Consume(r) ==
    /\ At(r, "click", "begin")
    /\ \E t \in mailed :
          /\ link'  = [link EXCEPT ![r] = t]
          /\ about' = [about EXCEPT ![r] = about[t]]
          /\ links' = links \ {t}
          /\ Goto(r, IF t \in links THEN "row" ELSE "refused")
    /\ UNCHANGED <<plan, kind, signing, apikeys, faults, throttled, rows, invited, mailed,
                   expired, tenancy, serving>>

\* The booking's row; an empty request_id is no uuid and raises.
ReadBooking(r) ==
    /\ step[r] = "row"
    /\ \/ link[r] \in rows /\ Goto(r, "invite") /\ UNCHANGED faults
       \/ link[r] \notin rows /\ Goto(r, "failed") /\ UNCHANGED faults
       \/ Goto(r, "failed") /\ Fails
    /\ UNCHANGED <<Others, booking, tenancy, serving>>

\* invite_user: the administrator picks a booking from the list.
PickBooking(r) ==
    /\ At(r, "invite", "begin") /\ Goto(r, "invite")
    /\ \E t \in rows : /\ link'  = [link EXCEPT ![r] = t]
                       /\ about' = [about EXCEPT ![r] = about[t]]
    /\ UNCHANGED <<plan, kind, signing, apikeys, faults, throttled, rows, invited, links,
                   mailed, expired, tenancy, serving>>

Invite(r) ==
    /\ step[r] = "invite" /\ kind[r] \in {"click", "invite"}
    /\ \/ Invites(r, Own(about[r]), "status")
       \/ InviteRaises(r, Own(about[r]), "failed")
    /\ UNCHANGED <<Others, booking, stuck, undone, serving>>

MarkInvited(r) ==
    /\ step[r] = "status"
    /\ \/ Goto(r, "done") /\ invited' = invited \cup ({link[r]} \cap rows) /\ UNCHANGED faults
       \/ Goto(r, "failed") /\ Fails /\ UNCHANGED invited
    /\ UNCHANGED <<Others, throttled, rows, links, mailed, link, expired, tenancy, serving>>

-----------------------------------------------------------------------------
(* create_child_company *)

InsertChild(r) ==
    /\ At(r, "child", "begin")
    /\ \/ /\ Goto(r, "invite")
          /\ companies' = companies \cup {Child(r)} /\ UNCHANGED faults
       \/ Goto(r, "failed") /\ Fails /\ UNCHANGED companies
    /\ UNCHANGED <<Others, booking, users, untriggered, stuck, undone, serving>>

InviteChild(r) ==
    /\ step[r] = "invite" /\ kind[r] = "child"
    /\ Invites(r, Child(r), "done") \/ InviteRaises(r, Child(r), "rollback")
    /\ UNCHANGED <<Others, booking, stuck, undone, serving>>

\* Mutant of RollBack: the failed invitation is only reported.
ReportOnly(r) ==
    /\ step[r] = "rollback" /\ Goto(r, "failed")
    /\ UNCHANGED <<Others, booking, faults, users, companies, stuck, undone, untriggered,
                   serving>>

\* The company is deleted; a user who was linked to it loses the link (ON
\* DELETE SET NULL).
RollBack(r) ==
    /\ step[r] = "rollback" /\ Goto(r, "failed")
    /\ companies' = companies \ {Child(r)}
    /\ users'  = [e \in Emails |-> IF users[e] = Child(r) THEN Unlinked ELSE users[e]]
    /\ undone' = IF users' # users THEN undone \cup {r} ELSE undone
    /\ UNCHANGED <<Others, booking, faults, stuck, untriggered, serving>>

RollBackFails(r) ==
    /\ step[r] = "rollback" /\ Fails /\ Goto(r, "failed")
    /\ stuck' = stuck \cup {r}
    /\ UNCHANGED <<Others, booking, users, companies, untriggered, undone, serving>>

-----------------------------------------------------------------------------
(* The company of a signed-in user: get_company_id *)

\* The cache, where Redis answers and has it.
CompanyFromCache(r) ==
    /\ step[r] = "company" /\ cached[about[r]] # NoCompany
    /\ actsFor' = [actsFor EXCEPT ![r] = cached[about[r]]]
    /\ Goto(r, "serve")
    /\ UNCHANGED <<Others, faults, booking, tenancy, cached>>

\* The users row: 403 without one or without a company.  Where Redis failed
\* nothing is cached.
LookUpCompany(r) ==
    \E then \in {"setex", "serve"} :
        /\ step[r] = "company"
        /\ IF then = "serve" THEN Fails ELSE cached[about[r]] = NoCompany /\ UNCHANGED faults
        /\ IF users[about[r]] \in companies
           THEN Goto(r, then) /\ actsFor' = [actsFor EXCEPT ![r] = users[about[r]]]
           ELSE Goto(r, "refused") /\ UNCHANGED actsFor
        /\ UNCHANGED <<Others, booking, tenancy, cached>>

CacheCompany(r) ==
    /\ step[r] = "setex" /\ Goto(r, "serve")
    /\ \/ cached' = [cached EXCEPT ![about[r]] = actsFor[r]] /\ UNCHANGED faults
       \/ Fails /\ UNCHANGED cached
    /\ UNCHANGED <<Others, booking, tenancy, actsFor>>

CompanyCacheExpires(e) ==
    /\ cached[e] # NoCompany
    /\ cached' = [cached EXCEPT ![e] = NoCompany]
    /\ UNCHANGED <<access, about, booking, tenancy, actsFor>>

\* onboarding_complete, update_my_company: a row that is gone is not updated.
Serve(r) ==
    /\ step[r] = "serve"
    /\ Goto(r, IF actsFor[r] \in companies THEN "done" ELSE "refused")
    /\ UNCHANGED <<Others, faults, booking, tenancy, serving>>

-----------------------------------------------------------------------------
\* The worker dies with a request.
Die(r) ==
    /\ step[r] \notin {"idle", "done", "failed", "refused", "key", "fetch", "apply", "limit"}
    /\ Fails /\ Goto(r, "failed")
    /\ stuck' = IF kind[r] = "child" THEN stuck \cup {r} ELSE stuck
    /\ UNCHANGED <<Others, booking, users, companies, untriggered, undone, serving>>

Init ==
    /\ AccessInit
    /\ about = [r \in Requests |-> 0]
    /\ throttled = FALSE /\ rows = {} /\ invited = {} /\ links = {} /\ mailed = {}
    /\ link = [r \in Requests |-> 0] /\ expired = {}
    /\ users = [e \in Emails |-> NoCompany] /\ companies = {}
    /\ untriggered = {} /\ stuck = {} /\ undone = {}
    /\ cached = [e \in Emails |-> NoCompany]
    /\ actsFor = [r \in Requests |-> NoCompany]

Next ==
    \/ AccessNext /\ UNCHANGED <<about, booking, tenancy, serving>>
    \/ \E r \in Requests :
          \/ \E k \in Kinds, e \in Emails : Arrive(r, k, e)
          \/ Throttle(r) \/ VerifyRecaptcha(r) \/ InsertBooking(r) \/ IssueToken(r)
          \/ MailLink(r) \/ Consume(r) \/ ReadBooking(r) \/ PickBooking(r) \/ Invite(r)
          \/ MarkInvited(r) \/ InsertChild(r) \/ InviteChild(r) \/ RollBack(r)
          \/ RollBackFails(r) \/ CompanyFromCache(r) \/ LookUpCompany(r) \/ CacheCompany(r)
          \/ Serve(r) \/ Die(r)
    \/ \E t \in Requests : TokenExpires(t)
    \/ \E e \in Emails : CompanyCacheExpires(e)
    \/ ThrottleEnds

Spec == Init /\ [][Next]_vars

Labels  == {"idle", "begin", "key", "fetch", "apply", "remote", "company", "limit", "captcha",
            "insert", "issue", "mail", "row", "invite", "status", "rollback", "setex", "serve",
            "done", "failed", "refused"}
Company == {NoCompany, Unlinked} \cup {Own(e) : e \in Emails} \cup {Child(r) : r \in Requests}

TypeOK ==
    /\ AccessTypeOK /\ step \in [Requests -> Labels]
    /\ about \in [Requests -> Emails \cup {0}] /\ link \in [Requests -> Requests \cup {0}]
    /\ rows \cup links \cup mailed \cup expired \subseteq Requests /\ invited \subseteq rows
    /\ users \in [Emails -> Company] /\ companies \subseteq Company \ {NoCompany, Unlinked}
    /\ cached \in [Emails -> Company \ {Unlinked}]
    /\ actsFor \in [Requests -> Company \ {Unlinked}]
    /\ throttled \in BOOLEAN /\ untriggered \subseteq Emails
    /\ stuck \cup undone \subseteq Requests

-----------------------------------------------------------------------------
(* "We don't leave an orphan company with no linked user": a child company    *)
(* without its user is one whose request is under way, could not roll back or *)
(* died, or whose trigger failed.  A user has no company only if the trigger  *)
(* failed or the rollback met a user whose invitation had gone out after all; *)
(* and nobody is served for a company that such a rollback did not remove.    *)
NoOrphanCompany ==
    /\ \A c \in companies : c.of = "child" =>
          \/ \E e \in Emails : users[e] = c
          \/ step[c.n] \in {"invite", "rollback"}
          \/ c.n \in stuck \/ about[c.n] \in untriggered
    /\ \A e \in Emails : users[e] = Unlinked =>
          e \in untriggered \/ \E r \in undone : about[r] = e
    /\ \A r \in Requests : actsFor[r] # NoCompany =>
          actsFor[r] \in companies \cup {Child(q) : q \in undone}

(* "Two concurrent clicks on the same link cannot both succeed", and a link    *)
(* that works no more has expired, has made its user, or was used by a click   *)
(* that is under way or failed after it; who is marked invited has a user.     *)
LinkWorksOnce ==
    /\ \A t \in Requests :
          Cardinality({r \in Requests : /\ kind[r] = "click" /\ link[r] = t
                                        /\ step[r] \notin {"begin", "refused"}}) <= 1
    /\ \A t \in mailed \ links :
          \/ t \in expired \/ users[about[t]] # NoCompany
          \/ \E r \in Requests : link[r] = t /\ step[r] \in {"row", "invite", "failed"}
    /\ \A t \in invited : users[about[t]] # NoCompany
=============================================================================
