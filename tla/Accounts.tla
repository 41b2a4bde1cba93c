------------------------------- MODULE Accounts -------------------------------
(***************************************************************************)
(* Accounts and the ways into them: onboarding a school, invitations, the  *)
(* CSV import, self-registration, accept-invite, forgot / reset / change   *)
(* password, login and the middleware's check (internal/auth,              *)
(* internal/tenant, internal/user, internal/middleware).                   *)
(*                                                                         *)
(* Requests consist of separate statements.  Rows, links and passwords are *)
(* named by the request that made them: account[r] is the users row        *)
(* inserted by r, link r is the token generated by r (an invitation if r   *)
(* makes an account, a reset link if r is a ForgotPassword), password r    *)
(* the one set by r.  `before` remembers which requests were over when one *)
(* began.  The limit on admins is the subject of module Admins.            *)
(***************************************************************************)
EXTENDS FiniteSets

CONSTANTS
    Schools,     \* tenants, by subdomain; a deleted one is not founded again
    Makes,       \* requests that insert an account (a line of an imported file
                 \* counts as one)
    Kind,        \* Kind[r]: which of the handlers below r goes to
    Email,       \* Email[r], School[r]: for whom and where
    School,
    Forgots,     \* requests POST /auth/forgot-password
    Uses,        \* requests POST /auth/reset-password and /auth/accept-invite
    Changes,     \* requests POST /me/change-password
    Temp,        \* the placeholder password of an invited account
    Nothing

Kinds    == {"school", "admin", "member", "import", "register"}
Links    == Makes \cup Forgots
Requests == Makes \cup Forgots \cup Uses \cup Changes
Passwords == Makes \cup Uses \cup Changes \cup {Temp}

ASSUME AccountsAssumption ==
    /\ Makes = DOMAIN Kind /\ Kind \in [Makes -> Kinds]
    /\ Makes = DOMAIN Email
    /\ School \in [Makes -> Schools]
    /\ Makes \cap Forgots = {} /\ Makes \cap Uses = {} /\ Makes \cap Changes = {}
    /\ Forgots \cap Uses = {} /\ Forgots \cap Changes = {} /\ Uses \cap Changes = {}
    /\ Temp \notin Requests /\ Nothing \notin Requests \cup {Temp}

VARIABLES
    school,      \* tenants: "absent", "active", "inactive" or "deleted"
    account,     \* users
    known,       \* the links that reached somebody, by mail or in a response
    aged,        \* the links past the lifetime their mail announces
    sessions,    \* the accounts a JWT was issued for
    pc,          \* where each request is: "over" if it did what it was to do,
                 \* "refused" by the code, "failed" with a statement
    subject,     \* the account a request has read
    given,       \* the link, or the current password, it came with
    founded,     \* history: the requests that inserted a tenant,
    blind,       \*   those whose look for the address failed,
    before       \*   and for each request those over when it began

notes   == <<founded, blind>>
request == <<pc, subject, given, notes, before>>
vars    == <<school, account, known, aged, sessions, request>>

Row == [state : {"none", "live", "gone"}, active : BOOLEAN, verified : BOOLEAN,
        password : Passwords, invite : BOOLEAN, reset : Forgots \cup {Nothing}]

Blank == [state |-> "none", active |-> TRUE, verified |-> FALSE,
          password |-> Temp, invite |-> FALSE, reset |-> Nothing]

Init ==
    /\ school = [s \in Schools |-> "absent"]
    /\ account = [r \in Makes |-> Blank]
    /\ known = {} /\ aged = {} /\ sessions = {}
    /\ pc = [r \in Requests |-> "new"]
    /\ subject = [r \in Requests |-> Nothing]
    /\ given = [r \in Requests |-> Nothing]
    /\ founded = {} /\ blind = {}
    /\ before = [r \in Requests |-> {}]

Live(i)    == account[i].state = "live"
Ended      == {r \in Requests : pc[r] \in {"over", "refused", "failed"}}
Present(e) == \E i \in Makes : Live(i) /\ Email[i] = e

Goto(r, l) == pc' = [pc EXCEPT ![r] = l]

Starts(r, l) ==
    /\ pc[r] = "new"
    /\ Goto(r, l)
    /\ before' = [before EXCEPT ![r] = Ended]

(* UPDATE ... WHERE id: no row, and no error, if the account is gone.      *)
Updated(i, row) == account' = IF Live(i) THEN [account EXCEPT ![i] = row] ELSE account

-----------------------------------------------------------------------------
(* Making accounts.                                                        *)

(* Create looks for the subdomain, RegisterStudent wants the school named in *)
(* the header active; the super admin's invitation does not look.  For an    *)
(* invitation or an import by the school's own people, ResolveTenant wants   *)
(* the school in the header active, whichever it is, and Authenticate then   *)
(* goes by the account's.                                                    *)
Admits(r) ==
    /\ Kind[r] = "school" => school[School[r]] = "absent"
    /\ Kind[r] = "register" => school[School[r]] = "active"
    /\ Kind[r] \in {"member", "import"} =>
          /\ school[School[r]] \in {"active", "inactive"}
          /\ \E s \in Schools : school[s] = "active"

Make(r) ==
    /\ Admits(r)
    /\ Starts(r, "look")
    /\ UNCHANGED <<school, account, known, aged, sessions, subject, given, notes>>

(* The look for the e-mail address.                                        *)
\* Mutant: Create counts on UNIQUE (email) and does not look.
TakenUnlessSchool(r) == Kind[r] # "school" /\ Present(Email[r])

Taken(r) == Present(Email[r])

Onward(r) == IF Kind[r] = "school" THEN "tenant" ELSE "insert"

(* A look that fails is taken for one that found nothing.                  *)
Look(r) ==
    /\ pc[r] = "look"
    /\ \/ Goto(r, IF Taken(r) THEN "refused" ELSE Onward(r)) /\ UNCHANGED blind
       \/ Goto(r, Onward(r)) /\ blind' = blind \cup {r}
    /\ UNCHANGED <<school, account, known, aged, sessions, subject, given, founded, before>>

(* INSERT INTO tenants; the subdomain is UNIQUE.                           *)
InsertTenant(r) ==
    /\ pc[r] = "tenant"
    /\ IF school[School[r]] = "absent"
       THEN /\ school' = [school EXCEPT ![School[r]] = "active"]
            /\ founded' = founded \cup {r}
            /\ Goto(r, "insert")
       ELSE Goto(r, "refused") /\ UNCHANGED <<school, founded>>
    /\ UNCHANGED <<account, known, aged, sessions, subject, given, blind, before>>

(* The INSERT is refused by UNIQUE (email) and by the reference to tenants. *)
Insertable(r) ==
    /\ ~Present(Email[r])
    /\ school[School[r]] \in {"active", "inactive"}

NewRow(r) ==
    [Blank EXCEPT !.state = "live",
                  !.invite = Kind[r] # "register",
                  !.password = IF Kind[r] = "register" THEN r ELSE Temp]

(* The link is in the response, except that of an import, which only the   *)
(* mail carries: the queue may refuse it, which is logged and no more.     *)
Told(r) ==
    CASE Kind[r] = "register" -> {known}
      [] Kind[r] = "import"   -> {known, known \cup {r}}
      [] OTHER                -> {known \cup {r}}

Insert(r) ==
    /\ pc[r] = "insert"
    /\ IF Insertable(r)
       THEN /\ account' = [account EXCEPT ![r] = NewRow(r)]
            /\ known' \in Told(r)
            /\ Goto(r, "over")
       ELSE Goto(r, "refused") /\ UNCHANGED <<account, known>>
    /\ UNCHANGED <<school, aged, sessions, subject, given, notes, before>>

-----------------------------------------------------------------------------
(* Passwords and links.                                                    *)

ForgotPassword(f, i) ==
    /\ Live(i)
    /\ Starts(f, "write")
    /\ subject' = [subject EXCEPT ![f] = i]
    /\ UNCHANGED <<school, account, known, aged, sessions, given, notes>>

\* Mutant: a link that was not used yet is kept.
ForgottenOnce(f, row) == IF row.reset = Nothing THEN [row EXCEPT !.reset = f] ELSE row

(* The token is stored, whatever was there; the mail may fail.             *)
Forgotten(f, row) == [row EXCEPT !.reset = f]

ForgotWrite(f) ==
    /\ pc[f] = "write"
    /\ Updated(subject[f], Forgotten(f, account[subject[f]]))
    /\ known' \in {known, known \cup {f}}
    /\ Goto(f, "over")
    /\ UNCHANGED <<school, aged, sessions, subject, given, notes, before>>

ResetPassword(u, l, i) ==
    /\ l \in known \cap Forgots
    /\ Live(i) /\ account[i].reset = l
    /\ l \notin aged
    /\ Starts(u, "reset")
    /\ subject' = [subject EXCEPT ![u] = i]
    /\ given' = [given EXCEPT ![u] = l]
    /\ UNCHANGED <<school, account, known, aged, sessions, notes>>

\* Mutant: the token stays.
ResetKeepsLink(u, row) == [row EXCEPT !.password = u]

Reset(u, row) == [row EXCEPT !.password = u, !.reset = Nothing]

ResetWrite(u) ==
    /\ pc[u] = "reset"
    /\ Updated(subject[u], Reset(u, account[subject[u]]))
    /\ Goto(u, "over")
    /\ UNCHANGED <<school, known, aged, sessions, subject, given, notes, before>>

(* Neither the account's nor the school's is_active is looked at.          *)
AcceptInvite(u, l) ==
    /\ l \in known \cap Makes
    /\ Live(l) /\ account[l].invite
    /\ Starts(u, "accept")
    /\ subject' = [subject EXCEPT ![u] = l]
    /\ given' = [given EXCEPT ![u] = l]
    /\ UNCHANGED <<school, account, known, aged, sessions, notes>>

Accepted(u, row) == [row EXCEPT !.password = u, !.verified = TRUE, !.invite = FALSE]

AcceptWrite(u) ==
    /\ pc[u] = "accept"
    /\ Updated(subject[u], Accepted(u, account[subject[u]]))
    /\ sessions' = sessions \cup {subject[u]}
    /\ Goto(u, "over")
    /\ UNCHANGED <<school, known, aged, subject, given, notes, before>>

(* Authenticate lets the session through, then ChangePassword begins.      *)
ChangePassword(c, i, w) ==
    /\ i \in sessions /\ Live(i) /\ account[i].active
    /\ Starts(c, "verify")
    /\ subject' = [subject EXCEPT ![c] = i]
    /\ given' = [given EXCEPT ![c] = w]
    /\ UNCHANGED <<school, account, known, aged, sessions, notes>>

Matches(c) == Live(subject[c]) /\ account[subject[c]].password = given[c]

ChangeVerify(c) ==
    /\ pc[c] = "verify"
    /\ Goto(c, IF Matches(c) THEN "change" ELSE "refused")
    /\ UNCHANGED <<school, account, known, aged, sessions, subject, given, notes, before>>

ChangeWrite(c) ==
    /\ pc[c] = "change"
    /\ Updated(subject[c], [account[subject[c]] EXCEPT !.password = c])
    /\ Goto(c, "over")
    /\ UNCHANGED <<school, known, aged, sessions, subject, given, notes, before>>

(* A statement of a request fails and the request ends with an error.      *)
Fails(r) ==
    /\ pc[r] # "new" /\ r \notin Ended
    /\ Goto(r, "failed")
    /\ UNCHANGED <<school, account, known, aged, sessions, subject, given, notes, before>>

\* Mutant: is_verified is not looked at.
MayLogInUnverified(i) == Live(i) /\ school[School[i]] = "active" /\ account[i].active

(* The checks of Login, apart from that of the password.                   *)
MayLogIn(i) ==
    /\ Live(i)
    /\ school[School[i]] = "active"
    /\ account[i].active
    /\ account[i].verified

(* Whoever knows the password, the placeholder included, may try.          *)
Login(i) ==
    /\ MayLogIn(i)
    /\ sessions' = sessions \cup {i}
    /\ UNCHANGED <<school, account, known, aged, request>>

-----------------------------------------------------------------------------
(* Administration, one statement each as far as accounts can tell; and the *)
(* time that passes.                                                       *)

SetActive(i) ==
    /\ Live(i)
    /\ account' = [account EXCEPT ![i].active = ~@]
    /\ UNCHANGED <<school, known, aged, sessions, request>>

DeleteUser(i) ==
    /\ Live(i)
    /\ account' = [account EXCEPT ![i].state = "gone"]
    /\ UNCHANGED <<school, known, aged, sessions, request>>

SetSchool(s) ==
    /\ school[s] \in {"active", "inactive"}
    /\ school' = [school EXCEPT ![s] = IF @ = "active" THEN "inactive" ELSE "active"]
    /\ UNCHANGED <<account, known, aged, sessions, request>>

(* The users reference their tenant, ON DELETE NO ACTION: a school that has *)
(* accounts is not deleted.                                                 *)
DeleteSchool(s) ==
    /\ school[s] \in {"active", "inactive"}
    /\ \A i \in Makes : Live(i) => School[i] # s
    /\ school' = [school EXCEPT ![s] = "deleted"]
    /\ UNCHANGED <<account, known, aged, sessions, request>>

LinkAges(l) ==
    /\ l \in known \ aged
    /\ aged' = aged \cup {l}
    /\ UNCHANGED <<school, account, known, sessions, request>>

-----------------------------------------------------------------------------
Making == \E r \in Makes : Make(r) \/ Look(r) \/ InsertTenant(r) \/ Insert(r)

UsingLinks ==
    \/ \E f \in Forgots : ForgotWrite(f) \/ \E i \in Makes : ForgotPassword(f, i)
    \/ \E u \in Uses : \/ ResetWrite(u) \/ AcceptWrite(u)
                       \/ \E l \in Links : AcceptInvite(u, l)
                       \/ \E l \in Links, i \in Makes : ResetPassword(u, l, i)

Changing ==
    \E c \in Changes : \/ ChangeVerify(c) \/ ChangeWrite(c)
                       \/ \E i \in Makes, w \in Passwords : ChangePassword(c, i, w)

Administering ==
    \/ \E i \in Makes : SetActive(i) \/ DeleteUser(i)
    \/ \E s \in Schools : SetSchool(s) \/ DeleteSchool(s)

Next ==
    \/ Making \/ UsingLinks \/ Changing \/ Administering
    \/ \E r \in Requests : Fails(r)
    \/ \E i \in Makes : Login(i)
    \/ \E l \in Links : LinkAges(l)

Spec == Init /\ [][Next]_vars
-----------------------------------------------------------------------------
(* Properties.                                                             *)

(* The types; a request that makes an account has made it exactly when it  *)
(* is over.                                                                *)
TypeOK ==
    /\ school \in [Schools -> {"absent", "active", "inactive", "deleted"}]
    /\ account \in [Makes -> Row]
    /\ known \subseteq Links /\ aged \subseteq known /\ sessions \subseteq Makes
    /\ pc \in [Requests -> {"new", "look", "tenant", "insert", "write", "reset",
                            "accept", "verify", "change", "over", "refused", "failed"}]
    /\ subject \in [Requests -> Makes \cup {Nothing}]
    /\ given \in [Requests -> Links \cup Passwords \cup {Nothing}]
    /\ founded \subseteq {r \in Makes : Kind[r] = "school"} /\ blind \subseteq Makes
    /\ before \in [Requests -> SUBSET Requests]
    /\ \A r \in Makes : account[r].state = "none" <=> pc[r] # "over"

(* Nobody is let into an account that still has the placeholder password:  *)
(* every working session is that of a verified account, and an account is  *)
(* verified only with a password its owner chose.  Login looks at          *)
(* is_verified; resetting or changing the password of an invited account   *)
(* does not set it (Login, AcceptInvite, ResetPassword).                   *)
NoTemporaryEntry ==
    /\ \A i \in sessions : Live(i) => account[i].verified
    /\ \A i \in Makes : account[i].verified => account[i].password # Temp

Overlap(r, q) == r \notin before[q] /\ q \notin before[r]

(* A link is good for one use: two requests that both succeeded with it    *)
(* were under way at once, whatever else happened (ResetPassword,          *)
(* AcceptInvite).                                                          *)
LinkUsedOnce ==
    \A u, v \in Uses :
        u # v /\ pc[u] = "over" /\ pc[v] = "over" /\ given[u] = given[v] => Overlap(u, v)

(* A reset link is dead once a later one was asked for and stored: no      *)
(* ResetPassword that begins after that succeeds with it (ForgotPassword). *)
SupersededDead ==
    \A f, g \in Forgots, u \in Uses :
        /\ f \in before[g] /\ g \in before[u]
        /\ pc[g] = "over" /\ subject[f] = subject[g]
        => given[u] # f

(* A school is left without the admin it was created with only if          *)
(* another request made an account for the admin's address meanwhile, or a *)
(* statement failed, that look included, which comes before the INSERT of   *)
(* the tenant (tenant.Create).                                             *)
OrphanOverlaps ==
    \A r \in founded \ blind :
        pc[r] = "refused" /\ school[School[r]] # "deleted" =>
            \E q \in Makes \ {r} :
                account[q].state # "none" /\ Email[q] = Email[r] /\ Overlap(q, r)

(* The inductive invariant.                                                *)
Steps(r) ==
    CASE r \in Makes   -> {"new", "look", "tenant", "insert"}
      [] r \in Forgots -> {"new", "write"}
      [] r \in Uses    -> {"new", "reset", "accept"}
      [] OTHER         -> {"new", "verify", "change"}

(* Every request is at a step of its own handler, ended requests stay so,  *)
(* a tenant is inserted just before its admin, and sessions are those of   *)
(* accounts that were made.                                                *)
InOrder ==
    \A r \in Requests :
        /\ r \in Ended \/ pc[r] \in Steps(r)
        /\ before[r] \subseteq Ended \ {r}
        /\ r \in founded => pc[r] \notin {"new", "look", "tenant"}
                             /\ school[School[r]] # "absent"
        /\ pc[r] = "tenant" => Kind[r] = "school"
        /\ r \in sessions => pc[r] = "over"
        /\ r \notin Makes /\ pc[r] # "new" => subject[r] \in Makes

(* Links get about only once they are stored, and are stored where they    *)
(* belong.                                                                 *)
LinksStored ==
    /\ \A l \in known : pc[l] = "over"
    /\ \A i \in Makes : account[i].reset # Nothing =>
          pc[account[i].reset] = "over" /\ subject[account[i].reset] = i

LinkRead(u) ==
    /\ given[u] \in Links
    /\ pc[given[u]] = "over"
    /\ given[u] \in Forgots => pc[u] # "accept" /\ subject[u] = subject[given[u]]
    /\ given[u] \in Makes => pc[u] # "reset" /\ subject[u] = given[u]

LinksRead == \A u \in Uses : IF pc[u] = "new" THEN given[u] = Nothing ELSE LinkRead(u)

(* The link a finished request used is gone from its account,              *)
LinksSpent ==
    \A u \in Uses : pc[u] = "over" /\ Live(subject[u]) =>
        /\ account[subject[u]].reset # given[u]
        /\ given[u] \in Makes => ~account[subject[u]].invite

(* so that no request that began later came with it;                       *)
OneUse ==
    \A u, v \in Uses :
        u # v /\ pc[u] = "over" /\ given[u] = given[v] => u \notin before[v]

(* likewise for a link that was superseded.                                *)
Superseded ==
    \A f, g \in Forgots :
        /\ f \in before[g] /\ pc[g] = "over"
        /\ subject[f] = subject[g] /\ Live(subject[g])
        => account[subject[g]].reset # f

(* An account that exists although its address was found free was made     *)
(* after the request that looked began.                                    *)
LookedFirst ==
    \A r, q \in Makes :
        /\ pc[r] \in {"tenant", "insert"} /\ r \notin blind
        /\ Live(q) /\ Email[q] = Email[r]
        => q \notin before[r]

IInv ==
    /\ TypeOK /\ InOrder /\ LinksStored /\ LinksRead /\ LinksSpent
    /\ NoTemporaryEntry /\ OneUse /\ Superseded /\ SupersededDead
    /\ LookedFirst /\ OrphanOverlaps

(* What the documents say and the code does not do.                        *)

(* "Create onboards a new school and creates its first school_admin user": *)
(* a Create that is over has made both, or neither.                        *)
SchoolHasAdmin ==
    \A r \in founded \cap Ended :
        school[School[r]] # "deleted" => account[r].state # "none"

(* "check your email to verify your account": every account is verified    *)
(* or has a link that verifies it (RegisterStudent).                       *)
CanBeVerified ==
    \A i \in Makes : Live(i) => account[i].verified \/ account[i].invite

(* The invitation's mail says "This link expires in 7 days": AcceptInvite  *)
(* refuses it from then on.                                                *)
InviteExpires ==
    [][\A u \in Uses, l \in Makes : AcceptInvite(u, l) => l \notin aged]_vars

(* The reset mail says "This link expires in 1 hour": until then, if it    *)
(* was not used and no other was asked for since, it works                 *)
(* (ForgotPassword, ResetPassword).                                        *)
NewLinkWorks ==
    \A f \in known \cap Forgots :
        /\ pc[f] = "over" /\ Live(subject[f]) /\ f \notin aged
        /\ \A u \in Uses : given[u] # f
        /\ \A g \in Forgots : pc[g] # "new" => g = f \/ g \in before[f]
        => account[subject[f]].reset = f

(* "ChangePassword verifies the current password and sets a new one": what *)
(* it replaces is what it verified.                                        *)
ReplacesVerified ==
    [][\A c \in Changes : ChangeWrite(c) /\ Live(subject[c]) => Matches(c)]_vars
===============================================================================
