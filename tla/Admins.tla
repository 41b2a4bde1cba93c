-------------------------------- MODULE Admins --------------------------------
(***************************************************************************)
(* The school_admin accounts of one school: InviteAdmin, Update, Delete    *)
(* and BulkUpdateActive (internal/user/service.go), each of which counts   *)
(* rows in one statement and writes in a later one.  Two rules rest on     *)
(* those counts: at most MaxAdmins active admins, and never none.          *)
(***************************************************************************)
EXTENDS Integers, FiniteSets

CONSTANTS
    Admins,      \* e-mail addresses of school_admins, existing or to come
    Requests,    \* concurrent requests of this school's admins or the super admin
    MaxAdmins    \* maxAdminsPerTenant (2)

ASSUME AdminsAssumption == IsFiniteSet(Admins) /\ MaxAdmins \in Nat \ {0}

VARIABLES
    row,         \* users: each admin's row, by is_active
    pc,          \* where each request is,
    ids,         \*   the users it is about,
    to,          \*   what it makes of them
    clean,       \* history: no two requests overlapped,
    revived      \*   an inactive admin was activated again

vars == <<row, pc, ids, to, clean, revived>>

Row == {"absent", "inactive", "active"}

Active == {u \in Admins : row[u] = "active"}

\* tenant.Create made the school and its first admin.
Init ==
    /\ \E first \in Admins : row = [u \in Admins |-> IF u = first THEN "active" ELSE "absent"]
    /\ pc  = [r \in Requests |-> "idle"]
    /\ ids = [r \in Requests |-> {}]
    /\ to  = [r \in Requests |-> "absent"]
    /\ clean = TRUE
    /\ revived = FALSE

\* The first statement of a request that goes on: it is about `users`.
Begin(r, users, aim, at) ==
    /\ pc[r] = "idle"
    /\ pc'  = [pc  EXCEPT ![r] = at]
    /\ ids' = [ids EXCEPT ![r] = users]
    /\ to'  = [to  EXCEPT ![r] = aim]
    /\ clean' = (clean /\ \A x \in Requests : pc[x] = "idle")
    /\ UNCHANGED <<row, revived>>

Finish(r) ==
    /\ pc'  = [pc  EXCEPT ![r] = "idle"]
    /\ ids' = [ids EXCEPT ![r] = {}]
    /\ to'  = [to  EXCEPT ![r] = "absent"]

\* A check or a statement fails, or the process dies.
Refuse(r) ==
    /\ pc[r] # "idle"
    /\ Finish(r)
    /\ UNCHANGED <<row, clean, revived>>

-----------------------------------------------------------------------------
\* Mutant: > for >=.
RoomForOneMore == Cardinality(Active) <= MaxAdmins

RoomForAdmin == Cardinality(Active) < MaxAdmins

InviteAdmin(r, u) ==
    /\ RoomForAdmin
    /\ Begin(r, {u}, "active", "invite")

\* The e-mail is looked up first, but it is the unique index that decides.
InviteInsert(r) ==
    /\ pc[r] = "invite"
    /\ \A u \in ids[r] : row[u] = "absent"
    /\ row' = [u \in Admins |-> IF u \in ids[r] THEN "active" ELSE row[u]]
    /\ Finish(r)
    /\ UNCHANGED <<clean, revived>>

\* Mutant: only a single user is checked for.
NeedsCheckSingle(users, aim) == \E u \in users : aim # "active" /\ Active \cap users = {u}

\* Whether admins who are active would no longer be.
NeedsCheck(users, aim) == aim # "active" /\ Active \cap users # {}

\* Update and Delete load one user, BulkUpdateActive those of a list.
Change(r, users, aim) ==
    /\ \E u \in users : row[u] # "absent"
    /\ aim = "absent" => Cardinality(users) = 1
    /\ Begin(r, users, aim, IF NeedsCheck(users, aim) THEN "check" ELSE "write")

\* Mutant: the admins the request is about are counted too.
SomeoneActive(r) == Active # {}

\* The count in ensureNotLastAdmin, and its like in BulkUpdateActive.
SomeoneRemains(r) == Active \ ids[r] # {}

Check(r) ==
    /\ pc[r] = "check"
    /\ SomeoneRemains(r)
    /\ pc' = [pc EXCEPT ![r] = "write"]
    /\ UNCHANGED <<row, ids, to, clean, revived>>

\* UPDATE or DELETE ... WHERE id IN ids, whatever those rows are by now.
Write(r) ==
    /\ pc[r] = "write"
    /\ row' = [u \in Admins |-> IF u \in ids[r] /\ row[u] # "absent" THEN to[r] ELSE row[u]]
    /\ revived' = (revived \/ \E u \in ids[r] : row[u] = "inactive" /\ to[r] = "active")
    /\ Finish(r)
    /\ UNCHANGED clean

Request(r) ==
    \/ \E u \in Admins : InviteAdmin(r, u)
    \/ \E users \in SUBSET Admins, aim \in Row : Change(r, users, aim)
    \/ InviteInsert(r) \/ Check(r) \/ Write(r) \/ Refuse(r)

Next == \E r \in Requests : Request(r)

Spec == Init /\ [][Next]_vars

-----------------------------------------------------------------------------
TypeOK ==
    /\ row \in [Admins -> Row]
    /\ pc  \in [Requests -> {"idle", "invite", "check", "write"}]
    /\ ids \in [Requests -> SUBSET Admins]
    /\ to  \in [Requests -> Row]
    /\ clean \in BOOLEAN
    /\ revived \in BOOLEAN
    /\ \A r \in Requests : pc[r] = "invite" => \E u \in Admins : ids[r] = {u}

\* While no two requests overlap nobody removes the last active admin, with
\* single changes, batches and deletions in any order.  (Update, Delete,
\* BulkUpdateActive, ensureNotLastAdmin.)
AdminRemainsInTurn == clean => Active # {}

\* Nor do invitations, in turn, make more than two active, unless an inactive
\* admin is activated again, which nothing counts.  (InviteAdmin.)
CappedInTurn == clean /\ ~revived => Cardinality(Active) <= MaxAdmins

\* A request that has no other to fear is alone, and what it counted holds when
\* it writes.
AloneInTurn ==
    clean => \A r, x \in Requests : pc[r] # "idle" /\ pc[x] # "idle" => r = x

CountsHold ==
    clean => \A r \in Requests :
        /\ pc[r] = "invite" => Cardinality(Active) < MaxAdmins
        /\ pc[r] = "write" /\ to[r] # "active" => Active \ ids[r] # {}

\* Provided the rules it maintains are those of requests in turn, it is
\* inductive.
IInv == TypeOK /\ AloneInTurn /\ CountsHold /\ AdminRemainsInTurn /\ CappedInTurn

-----------------------------------------------------------------------------
(* What the repository's texts say, and the code does not keep.            *)

\* service.go:38 "capped at 2 active admins per tenant", if nobody inactive was
\* activated again.
Capped == ~revived => Cardinality(Active) <= MaxAdmins

\* service.go:267 "Blocks deactivating the last active school_admin".
AdminRemains == Active # {}
=============================================================================
