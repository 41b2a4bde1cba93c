---------------------------- MODULE AdminsProofs ----------------------------
(***************************************************************************)
(* One request at a time keeps both rules.  IInv is inductive: as long as  *)
(* `clean` holds the request is alone between its count and its write      *)
(* (AloneInTurn), so what it counted is still so (CountsHold).             *)
(***************************************************************************)
EXTENDS Admins, FiniteSetTheorems, TLAPS

LEMMA ActiveFinite == IsFiniteSet(Active)
<1>1. Active \subseteq Admins
  BY DEF Active
<1> QED BY <1>1, AdminsAssumption, FS_Subset

LEMMA InitIInv == Init => IInv
<1> SUFFICES ASSUME Init PROVE IInv
  OBVIOUS
<1>1. PICK first \in Admins : row = [u \in Admins |-> IF u = first THEN "active" ELSE "absent"]
  BY DEF Init
<1>2. Active = {first}
  BY <1>1 DEF Active
<1>3. Cardinality(Active) = 1
  BY <1>2, FS_Singleton
<1>4. TypeOK
  BY <1>1 DEF Init, TypeOK, Row
<1> QED
  BY <1>2, <1>3, <1>4, AdminsAssumption
     DEF Init, IInv, AloneInTurn, CountsHold, AdminRemainsInTurn, CappedInTurn

\* A request that begins leaves the rows alone; what it relies on it has just
\* counted, or need not count.
LEMMA BeginKeeps ==
    ASSUME IInv, NEW r \in Requests, NEW users \in SUBSET Admins, NEW aim \in Row,
           NEW at \in {"invite", "check", "write"}, Begin(r, users, aim, at),
           at = "invite" => RoomForAdmin /\ \E u \in Admins : users = {u},
           at = "write" => ~NeedsCheck(users, aim)
    PROVE  IInv'
<1> USE DEF Begin
<1>1. Active' = Active
  BY DEF Active
<1>2. TypeOK'
  BY DEF IInv, TypeOK
<1>3. AloneInTurn'
  BY DEF IInv, TypeOK, AloneInTurn
<1>4. CountsHold'
  BY <1>1 DEF IInv, TypeOK, CountsHold, AdminRemainsInTurn, NeedsCheck, RoomForAdmin
<1> QED
  BY <1>1, <1>2, <1>3, <1>4 DEF IInv, AdminRemainsInTurn, CappedInTurn

\* A request that ends without a write.
LEMMA RefuseKeeps ==
    ASSUME IInv, NEW r \in Requests, Refuse(r)
    PROVE  IInv'
<1> USE DEF Refuse, Finish
<1>1. Active' = Active
  BY DEF Active
<1> QED
  BY <1>1 DEF IInv, TypeOK, Row, AloneInTurn, CountsHold, AdminRemainsInTurn, CappedInTurn

LEMMA CheckKeeps ==
    ASSUME IInv, NEW r \in Requests, Check(r)
    PROVE  IInv'
<1> USE DEF Check
<1>1. Active' = Active
  BY DEF Active
<1> QED
  BY <1>1 DEF IInv, TypeOK, AloneInTurn, CountsHold, AdminRemainsInTurn, CappedInTurn,
              SomeoneRemains

\* A request that writes is the only one under way, so none is left that relies
\* on a count.
LEMMA FinishLeavesNone ==
    ASSUME IInv, NEW r \in Requests, pc[r] # "idle", Finish(r), clean' = clean, row' \in [Admins -> Row],
           revived' \in BOOLEAN
    PROVE  TypeOK' /\ AloneInTurn' /\ CountsHold'
<1> USE DEF Finish
<1>1. TypeOK'
  BY DEF IInv, TypeOK, Row
<1>2. clean => \A x \in Requests : pc'[x] = "idle"
  BY DEF IInv, TypeOK, AloneInTurn
<1> QED
  BY <1>1, <1>2 DEF IInv, TypeOK, AloneInTurn, CountsHold

LEMMA InviteInsertKeeps ==
    ASSUME IInv, NEW r \in Requests, InviteInsert(r)
    PROVE  IInv'
<1> USE DEF InviteInsert
<1>1. PICK u \in Admins : ids[r] = {u}
  BY DEF IInv, TypeOK
<1>2. row' \in [Admins -> Row]
  BY DEF IInv, TypeOK, Row
<1>3. Active' = Active \cup {u} /\ u \notin Active
  BY <1>1 DEF Active
<1>4. Cardinality(Active') = Cardinality(Active) + 1
  BY <1>3, ActiveFinite, FS_AddElement
<1>5. CappedInTurn'
  <2>1. clean => Cardinality(Active) < MaxAdmins
    BY DEF IInv, CountsHold
  <2>2. Cardinality(Active) \in Nat
    BY ActiveFinite, FS_CardinalityType
  <2> QED
    BY <1>4, <2>1, <2>2, AdminsAssumption DEF CappedInTurn
<1>6. TypeOK' /\ AloneInTurn' /\ CountsHold'
  BY <1>2, FinishLeavesNone DEF IInv, TypeOK
<1> QED
  BY <1>3, <1>5, <1>6 DEF IInv, AdminRemainsInTurn

LEMMA WriteKeeps ==
    ASSUME IInv, NEW r \in Requests, Write(r)
    PROVE  IInv'
<1> USE DEF Write
<1>1. row' \in [Admins -> Row] /\ revived' \in BOOLEAN
  BY DEF IInv, TypeOK, Row
<1>2. TypeOK' /\ AloneInTurn' /\ CountsHold'
  BY <1>1, FinishLeavesNone
<1>3. AdminRemainsInTurn'
  <2>1. CASE to[r] = "active"
    BY <2>1 DEF IInv, AdminRemainsInTurn, Active
  <2>2. CASE to[r] # "active"
    BY <2>2 DEF IInv, CountsHold, AdminRemainsInTurn, Active
  <2> QED BY <2>1, <2>2
<1>4. CappedInTurn'
  <2> SUFFICES ASSUME clean, ~revived' PROVE Cardinality(Active') <= MaxAdmins
    BY DEF CappedInTurn
  <2>1. Active' \subseteq Active
    BY DEF IInv, TypeOK, Row, Active
  <2>2. Cardinality(Active') <= Cardinality(Active) /\ Cardinality(Active') \in Nat
    BY <2>1, ActiveFinite, FS_Subset, FS_CardinalityType
  <2>3. Cardinality(Active) <= MaxAdmins /\ Cardinality(Active) \in Nat
    BY ActiveFinite, FS_CardinalityType DEF IInv, CappedInTurn
  <2> QED
    BY <2>2, <2>3, AdminsAssumption
<1> QED
  BY <1>2, <1>3, <1>4 DEF IInv

LEMMA StepIInv == IInv /\ [Next]_vars => IInv'
<1> SUFFICES ASSUME IInv, [Next]_vars PROVE IInv'
  OBVIOUS
<1>1. ASSUME NEW r \in Requests, NEW u \in Admins, InviteAdmin(r, u) PROVE IInv'
  BY <1>1, BeginKeeps DEF InviteAdmin, Row
<1>2. ASSUME NEW r \in Requests, NEW users \in SUBSET Admins, NEW aim \in Row, Change(r, users, aim)
      PROVE  IInv'
  BY <1>2, BeginKeeps DEF Change
<1>3. CASE UNCHANGED vars
  <2>1. Active' = Active
    BY <1>3 DEF vars, Active
  <2> QED
    BY <1>3, <2>1 DEF vars, IInv, TypeOK, AloneInTurn, CountsHold, AdminRemainsInTurn, CappedInTurn
<1> QED
  BY <1>1, <1>2, <1>3, InviteInsertKeeps, CheckKeeps, WriteKeeps, RefuseKeeps DEF Next, Request

\* IInv holds in every reachable state, however many admins and requests.
THEOREM Invariance == Spec => []IInv
<1> QED BY InitIInv, StepIInv, PTL DEF Spec

\* Requests in turn never remove the last active admin.  (Update, Delete,
\* BulkUpdateActive.)
THEOREM AdminRemainsTheorem == Spec => []AdminRemainsInTurn
<1>1. IInv => AdminRemainsInTurn
  BY DEF IInv
<1> QED BY <1>1, Invariance, PTL

\* Invitations in turn keep to the cap, activations apart.  (InviteAdmin.)
THEOREM CappedTheorem == Spec => []CappedInTurn
<1>1. IInv => CappedInTurn
  BY DEF IInv
<1> QED BY <1>1, Invariance, PTL
=============================================================================
