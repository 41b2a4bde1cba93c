---------------------------- MODULE AccountsProofs ----------------------------
(***************************************************************************)
(* IInv is inductive.  A request that only starts, moves on or gives up, a *)
(* row that an administrator touches, and the writes are treated in this   *)
(* order.  What the argument turns on: who has ended acts no more          *)
(* (InOrder), so a link that one finished request used, or one finished    *)
(* ForgotPassword replaced, never comes back into its row.                 *)
(***************************************************************************)
EXTENDS Accounts, TLAPS

\* What the statements make of a row is a row.
LEMMA RowsAreRows ==
    ASSUME NEW row \in Row
    PROVE  /\ \A f \in Forgots : Forgotten(f, row) \in Row
           /\ \A u \in Uses : Reset(u, row) \in Row /\ Accepted(u, row) \in Row
           /\ \A c \in Changes : [row EXCEPT !.password = c] \in Row
           /\ [row EXCEPT !.active = ~@] \in Row
           /\ [row EXCEPT !.state = "gone"] \in Row
BY DEF Row, Forgotten, Reset, Accepted, Passwords

\* So are the row before and after an INSERT.
LEMMA NewRowsAreRows == Blank \in Row /\ \A r \in Makes : NewRow(r) \in Row
BY DEF Row, Passwords, Blank, NewRow

\* An UPDATE changes one row at most, and no row's existence.
LEMMA UpdatesOne ==
    ASSUME TypeOK, NEW i \in Makes, NEW row \in Row, row.state = account[i].state,
           Updated(i, row)
    PROVE  /\ account' \in [Makes -> Row]
           /\ \A j \in Makes : account'[j].state = account[j].state
           /\ \A j \in Makes : account'[j] = IF j = i /\ Live(i) THEN row ELSE account[j]
BY DEF TypeOK, Updated, Live

\* A request that begins: it has read an account, and with a link the account
\* whose link it is.  The link is still in its row, so no request that is over
\* has used it or replaced it.
LEMMA StartsKeep ==
    ASSUME IInv, NEW r \in Requests, NEW l \in Steps(r) \ {"new", "tenant", "insert"},
           NEW i \in Makes \cup {Nothing}, NEW w \in Links \cup Passwords \cup {Nothing},
           Starts(r, l),
           subject' = [subject EXCEPT ![r] = i],
           given' = [given EXCEPT ![r] = w],
           UNCHANGED <<school, account, known, aged, sessions, founded, blind>>,
           r \notin Makes => i \in Makes,
           r \in Uses =>
               /\ w \in known /\ Live(i)
               /\ \/ w \in Forgots /\ l = "reset" /\ account[i].reset = w
                  \/ w \in Makes /\ l = "accept" /\ i = w /\ account[i].invite
    PROVE  IInv'
<1> USE AccountsAssumption DEF Starts, Goto, Requests, Links, Passwords
<1>1. TypeOK'
    BY DEF IInv, TypeOK, Ended, Live, InOrder, Row, Steps
<1>2. InOrder'
    BY DEF IInv, TypeOK, InOrder, Ended, Steps, Live
<1>3. LinksStored'
    BY DEF IInv, TypeOK, LinksStored, Live, Row, Ended, InOrder, Steps
<1>4. LinksRead'
    BY DEF IInv, TypeOK, LinksRead, LinkRead, LinksStored, Live, Ended, InOrder, Steps
<1>5. LinksSpent'
    BY DEF IInv, TypeOK, LinksSpent, LinksRead, LinkRead, LinksStored, Live, Row, Ended, InOrder, Steps
<1>6. NoTemporaryEntry'
    BY DEF IInv, TypeOK, NoTemporaryEntry, Live, Row
<1>7. OneUse'
    BY DEF IInv, TypeOK, OneUse, LinksSpent, LinksRead, LinkRead, InOrder, LinksStored, Live, Ended, Steps
<1>8. Superseded'
    BY DEF IInv, TypeOK, Superseded, InOrder, LinksStored, Live, Row, Ended, Steps
<1>9. SupersededDead'
    BY DEF IInv, TypeOK, SupersededDead, Superseded, InOrder, LinksStored, LinksRead, LinkRead, Live, Ended, Steps
<1>10. LookedFirst'
    BY DEF IInv, TypeOK, LookedFirst, InOrder, Live, Ended, Steps, Taken, Present
<1>11. OrphanOverlaps'
    BY DEF IInv, TypeOK, OrphanOverlaps, LookedFirst, InOrder, Overlap, Ended, Live, Steps, Insertable, Present
<1> QED BY <1>1, <1>2, <1>3, <1>4, <1>5, <1>6, <1>7, <1>8, <1>9, <1>10, <1>11 DEF IInv

\* A request that moves on, or ends, without having written.
LEMMA MovesKeep ==
    ASSUME IInv, NEW r \in Requests, NEW l, Goto(r, l),
           UNCHANGED <<school, account, known, aged, sessions, subject, given, founded, before>>,
           blind \subseteq blind', blind' \subseteq Makes,
           pc[r] # "new", r \notin Ended,
           \/ l \in {"refused", "failed"}
           \/ l \in Steps(r) \ {"new", "look"} /\ r \notin Uses \cup founded,
           l = "tenant" => Kind[r] = "school",
           l \in {"tenant", "insert"} => ~Present(Email[r]) \/ r \in blind',
           l = "refused" /\ r \in founded => ~Insertable(r)
    PROVE  IInv'
<1> USE AccountsAssumption DEF Goto, Requests, Links, Passwords
<1>1. TypeOK'
    BY DEF IInv, TypeOK, Ended, Live, InOrder, Row, Steps
<1>2. InOrder'
    BY DEF IInv, TypeOK, InOrder, Ended, Steps, Live
<1>3. LinksStored'
    BY DEF IInv, TypeOK, LinksStored, Live, Row, Ended, InOrder, Steps
<1>4. LinksRead'
    BY DEF IInv, TypeOK, LinksRead, LinkRead, LinksStored, Live, Ended, InOrder, Steps
<1>5. LinksSpent'
    BY DEF IInv, TypeOK, LinksSpent, LinksRead, LinkRead, LinksStored, Live, Row, Ended, InOrder, Steps
<1>6. NoTemporaryEntry'
    BY DEF IInv, TypeOK, NoTemporaryEntry, Live, Row
<1>7. OneUse'
    BY DEF IInv, TypeOK, OneUse, LinksSpent, LinksRead, LinkRead, InOrder, LinksStored, Live, Ended, Steps
<1>8. Superseded'
    BY DEF IInv, TypeOK, Superseded, InOrder, LinksStored, Live, Row, Ended, Steps
<1>9. SupersededDead'
    BY DEF IInv, TypeOK, SupersededDead, Superseded, InOrder, LinksStored, LinksRead, LinkRead, Live, Ended, Steps
<1>10. LookedFirst'
    BY DEF IInv, TypeOK, LookedFirst, InOrder, Live, Ended, Steps, Taken, Present
<1>11. OrphanOverlaps'
    BY DEF IInv, TypeOK, OrphanOverlaps, LookedFirst, InOrder, Overlap, Ended, Live, Steps, Insertable, Present
<1> QED BY <1>1, <1>2, <1>3, <1>4, <1>5, <1>6, <1>7, <1>8, <1>9, <1>10, <1>11 DEF IInv

\* What administrators do, a login and the time that passes: no row comes to
\* life, none changes its password or its links, no school is as it never was.
LEMMA OthersKeep ==
    ASSUME IInv, UNCHANGED <<known, request>>,
           account' \in [Makes -> Row],
           \A i \in Makes :
               /\ account'[i].state = "none" <=> account[i].state = "none"
               /\ account'[i].state = "live" => account[i].state = "live"
               /\ account'[i].verified = account[i].verified
               /\ account'[i].password = account[i].password
               /\ account'[i].invite = account[i].invite
               /\ account'[i].reset = account[i].reset,
           school' \in [Schools -> {"absent", "active", "inactive", "deleted"}],
           \A s \in Schools :
               /\ school'[s] = "absent" => school[s] = "absent"
               /\ school[s] = "deleted" => school'[s] = "deleted",
           aged' \subseteq known,
           sessions' \subseteq Makes,
           \A i \in sessions' : i \in sessions \/ (Live(i) /\ account[i].verified)
    PROVE  IInv'
<1> USE AccountsAssumption DEF request, notes, Requests, Links, Passwords
<1>1. TypeOK'
    BY DEF IInv, TypeOK, Ended, Live, InOrder, Row, Steps
<1>2. InOrder'
    BY DEF IInv, TypeOK, InOrder, Ended, Steps, Live
<1>3. LinksStored'
    BY DEF IInv, TypeOK, LinksStored, Live, Row, Ended, InOrder, Steps
<1>4. LinksRead'
    BY DEF IInv, TypeOK, LinksRead, LinkRead, LinksStored, Live, Ended, InOrder, Steps
<1>5. LinksSpent'
    BY DEF IInv, TypeOK, LinksSpent, LinksRead, LinkRead, LinksStored, Live, Row, Ended, InOrder, Steps
<1>6. NoTemporaryEntry'
    BY DEF IInv, TypeOK, NoTemporaryEntry, Live, Row
<1>7. OneUse'
    BY DEF IInv, TypeOK, OneUse, LinksSpent, LinksRead, LinkRead, InOrder, LinksStored, Live, Ended, Steps
<1>8. Superseded'
    BY DEF IInv, TypeOK, Superseded, InOrder, LinksStored, Live, Row, Ended, Steps
<1>9. SupersededDead'
    BY DEF IInv, TypeOK, SupersededDead, Superseded, InOrder, LinksStored, LinksRead, LinkRead, Live, Ended, Steps
<1>10. LookedFirst'
    BY DEF IInv, TypeOK, LookedFirst, InOrder, Live, Ended, Steps, Taken, Present
<1>11. OrphanOverlaps'
    BY DEF IInv, TypeOK, OrphanOverlaps, LookedFirst, InOrder, Overlap, Ended, Live, Steps, Insertable, Present
<1> QED BY <1>1, <1>2, <1>3, <1>4, <1>5, <1>6, <1>7, <1>8, <1>9, <1>10, <1>11 DEF IInv

\* A request that writes and is over.  It leaves the row without its link; a
\* reset link it leaves there is the old one or, if it asked for one, its own.
LEMMA WritesKeep ==
    ASSUME IInv, NEW r \in Requests \ Makes, NEW row \in Row,
           pc[r] \in {"write", "reset", "accept", "change"},
           Goto(r, "over"),
           Updated(subject[r], row),
           UNCHANGED <<school, aged, subject, given, founded, blind, before>>,
           known \subseteq known', known' \subseteq known \cup ({r} \cap Forgots),
           sessions \subseteq sessions', sessions' \subseteq sessions \cup {subject[r]},
           sessions' = sessions \/ (r \in Uses /\ given[r] \in Makes /\ row.verified),
           row.state = account[subject[r]].state,
           row.invite => account[subject[r]].invite,
           account[subject[r]].verified => row.verified,
           row.verified => row.password # Temp,
           IF r \in Forgots THEN row.reset = r ELSE row.reset \in {account[subject[r]].reset, Nothing},
           r \in Uses => row.reset # given[r] /\ (given[r] \in Makes => ~row.invite)
    PROVE  IInv'
<1> DEFINE i == subject[r]
<1>a. i \in Makes
    BY AccountsAssumption DEF IInv, InOrder
<1>b. /\ account' \in [Makes -> Row]
      /\ \A j \in Makes : account'[j].state = account[j].state
      /\ \A j \in Makes : account'[j] = IF j = i /\ Live(i) THEN row ELSE account[j]
    BY <1>a, UpdatesOne DEF IInv
<1>c. r \in Uses /\ given[r] \in Makes => pc[i] = "over" /\ i # r
    BY AccountsAssumption DEF IInv, LinksRead, LinkRead, Links
<1> USE AccountsAssumption, <1>a, <1>b, <1>c DEF Goto, Requests, Links, Passwords
<1>1. TypeOK'
    BY DEF IInv, TypeOK, Ended, Live, InOrder, Row, Steps
<1>2. InOrder'
    BY DEF IInv, TypeOK, InOrder, Ended, Steps, Live
<1>3. LinksStored'
    BY DEF IInv, TypeOK, LinksStored, Live, Row, Ended, InOrder, Steps
<1>4. LinksRead'
    BY DEF IInv, TypeOK, LinksRead, LinkRead, LinksStored, Live, Ended, InOrder, Steps
<1>5. LinksSpent'
    BY DEF IInv, TypeOK, LinksSpent, LinksRead, LinkRead, LinksStored, Live, Row, Ended, InOrder, Steps
<1>6. NoTemporaryEntry'
    BY DEF IInv, TypeOK, NoTemporaryEntry, Live, Row
<1>7. OneUse'
    BY DEF IInv, TypeOK, OneUse, LinksSpent, LinksRead, LinkRead, InOrder, LinksStored, Live, Ended, Steps
<1>8. Superseded'
  <2> SUFFICES ASSUME NEW h \in Forgots, NEW g \in Forgots, h \in before[g], pc'[g] = "over",
                      subject[h] = subject[g], Live(subject[g])'
               PROVE  account'[subject[g]].reset # h
    BY DEF Superseded
  <2>1. h # r /\ h # g /\ subject[g] \in Makes
    BY DEF IInv, TypeOK, InOrder, Ended
  <2>2. CASE g = r
    BY <2>1, <2>2 DEF Live
  <2>3. CASE g # r
    BY <2>1, <2>3 DEF IInv, TypeOK, Superseded, Live
  <2> QED BY <2>2, <2>3
<1>9. SupersededDead'
    BY DEF IInv, TypeOK, SupersededDead, Superseded, InOrder, LinksStored, LinksRead, LinkRead, Live, Ended, Steps
<1>10. LookedFirst'
    BY DEF IInv, TypeOK, LookedFirst, InOrder, Live, Ended, Steps, Taken, Present
<1>11. OrphanOverlaps'
    BY DEF IInv, TypeOK, OrphanOverlaps, LookedFirst, InOrder, Overlap, Ended, Live, Steps, Insertable, Present
<1> QED BY <1>1, <1>2, <1>3, <1>4, <1>5, <1>6, <1>7, <1>8, <1>9, <1>10, <1>11 DEF IInv

\* A school is inserted just before its admin.
LEMMA InsertTenantKeeps ==
    ASSUME IInv, NEW r \in Makes, InsertTenant(r)
    PROVE  IInv'
<1>a. CASE school[School[r]] # "absent"
  <2>1. r \in Requests /\ r \notin founded /\ r \notin Ended /\ Goto(r, "refused")
    BY <1>a DEF InsertTenant, IInv, InOrder, Requests, Ended
  <2> QED
    BY <1>a, <2>1, MovesKeep DEF InsertTenant, IInv, TypeOK
<1>b. CASE school[School[r]] = "absent"
  <2> USE AccountsAssumption, <1>b DEF InsertTenant, Goto, Requests, Links, Passwords
  <2>1. TypeOK'
    <3>1. Kind[r] = "school"
      BY DEF IInv, InOrder
    <3>2. \A q \in Makes : pc'[q] = "over" <=> pc[q] = "over"
      BY DEF IInv, TypeOK
    <3> QED
      BY <3>1, <3>2 DEF IInv, TypeOK
  <2>2. InOrder'
    BY DEF IInv, TypeOK, InOrder, Ended, Steps, Live
  <2>3. LinksStored'
    BY DEF IInv, TypeOK, LinksStored, Live, Row, Ended, InOrder, Steps
  <2>4. LinksRead'
    BY DEF IInv, TypeOK, LinksRead, LinkRead, LinksStored, Live, Ended, InOrder, Steps
  <2>5. LinksSpent'
    BY DEF IInv, TypeOK, LinksSpent, LinksRead, LinkRead, LinksStored, Live, Row, Ended, InOrder, Steps
  <2>6. NoTemporaryEntry'
    BY DEF IInv, TypeOK, NoTemporaryEntry, Live, Row
  <2>7. OneUse'
    BY DEF IInv, TypeOK, OneUse, LinksSpent, LinksRead, LinkRead, InOrder, LinksStored, Live, Ended, Steps
  <2>8. Superseded'
    BY DEF IInv, TypeOK, Superseded, InOrder, LinksStored, Live, Row, Ended, Steps
  <2>9. SupersededDead'
    BY DEF IInv, TypeOK, SupersededDead, Superseded, InOrder, LinksStored, LinksRead, LinkRead, Live, Ended, Steps
  <2>10. LookedFirst'
    BY DEF IInv, TypeOK, LookedFirst, InOrder, Live, Ended, Steps, Taken, Present
  <2>11. OrphanOverlaps'
    BY DEF IInv, TypeOK, OrphanOverlaps, LookedFirst, InOrder, Overlap, Ended, Live, Steps, Insertable, Present
  <2> QED BY <2>1, <2>2, <2>3, <2>4, <2>5, <2>6, <2>7, <2>8, <2>9, <2>10, <2>11 DEF IInv
<1> QED BY <1>a, <1>b

\* The row of r comes to life: it has no reset link, its invitation is unused,
\* and no request that has looked for its address began after r ended.
LEMMA InsertKeeps ==
    ASSUME IInv, NEW r \in Makes, Insert(r)
    PROVE  IInv'
<1>a. CASE ~Insertable(r)
  <2>1. r \in Requests /\ r \notin Ended /\ Goto(r, "refused")
    BY <1>a DEF Insert, Requests, Ended
  <2> QED
    BY <1>a, <2>1, MovesKeep DEF Insert, notes, IInv, TypeOK
<1>b. CASE Insertable(r)
  <2>a. account' \in [Makes -> Row] /\ account' = [account EXCEPT ![r] = NewRow(r)]
    BY <1>b, NewRowsAreRows DEF Insert, IInv, TypeOK
  <2>b. /\ NewRow(r).state = "live" /\ ~NewRow(r).verified /\ NewRow(r).reset = Nothing
        /\ account[r].state = "none"
    BY DEF Insert, NewRow, Blank, IInv, TypeOK
  <2>c. /\ pc[r] = "insert" /\ Goto(r, "over") /\ known' \in Told(r)
        /\ UNCHANGED <<school, aged, sessions, subject, given, founded, blind, before>>
    BY <1>b DEF Insert, notes
  <2>d. known' \subseteq known \cup {r} /\ known \subseteq known'
    BY <2>c DEF Told
  <2>e. \A u \in Uses : given[u] # r
    BY <2>c, AccountsAssumption DEF IInv, LinksRead, LinkRead, Requests
  <2> USE AccountsAssumption, <2>a, <2>b, <2>c, <2>d, <2>e DEF Goto, Requests, Links, Passwords
  <2>1. TypeOK'
    BY DEF IInv, TypeOK, Ended, Live, InOrder, Row, Steps
  <2>2. InOrder'
    BY DEF IInv, TypeOK, InOrder, Ended, Steps, Live
  <2>3. LinksStored'
    BY DEF IInv, TypeOK, LinksStored, Live, Row, Ended, InOrder, Steps
  <2>4. LinksRead'
    BY DEF IInv, TypeOK, LinksRead, LinkRead, LinksStored, Live, Ended, InOrder, Steps
  <2>5. LinksSpent'
    BY DEF IInv, TypeOK, LinksSpent, LinksRead, LinkRead, LinksStored, Live, Row, Ended, InOrder, Steps
  <2>6. NoTemporaryEntry'
    <3>1. r \notin sessions
      BY DEF IInv, InOrder
    <3>2. \A j \in Makes : j # r => account'[j] = account[j]
      BY DEF IInv, TypeOK
    <3>3. account'[r] = NewRow(r)
      BY DEF IInv, TypeOK
    <3> QED
      BY <3>1, <3>2, <3>3 DEF IInv, TypeOK, NoTemporaryEntry, Live
  <2>7. OneUse'
    BY DEF IInv, TypeOK, OneUse, LinksSpent, LinksRead, LinkRead, InOrder, LinksStored, Live, Ended, Steps
  <2>8. Superseded'
    BY DEF IInv, TypeOK, Superseded, InOrder, LinksStored, Live, Row, Ended, Steps
  <2>9. SupersededDead'
    BY DEF IInv, TypeOK, SupersededDead, Superseded, InOrder, LinksStored, LinksRead, LinkRead, Live, Ended, Steps
  <2>10. LookedFirst'
    BY DEF IInv, TypeOK, LookedFirst, InOrder, Live, Ended, Steps, Taken, Present
  <2>11. OrphanOverlaps'
    BY DEF IInv, TypeOK, OrphanOverlaps, LookedFirst, InOrder, Overlap, Ended, Live, Steps, Insertable, Present
  <2> QED BY <2>1, <2>2, <2>3, <2>4, <2>5, <2>6, <2>7, <2>8, <2>9, <2>10, <2>11 DEF IInv
<1> QED BY <1>a, <1>b

\* Before the first request.
LEMMA InitIInv == Init => IInv
<1> SUFFICES ASSUME Init PROVE IInv
    OBVIOUS
<1> USE AccountsAssumption DEF Init, Blank
<1>1. TypeOK
    BY NewRowsAreRows DEF TypeOK, Requests
<1>2. InOrder /\ LinksStored /\ LinksRead /\ LinksSpent /\ LookedFirst /\ OrphanOverlaps
    BY DEF InOrder, Steps, LinksStored, LinksRead, LinksSpent, LookedFirst, OrphanOverlaps,
           Requests, Live
<1>3. NoTemporaryEntry /\ OneUse /\ Superseded /\ SupersededDead
    BY DEF NoTemporaryEntry, OneUse, Superseded, SupersededDead, Requests
<1> QED BY <1>1, <1>2, <1>3 DEF IInv

\* tenant.Create, the invitations, the import and RegisterStudent.
LEMMA MakingKeeps ==
    ASSUME IInv, NEW r \in Makes, Make(r) \/ Look(r) \/ InsertTenant(r) \/ Insert(r)
    PROVE  IInv'
<1> USE AccountsAssumption
<1>1. CASE Make(r)
  <2>1. r \in Requests /\ "look" \in Steps(r) \ {"new", "tenant", "insert"} /\ r \notin Uses
    BY DEF Requests, Steps
  <2>2. /\ subject[r] \in Makes \cup {Nothing} /\ subject' = [subject EXCEPT ![r] = subject[r]]
        /\ given[r] \in Links \cup Passwords \cup {Nothing} /\ given' = [given EXCEPT ![r] = given[r]]
        /\ UNCHANGED <<school, account, known, aged, sessions, founded, blind>>
    BY <1>1, <2>1 DEF Make, IInv, TypeOK, notes
  <2> QED
    BY <1>1, <2>1, <2>2, StartsKeep DEF Make
<1>2. CASE Look(r)
  <2>1. /\ pc[r] = "look" /\ r \in Requests \ Uses /\ r \notin founded /\ r \notin Ended
        /\ UNCHANGED <<school, account, known, aged, sessions, subject, given, founded, before>>
        /\ blind \subseteq Makes
    BY <1>2 DEF Look, IInv, TypeOK, InOrder, Requests, Ended
  <2>2. /\ Onward(r) \in Steps(r) \ {"new", "look"}
        /\ Onward(r) = "tenant" => Kind[r] = "school"
        /\ Onward(r) # "refused"
    BY DEF Onward, Steps
  <2>3. CASE Taken(r) /\ Goto(r, "refused") /\ UNCHANGED blind
    BY <2>1, <2>3, MovesKeep
  <2>4. CASE ~Taken(r) /\ Goto(r, Onward(r)) /\ UNCHANGED blind
    <3>1. ~Present(Email[r])
      BY <2>4 DEF Taken
    <3> QED
      BY <2>1, <2>2, <2>4, <3>1, MovesKeep
  <2>5. CASE Goto(r, Onward(r)) /\ blind' = blind \cup {r}
    <3>1. r \in blind' /\ blind \subseteq blind' /\ blind' \subseteq Makes
      BY <2>1, <2>5
    <3> QED
      BY <2>1, <2>2, <2>5, <3>1, MovesKeep
  <2> QED
    BY <1>2, <2>3, <2>4, <2>5 DEF Look
<1> QED
  BY <1>1, <1>2, InsertTenantKeeps, InsertKeeps

\* ForgotPassword, ResetPassword and AcceptInvite, from their look to their write.
LEMMA UsingKeeps ==
    ASSUME IInv, UsingLinks
    PROVE  IInv'
<1> USE AccountsAssumption
<1>1. ASSUME NEW f \in Forgots, NEW i \in Makes, ForgotPassword(f, i) PROVE IInv'
  <2>1. f \in Requests /\ "write" \in Steps(f) \ {"new", "tenant", "insert"} /\ f \notin Uses
    BY DEF Requests, Steps
  <2>2. /\ given[f] \in Links \cup Passwords \cup {Nothing} /\ given' = [given EXCEPT ![f] = given[f]]
        /\ UNCHANGED <<school, account, known, aged, sessions, founded, blind>>
    BY <1>1, <2>1 DEF ForgotPassword, IInv, TypeOK, notes
  <2> QED
    BY <1>1, <2>1, <2>2, StartsKeep DEF ForgotPassword
<1>2. ASSUME NEW u \in Uses, NEW l \in Links, NEW i \in Makes, ResetPassword(u, l, i) PROVE IInv'
  <2>1. u \in Requests /\ "reset" \in Steps(u) \ {"new", "tenant", "insert"}
    BY DEF Requests, Steps
  <2> QED
    BY <1>2, <2>1, StartsKeep DEF ResetPassword, notes
<1>3. ASSUME NEW u \in Uses, NEW l \in Links, AcceptInvite(u, l) PROVE IInv'
  <2>1. u \in Requests /\ "accept" \in Steps(u) \ {"new", "tenant", "insert"}
    BY DEF Requests, Steps
  <2> QED
    BY <1>3, <2>1, StartsKeep DEF AcceptInvite, notes
<1>4. ASSUME NEW f \in Forgots, ForgotWrite(f) PROVE IInv'
  <2>1. f \in Requests \ Makes /\ f \notin Uses /\ subject[f] \in Makes
    BY <1>4 DEF ForgotWrite, IInv, InOrder, Requests
  <2>2. Forgotten(f, account[subject[f]]) \in Row
    BY <2>1, RowsAreRows DEF IInv, TypeOK
  <2> QED
    BY <1>4, <2>1, <2>2, WritesKeep DEF ForgotWrite, Forgotten, notes, IInv, TypeOK, NoTemporaryEntry, Row
<1>5. ASSUME NEW u \in Uses, ResetWrite(u) PROVE IInv'
  <2>1. u \in Requests \ Makes /\ u \notin Forgots /\ subject[u] \in Makes
    BY <1>5 DEF ResetWrite, IInv, InOrder, Requests
  <2>2. given[u] \in Forgots /\ u # Temp
    BY <1>5 DEF ResetWrite, IInv, LinksRead, LinkRead, Links, Requests
  <2>3. Reset(u, account[subject[u]]) \in Row
    BY <2>1, RowsAreRows DEF IInv, TypeOK
  <2>4. LET row == account[subject[u]]
            new == Reset(u, row)
        IN  /\ new.state = row.state /\ new.password = u
            /\ new.verified = row.verified /\ new.invite = row.invite /\ new.reset = Nothing
            /\ row.reset \in Forgots \cup {Nothing}
    BY <2>1 DEF Reset, IInv, TypeOK, Row
  <2>5. given[u] # Nothing /\ given[u] \in Requests
    BY <2>2 DEF Requests
  <2> QED
    BY <1>5, <2>1, <2>2, <2>3, <2>4, <2>5, WritesKeep DEF ResetWrite, notes, IInv, TypeOK
<1>6. ASSUME NEW u \in Uses, AcceptWrite(u) PROVE IInv'
  <2>1. u \in Requests \ Makes /\ u \notin Forgots /\ subject[u] \in Makes
    BY <1>6 DEF AcceptWrite, IInv, InOrder, Requests
  <2>2. given[u] \in Makes /\ u # Temp
    BY <1>6 DEF AcceptWrite, IInv, LinksRead, LinkRead, Links, Requests
  <2>3. Accepted(u, account[subject[u]]) \in Row
    BY <2>1, RowsAreRows DEF IInv, TypeOK
  <2>4. LET row == account[subject[u]]
            new == Accepted(u, row)
        IN  /\ new.state = row.state /\ new.password = u
            /\ new.verified = TRUE /\ new.invite = FALSE /\ new.reset = row.reset
            /\ row.reset \in Forgots \cup {Nothing}
    BY <2>1 DEF Accepted, IInv, TypeOK, Row
  <2>5. given[u] # Nothing /\ given[u] \in Requests
    BY <2>2 DEF Requests
  <2> QED
    BY <1>6, <2>1, <2>2, <2>3, <2>4, <2>5, WritesKeep DEF AcceptWrite, notes, IInv, TypeOK
<1> QED
  BY <1>1, <1>2, <1>3, <1>4, <1>5, <1>6 DEF UsingLinks

\* ChangePassword.
LEMMA ChangingKeeps ==
    ASSUME IInv, Changing
    PROVE  IInv'
<1> USE AccountsAssumption
<1>1. ASSUME NEW c \in Changes, NEW i \in Makes, NEW w \in Passwords, ChangePassword(c, i, w) PROVE IInv'
  <2>1. c \in Requests /\ "verify" \in Steps(c) \ {"new", "tenant", "insert"} /\ c \notin Uses
    BY DEF Requests, Steps
  <2> QED
    BY <1>1, <2>1, StartsKeep DEF ChangePassword, notes
<1>2. ASSUME NEW c \in Changes, ChangeVerify(c) PROVE IInv'
  <2>1. /\ pc[c] = "verify" /\ c \in Requests \ Uses /\ c \notin founded /\ c \notin Ended
        /\ UNCHANGED <<school, account, known, aged, sessions, subject, given, founded, before>>
        /\ blind' = blind /\ blind \subseteq Makes
    BY <1>2 DEF ChangeVerify, notes, IInv, TypeOK, Requests, Ended
  <2>2. "change" \in Steps(c) \ {"new", "look"}
    BY DEF Steps
  <2>3. CASE Goto(c, "change")
    BY <2>1, <2>2, <2>3, MovesKeep
  <2>4. CASE Goto(c, "refused")
    BY <2>1, <2>4, MovesKeep
  <2> QED
    BY <1>2, <2>3, <2>4 DEF ChangeVerify
<1>3. ASSUME NEW c \in Changes, ChangeWrite(c) PROVE IInv'
  <2>1. c \in Requests \ Makes /\ c \notin Forgots /\ c \notin Uses /\ subject[c] \in Makes /\ c # Temp
    BY <1>3 DEF ChangeWrite, IInv, InOrder, Requests
  <2>2. [account[subject[c]] EXCEPT !.password = c] \in Row
    BY <2>1, RowsAreRows DEF IInv, TypeOK
  <2> QED
    BY <1>3, <2>1, <2>2, WritesKeep DEF ChangeWrite, notes, IInv, TypeOK, Row
<1> QED
  BY <1>1, <1>2, <1>3 DEF Changing

\* A row only dies or changes its is_active; a school only dies or changes its own.
LEMMA AdministeringKeeps ==
    ASSUME IInv, Administering
    PROVE  IInv'
<1> USE DEF IInv, TypeOK
<1>1. ASSUME NEW i \in Makes, SetActive(i) PROVE IInv'
  <2>1. account' \in [Makes -> Row]
    BY <1>1, RowsAreRows DEF SetActive
  <2>2. \A j \in Makes : account'[j] = IF j = i THEN [account[j] EXCEPT !.active = ~@] ELSE account[j]
    BY <1>1 DEF SetActive
  <2> QED
    BY <1>1, <2>1, <2>2, OthersKeep DEF SetActive, Row
<1>2. ASSUME NEW i \in Makes, DeleteUser(i) PROVE IInv'
  <2>1. account' \in [Makes -> Row]
    BY <1>2, RowsAreRows DEF DeleteUser
  <2>2. \A j \in Makes : account'[j] = IF j = i THEN [account[j] EXCEPT !.state = "gone"] ELSE account[j]
    BY <1>2 DEF DeleteUser
  <2> QED
    BY <1>2, <2>1, <2>2, OthersKeep DEF DeleteUser, Live, Row
<1>3. ASSUME NEW s \in Schools, SetSchool(s) PROVE IInv'
  BY <1>3, OthersKeep DEF SetSchool
<1>4. ASSUME NEW s \in Schools, DeleteSchool(s) PROVE IInv'
  BY <1>4, OthersKeep DEF DeleteSchool
<1> QED BY <1>1, <1>2, <1>3, <1>4 DEF Administering

\* And no step breaks it.
LEMMA StepIInv == IInv /\ [Next]_vars => IInv'
<1> SUFFICES ASSUME IInv, [Next]_vars PROVE IInv'
    OBVIOUS
<1>1. CASE Making
  BY <1>1, MakingKeeps DEF Making
<1>2. CASE UsingLinks \/ Changing \/ Administering
  BY <1>2, UsingKeeps, ChangingKeeps, AdministeringKeeps
<1>3. ASSUME NEW r \in Requests, Fails(r) PROVE IInv'
  BY <1>3, MovesKeep DEF Fails, notes, IInv, TypeOK
<1>4. ASSUME NEW i \in Makes, Login(i) PROVE IInv'
  BY <1>4, OthersKeep DEF Login, MayLogIn, IInv, TypeOK
<1>5. ASSUME NEW l \in Links, LinkAges(l) PROVE IInv'
  BY <1>5, OthersKeep DEF LinkAges, IInv, TypeOK
<1>6. CASE UNCHANGED vars
  BY <1>6, OthersKeep DEF vars, IInv, TypeOK
<1> QED
  BY <1>1, <1>2, <1>3, <1>4, <1>5, <1>6 DEF Next

\* IInv holds in every reachable state, for any number of accounts and requests.
THEOREM Invariance == Spec => []IInv
<1> QED BY InitIInv, StepIInv, PTL DEF Spec

\* Nobody gets into an account with its placeholder password.  (Login,
\* AcceptInvite, ResetPassword, ChangePassword.)
THEOREM OwnersOnly == Spec => []NoTemporaryEntry
<1>1. IInv => NoTemporaryEntry
  BY DEF IInv
<1> QED BY <1>1, Invariance, PTL

\* A link lets two requests through only if they overlap.  (ResetPassword,
\* AcceptInvite.)
THEOREM OneUseEach == Spec => []LinkUsedOnce
<1>1. IInv => LinkUsedOnce
  BY DEF IInv, OneUse, LinkUsedOnce, Overlap
<1> QED BY <1>1, Invariance, PTL

\* A later reset link ends an earlier one.  (ForgotPassword, ResetPassword.)
THEOREM LatestLink == Spec => []SupersededDead
<1>1. IInv => SupersededDead
  BY DEF IInv
<1> QED BY <1>1, Invariance, PTL

\* No school is without its first admin unless requests overlapped or a
\* statement failed.  (tenant.Create.)
THEOREM SchoolsHaveAdmins == Spec => []OrphanOverlaps
<1>1. IInv => OrphanOverlaps
  BY DEF IInv
<1> QED BY <1>1, Invariance, PTL
===============================================================================
