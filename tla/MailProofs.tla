------------------------------ MODULE MailProofs ------------------------------
(***************************************************************************)
(* IInv is inductive.  What matters is which run asynq listens to: one run *)
(* of a mail at most is Running and not cut, so of the attempts that       *)
(* succeeded without doubt there is one for each mail.                     *)
(***************************************************************************)
EXTENDS Mail, TLAPS

\* Before the first mail.
LEMMA InitIInv == Init => IInv
<1> SUFFICES ASSUME Init PROVE IInv
    OBVIOUS
<1> USE MailAssumption DEF Init, Runs, Attempts
<1>1. TypeOK
    BY DEF TypeOK, MailState
<1>2. RunsInOrder
    BY DEF RunsInOrder, RunInOrder, Running
<1>3. AttemptsInOrder /\ Tried /\ CompletedIsSent
    BY DEF AttemptsInOrder, Tried, CompletedIsSent, Running
<1> QED BY <1>1, <1>2, <1>3 DEF IInv

\* A run is the run of a mail.
LEMMA RunsArePairs ==
    /\ \A m \in Mails, k \in 0..MaxRetry : <<m, k>> \in Runs
    /\ \A r \in Runs : r[1] \in Mails /\ r[2] \in 0..MaxRetry /\ r = <<r[1], r[2]>>
<1> QED BY DEF Runs

\* A mail on its way to the queue has not been tried.
LEMMA ApiKeeps ==
    ASSUME IInv, (\E m \in Mails : Ask(m) \/ Enqueue(m)) \/ ApiCrash
    PROVE  IInv'
<1>1. /\ UNCHANGED <<retried, at, sent, failed, cut>>
      /\ mail' \in [Mails -> MailState]
      /\ outages' \in 0..MaxOutages
      /\ \A n \in Mails :
            \/ mail'[n] = mail[n]
            \/ /\ mail[n] \in {"none", "asked"}
               /\ mail'[n] \in {"asked", "queued", "dropped"}
  BY MailAssumption DEF IInv, TypeOK, Ask, Enqueue, ApiCrash, Becomes, MailState
<1>2. TypeOK'
  BY <1>1 DEF IInv, TypeOK
<1>3. RunsInOrder'
  <2> SUFFICES ASSUME NEW n \in Mails, NEW j \in 0..MaxRetry PROVE RunInOrder(n, j)'
      BY DEF RunsInOrder
  <2> QED BY <1>1 DEF IInv, RunsInOrder, RunInOrder, Running
<1>4. AttemptsInOrder'
  <2>1. \A x \in sent \ failed : x[1][1] \in Mails
    BY RunsArePairs DEF IInv, TypeOK, Attempts
  <2> QED BY <1>1, <2>1 DEF IInv, AttemptsInOrder, Running, Current
<1>5. Tried' /\ CompletedIsSent'
  BY <1>1 DEF IInv, Tried, CompletedIsSent, Current
<1> QED BY <1>2, <1>3, <1>4, <1>5 DEF IInv

LEMMA DeliverKeeps ==
    ASSUME IInv, NEW m \in Mails, Deliver(m)
    PROVE  IInv'
<1>1. /\ UNCHANGED <<retried, outages, sent, failed, cut>>
      /\ mail[m] = "queued" /\ mail'[m] = "active"
      /\ \A n \in Mails : n # m => mail'[n] = mail[n]
      /\ Current(m) \in Runs /\ retried[m] \in 0..MaxRetry
      /\ at[Current(m)] = 0 /\ at'[Current(m)] = 1
      /\ \A r \in Runs : r # Current(m) => at'[r] = at[r]
  BY RunsArePairs, MailAssumption
  DEF IInv, TypeOK, Deliver, Becomes, Current, RunsInOrder, RunInOrder
<1>2. TypeOK'
  <2>1. mail' \in [Mails -> MailState]
    BY DEF IInv, TypeOK, Deliver, Becomes, MailState
  <2>2. at' \in [Runs -> 0..Providers + 1]
    BY <1>1, MailAssumption DEF IInv, TypeOK, Deliver
  <2> QED BY <1>1, <2>1, <2>2 DEF IInv, TypeOK
<1>3. RunsInOrder'
  <2> SUFFICES ASSUME NEW n \in Mails, NEW j \in 0..MaxRetry PROVE RunInOrder(n, j)'
      BY DEF RunsInOrder
  <2>1. RunInOrder(n, j) /\ <<n, j>> \in Runs
    BY RunsArePairs DEF IInv, RunsInOrder
  <2>2. CASE <<n, j>> = Current(m)
    BY <1>1, <2>1, <2>2, MailAssumption DEF RunInOrder, Running, Current
  <2>3. CASE <<n, j>> # Current(m)
    BY <1>1, <2>1, <2>3 DEF RunInOrder, Running, Current
  <2> QED BY <2>2, <2>3
<1>4. AttemptsInOrder'
  <2>1. \A x \in sent \cup failed :
            x[1] \in Runs /\ x[1] # Current(m) /\ x[1][1] \in Mails
    BY <1>1, RunsArePairs DEF IInv, TypeOK, Attempts, AttemptsInOrder
  <2> QED BY <1>1, <2>1, MailAssumption DEF IInv, AttemptsInOrder, Running, Current
<1>5. Tried' /\ CompletedIsSent'
  BY <1>1 DEF IInv, Tried, CompletedIsSent, Current
<1> QED BY <1>2, <1>3, <1>4, <1>5 DEF IInv

\* The provider that took the mail is the last of its run.
LEMMA SucceedsKeeps ==
    ASSUME IInv, NEW m \in Mails, NEW k \in 0..MaxRetry, Succeeds(<<m, k>>)
    PROVE  IInv'
<1> DEFINE r == <<m, k>>
<1>1. /\ UNCHANGED <<retried, outages, failed, cut>>
      /\ r \in Runs /\ at[r] \in 1..Providers /\ at'[r] = Providers + 1
      /\ \A q \in Runs : q # r => at'[q] = at[q]
      /\ sent' = sent \cup {<<r, at[r]>>}
  BY RunsArePairs DEF IInv, TypeOK, Succeeds, AfterSuccess, Running
<1>2. \/ r \in cut /\ UNCHANGED mail
      \/ /\ r \notin cut /\ k = retried[m] /\ mail[m] = "active"
         /\ mail' = [mail EXCEPT ![m] = "completed"]
  BY <1>1, MailAssumption
  DEF IInv, RunsInOrder, RunInOrder, Succeeds, AfterSuccess, Running, Becomes
<1>3. \A n \in Mails :
        \/ mail'[n] = mail[n]
        \/ n = m /\ r \notin cut /\ k = retried[m] /\ mail[m] = "active" /\ mail'[m] = "completed"
  BY <1>2 DEF IInv, TypeOK
<1>4. TypeOK'
  BY <1>1, <1>2, MailAssumption
  DEF IInv, TypeOK, MailState, Attempts, Succeeds, AfterSuccess
<1>5. RunsInOrder'
  <2> SUFFICES ASSUME NEW n \in Mails, NEW j \in 0..MaxRetry PROVE RunInOrder(n, j)'
      BY DEF RunsInOrder
  <2>1. RunInOrder(n, j) /\ RunInOrder(m, k) /\ <<n, j>> \in Runs
    BY RunsArePairs DEF IInv, RunsInOrder
  <2>2. CASE <<n, j>> = r
    <3>1. n = m /\ j = k /\ at'[r] = Providers + 1 /\ at[r] # 0 /\ retried' = retried /\ cut' = cut
      BY <1>1, <2>2
    <3>2. CASE r \in cut /\ UNCHANGED mail
      BY <2>1, <3>1, <3>2, MailAssumption DEF RunInOrder, Running
    <3>3. CASE r \notin cut /\ k = retried[m] /\ mail'[m] = "completed"
      BY <3>1, <3>3, MailAssumption DEF RunInOrder, Running
    <3> QED BY <1>2, <1>3, <3>2, <3>3 DEF IInv, TypeOK
  <2>3. CASE <<n, j>> # r
    BY <1>1, <1>3, <2>1, <2>3 DEF RunInOrder, Running
  <2> QED BY <2>2, <2>3
<1>6. AttemptsInOrder'
  <2>1. \A x \in sent \cup failed :
            x \in Attempts /\ x[1] \in Runs /\ x[1][1] \in Mails /\ x[2] \in 1..Providers
    BY RunsArePairs DEF IInv, TypeOK, Attempts
  <2>2. \A x \in sent \ failed : x[1] # r
    BY <1>1, MailAssumption DEF IInv, AttemptsInOrder
  <2>3. <<r, at[r]>> \notin failed
    BY <1>1, MailAssumption DEF IInv, AttemptsInOrder
  <2>4. \A x \in sent' \ failed' : x \in sent \ failed \/ x = <<r, at[r]>>
    BY <1>1
  <2>5. (\A x \in sent \cup failed : x[2] < at[x[1]])'
    BY <1>1, <2>1, MailAssumption DEF IInv, AttemptsInOrder
  <2>6. (\A q \in Runs, p \in 1..Providers : Running(q) /\ p < at[q] => <<q, p>> \in failed)'
    BY <1>1, MailAssumption DEF IInv, AttemptsInOrder, Running
  <2>7. (\A x \in sent \ failed : at[x[1]] = Providers + 1)'
    BY <1>1, <2>1, <2>2, <2>4 DEF IInv, AttemptsInOrder
  <2>8. (\A x, y \in sent \ failed : x[1] = y[1] => x = y)'
    BY <2>2, <2>4 DEF IInv, AttemptsInOrder
  <2>9. (\A x \in sent \ failed :
            x[1] \notin cut => mail[x[1][1]] = "completed" /\ x[1] = Current(x[1][1]))'
    BY <1>1, <1>2, <1>3, <2>1, <2>2, <2>4 DEF IInv, TypeOK, AttemptsInOrder, Current
  <2> QED BY <2>5, <2>6, <2>7, <2>8, <2>9 DEF AttemptsInOrder
<1>7. Tried'
  BY <1>1, <1>3 DEF IInv, Tried
<1>8. CompletedIsSent'
  <2>1. <<r, at[r]>> \notin failed
    BY <1>1, MailAssumption DEF IInv, AttemptsInOrder
  <2> QED BY <1>1, <1>3, <2>1 DEF IInv, CompletedIsSent, Current
<1> QED BY <1>4, <1>5, <1>6, <1>7, <1>8 DEF IInv

\* What asynq makes of an active mail whose run did not succeed.
LEMMA Answers ==
    ASSUME IInv, NEW m \in Mails, RetryOrArchive(m)
    PROVE  /\ mail' \in [Mails -> MailState] /\ retried' \in [Mails -> 0..MaxRetry]
           /\ \A n \in Mails : n # m => mail'[n] = mail[n] /\ retried'[n] = retried[n]
           /\ \/ mail'[m] = "queued" /\ retried'[m] = retried[m] + 1
              \/ mail'[m] = "archived" /\ retried[m] = MaxRetry /\ retried'[m] = MaxRetry
<1> QED BY MailAssumption DEF IInv, TypeOK, MailState, RetryOrArchive, Becomes

\* With the error of the last provider the run has had all of them.
LEMMA ErrsKeeps ==
    ASSUME IInv, NEW m \in Mails, NEW k \in 0..MaxRetry, Errs(<<m, k>>)
    PROVE  IInv'
<1> DEFINE r == <<m, k>>
           a == <<r, at[r]>>
<1>1. /\ UNCHANGED <<outages, cut>>
      /\ r \in Runs /\ at[r] \in 1..Providers /\ at'[r] = at[r] + 1
      /\ \A q \in Runs : q # r => at'[q] = at[q]
      /\ failed' = failed \cup {a}
      /\ sent' \in {sent, sent \cup {a}}
  BY RunsArePairs DEF IInv, TypeOK, Errs, AfterError, Running
<1>2. \/ (at[r] < Providers \/ r \in cut) /\ UNCHANGED <<mail, retried>>
      \/ /\ at[r] = Providers /\ r \notin cut /\ k = retried[m] /\ mail[m] = "active"
         /\ RetryOrArchive(m)
  BY <1>1, MailAssumption
  DEF IInv, RunsInOrder, RunInOrder, Errs, AfterError, Running
<1>3. /\ mail' \in [Mails -> MailState] /\ retried' \in [Mails -> 0..MaxRetry]
      /\ \A n \in Mails :
            \/ mail'[n] = mail[n] /\ retried'[n] = retried[n]
            \/ /\ n = m /\ at[r] = Providers /\ r \notin cut
               /\ k = retried[m] /\ mail[m] = "active"
               /\ \/ mail'[m] = "queued" /\ retried'[m] = retried[m] + 1
                  \/ mail'[m] = "archived" /\ retried[m] = MaxRetry /\ retried'[m] = MaxRetry
  BY <1>2, Answers DEF IInv, TypeOK
<1>4. \/ UNCHANGED <<mail, retried>>
      \/ at[r] = Providers /\ r \notin cut /\ k = retried[m] /\ mail[m] = "active" /\ mail'[m] # "active"
  BY <1>2, <1>3, Answers
<1>5. (at[r] < Providers \/ r \in cut) => UNCHANGED <<mail, retried>>
  BY <1>1, <1>2, MailAssumption
<1>6. at[r] = Providers /\ r \notin cut =>
         /\ k = retried[m] /\ mail[m] = "active"
         /\ \/ mail'[m] = "queued" /\ retried'[m] = retried[m] + 1
            \/ mail'[m] = "archived" /\ retried[m] = MaxRetry /\ retried'[m] = MaxRetry
  BY <1>2, Answers, MailAssumption
<1>7. \A p \in 1..Providers : p < at[r] => <<r, p>> \in failed
  BY <1>1 DEF IInv, AttemptsInOrder, Running
<1>8. TypeOK'
  BY <1>1, <1>3, MailAssumption DEF IInv, TypeOK, Attempts, Errs, AfterError
<1>9. RunsInOrder'
  <2> SUFFICES ASSUME NEW n \in Mails, NEW j \in 0..MaxRetry PROVE RunInOrder(n, j)'
      BY DEF RunsInOrder
  <2>1. RunInOrder(n, j) /\ <<n, j>> \in Runs /\ retried[n] \in 0..MaxRetry
    BY RunsArePairs DEF IInv, TypeOK, RunsInOrder
  <2>2. CASE <<n, j>> = r
    BY <1>1, <1>5, <1>6, <2>1, <2>2, MailAssumption DEF RunInOrder, Running
  <2>3. CASE <<n, j>> # r /\ n = m
    <3>1. at[r] = Providers /\ r \notin cut => RunInOrder(n, retried[m] + 1) \/ retried[m] = MaxRetry
      BY <2>1, <2>3, MailAssumption DEF IInv, RunsInOrder
    <3> QED
      BY <1>1, <1>3, <2>1, <2>3, <3>1, MailAssumption DEF RunInOrder, Running
  <2>4. CASE n # m
    BY <1>1, <1>3, <2>1, <2>4 DEF RunInOrder, Running
  <2> QED BY <2>2, <2>3, <2>4
<1>10. AttemptsInOrder'
  <2>1. \A x \in sent \cup failed :
            x[1] \in Runs /\ x[1][1] \in Mails /\ x[2] \in 1..Providers
    BY RunsArePairs DEF IInv, TypeOK, Attempts
  <2>2. \A x \in sent' \ failed' : x \in sent \ failed /\ x[1] # r
    BY <1>1, MailAssumption DEF IInv, AttemptsInOrder
  <2>3. (\A x \in sent \cup failed : x[2] < at[x[1]])'
    BY <1>1, <2>1, MailAssumption DEF IInv, AttemptsInOrder
  <2>4. (\A q \in Runs, p \in 1..Providers : Running(q) /\ p < at[q] => <<q, p>> \in failed)'
    BY <1>1, <1>7, MailAssumption DEF IInv, AttemptsInOrder, Running
  <2>5. (\A x \in sent \ failed : at[x[1]] = Providers + 1)'
    BY <1>1, <2>1, <2>2 DEF IInv, AttemptsInOrder
  <2>6. (\A x, y \in sent \ failed : x[1] = y[1] => x = y)'
    BY <2>2 DEF IInv, AttemptsInOrder
  <2>7. (\A x \in sent \ failed :
            x[1] \notin cut => mail[x[1][1]] = "completed" /\ x[1] = Current(x[1][1]))'
    BY <1>1, <1>3, <2>1, <2>2 DEF IInv, AttemptsInOrder, Current
  <2> QED BY <2>3, <2>4, <2>5, <2>6, <2>7 DEF AttemptsInOrder
<1>11. Tried'
  <2>1. at[r] = Providers => \A p \in 1..Providers : <<r, p>> \in failed'
    BY <1>1, <1>7, MailAssumption
  <2>2. failed \subseteq failed' /\ cut' = cut
    BY <1>1
  <2> SUFFICES ASSUME NEW n \in Mails
               PROVE  /\ mail'[n] = "archived" => retried'[n] = MaxRetry
                      /\ \A j \in 0..MaxRetry :
                            j < retried'[n] \/ (j = retried'[n] /\ mail'[n] = "archived") =>
                               <<n, j>> \in cut \/ \A p \in 1..Providers : <<<<n, j>>, p>> \in failed'
    BY <2>2 DEF Tried
  <2>3. retried[n] \in 0..MaxRetry
    BY DEF IInv, TypeOK
  <2>4. /\ mail[n] = "archived" => retried[n] = MaxRetry
        /\ \A j \in 0..MaxRetry :
              j < retried[n] \/ (j = retried[n] /\ mail[n] = "archived") =>
                 <<n, j>> \in cut \/ \A p \in 1..Providers : <<<<n, j>>, p>> \in failed'
    BY <2>2 DEF IInv, Tried
  <2> QED BY <1>3, <2>1, <2>3, <2>4, MailAssumption
<1>12. CompletedIsSent'
  <2>1. a \notin sent \/ a \in failed
    BY <1>1, MailAssumption DEF IInv, AttemptsInOrder
  <2> QED BY <1>1, <1>3, <2>1 DEF IInv, CompletedIsSent, Current
<1> QED BY <1>8, <1>9, <1>10, <1>11, <1>12 DEF IInv

\* A mail leaves the hands of the worker with its run cut: by the timeout for one
\* mail, by a crash for all.
LEMMA CutsKeep ==
    ASSUME IInv,
           UNCHANGED <<sent, failed>>, TypeOK', cut \subseteq cut',
           \A r \in Runs : r \in cut' \ cut => Running(r),
           \A r \in Runs : at'[r] = at[r] \/ (Running(r) /\ at'[r] = Providers + 1 /\ r \in cut'),
           \A m \in Mails :
              \/ /\ mail'[m] = mail[m] /\ retried'[m] = retried[m]
                 /\ \A k \in 0..MaxRetry : <<m, k>> \in cut' \ cut => mail[m] # "active" \/ k # retried[m]
                 /\ mail[m] = "active" => \A k \in 0..MaxRetry : at'[<<m, k>>] = at[<<m, k>>]
              \/ /\ mail[m] = "active" /\ Current(m) \in cut'
                 /\ \/ mail'[m] = "queued" /\ retried'[m] = retried[m] + 1
                    \/ mail'[m] = "archived" /\ retried[m] = MaxRetry /\ retried'[m] = MaxRetry
    PROVE  IInv'
<1>1. \A r \in Runs : r \in cut' \ cut =>
         retried[r[1]] = r[2] /\ mail[r[1]] = "active" /\ mail'[r[1]] # "active"
  <2> SUFFICES ASSUME NEW m \in Mails, NEW k \in 0..MaxRetry, <<m, k>> \in cut' \ cut
               PROVE  retried[m] = k /\ mail[m] = "active" /\ mail'[m] # "active"
    BY RunsArePairs
  <2>1. RunInOrder(m, k) /\ Running(<<m, k>>)
    BY RunsArePairs DEF IInv, RunsInOrder
  <2> QED BY <2>1 DEF RunInOrder
<1>2. RunsInOrder'
  <2> SUFFICES ASSUME NEW n \in Mails, NEW j \in 0..MaxRetry PROVE RunInOrder(n, j)'
      BY DEF RunsInOrder
  <2>1. RunInOrder(n, j) /\ <<n, j>> \in Runs /\ retried[n] \in 0..MaxRetry
    BY RunsArePairs DEF IInv, TypeOK, RunsInOrder
  <2>2. retried[n] + 1 \in 0..MaxRetry => RunInOrder(n, retried[n] + 1)
    BY DEF IInv, RunsInOrder
  <2>3. at[<<n, j>>] \in 0..Providers + 1 /\ retried'[n] \in 0..MaxRetry
    BY <2>1 DEF IInv, TypeOK
  <2>4. CASE mail'[n] = mail[n] /\ retried'[n] = retried[n]
    BY <1>1, <2>1, <2>3, <2>4, MailAssumption DEF RunInOrder, Running
  <2>5. CASE ~(mail'[n] = mail[n] /\ retried'[n] = retried[n])
    <3>1. /\ mail[n] = "active" /\ <<n, retried[n]>> \in cut'
          /\ \/ mail'[n] = "queued" /\ retried'[n] = retried[n] + 1
             \/ mail'[n] = "archived" /\ retried[n] = MaxRetry /\ retried'[n] = MaxRetry
      BY <2>5 DEF Current
    <3>2. CASE j = retried[n]
      BY <2>1, <2>3, <3>1, <3>2, MailAssumption DEF RunInOrder, Running
    <3>3. CASE j < retried[n]
      BY <1>1, <2>1, <2>3, <3>1, <3>3, MailAssumption DEF RunInOrder, Running
    <3>4. CASE j > retried[n]
      <4>1. at[<<n, j>>] = 0 /\ <<n, j>> \notin cut' /\ at'[<<n, j>>] = 0
        BY <1>1, <2>1, <3>4, MailAssumption DEF RunInOrder, Running
      <4> QED
        BY <2>1, <3>1, <3>4, <4>1, MailAssumption DEF RunInOrder, Running
    <3> QED BY <2>1, <3>2, <3>3, <3>4
  <2> QED BY <2>4, <2>5
<1>3. AttemptsInOrder'
  <2>1. \A x \in sent \cup failed :
            x[1] \in Runs /\ x[1][1] \in Mails /\ x[2] \in 1..Providers
    BY RunsArePairs DEF IInv, TypeOK, Attempts
  <2>2. \A x \in sent \ failed : at'[x[1]] = Providers + 1 /\ (x[1] \notin cut' => x[1] \notin cut)
    BY <2>1 DEF IInv, AttemptsInOrder
  <2>3. (\A x \in sent \cup failed : x[2] < at[x[1]])'
    BY <2>1, MailAssumption DEF IInv, AttemptsInOrder
  <2>4. (\A r \in Runs, p \in 1..Providers : Running(r) /\ p < at[r] => <<r, p>> \in failed)'
    BY MailAssumption DEF IInv, AttemptsInOrder, Running
  <2>5. (\A x \in sent \ failed : at[x[1]] = Providers + 1)'
    BY <2>2
  <2>6. (\A x, y \in sent \ failed : x[1] = y[1] => x = y)'
    BY DEF IInv, AttemptsInOrder
  <2>7. (\A x \in sent \ failed :
            x[1] \notin cut => mail[x[1][1]] = "completed" /\ x[1] = Current(x[1][1]))'
    <3> SUFFICES ASSUME NEW x \in sent' \ failed', x[1] \notin cut'
                 PROVE  mail'[x[1][1]] = "completed" /\ x[1] = Current(x[1][1])'
      OBVIOUS
    <3>1. x \in sent \ failed /\ x[1] \notin cut /\ x[1][1] \in Mails
      BY <2>1, <2>2
    <3>2. mail[x[1][1]] = "completed" /\ x[1] = <<x[1][1], retried[x[1][1]]>>
      BY <3>1 DEF IInv, AttemptsInOrder, Current
    <3>3. mail'[x[1][1]] = mail[x[1][1]] /\ retried'[x[1][1]] = retried[x[1][1]]
      BY <3>1, <3>2
    <3> QED
      BY <3>2, <3>3 DEF Current
  <2> QED BY <2>3, <2>4, <2>5, <2>6, <2>7 DEF AttemptsInOrder
<1>4. Tried'
  <2> SUFFICES ASSUME NEW n \in Mails
               PROVE  /\ mail'[n] = "archived" => retried'[n] = MaxRetry
                      /\ \A j \in 0..MaxRetry :
                            j < retried'[n] \/ (j = retried'[n] /\ mail'[n] = "archived") =>
                               <<n, j>> \in cut' \/ \A p \in 1..Providers : <<<<n, j>>, p>> \in failed
    BY DEF Tried
  <2>1. retried[n] \in 0..MaxRetry
    BY DEF IInv, TypeOK
  <2>2. /\ mail[n] = "archived" => retried[n] = MaxRetry
        /\ \A j \in 0..MaxRetry :
              j < retried[n] \/ (j = retried[n] /\ mail[n] = "archived") =>
                 <<n, j>> \in cut' \/ \A p \in 1..Providers : <<<<n, j>>, p>> \in failed
    BY DEF IInv, Tried
  <2>3. CASE mail'[n] = mail[n] /\ retried'[n] = retried[n]
    BY <2>2, <2>3
  <2>4. CASE ~(mail'[n] = mail[n] /\ retried'[n] = retried[n])
    <3>1. /\ <<n, retried[n]>> \in cut'
          /\ \/ mail'[n] = "queued" /\ retried'[n] = retried[n] + 1
             \/ mail'[n] = "archived" /\ retried[n] = MaxRetry /\ retried'[n] = MaxRetry
      BY <2>4 DEF Current
    <3> QED BY <2>1, <2>2, <3>1, MailAssumption
  <2> QED BY <2>3, <2>4
<1>5. CompletedIsSent'
  BY DEF IInv, CompletedIsSent, Current
<1> QED BY <1>2, <1>3, <1>4, <1>5 DEF IInv

LEMMA TimesOutKeeps ==
    ASSUME IInv, NEW m \in Mails, TimesOut(m)
    PROVE  IInv'
<1>1. /\ UNCHANGED <<at, outages, sent, failed>>
      /\ mail[m] = "active" /\ RetryOrArchive(m)
      /\ cut' = cut \cup {Current(m)}
      /\ Current(m) \in Runs /\ Running(Current(m))
  BY RunsArePairs
  DEF IInv, TypeOK, TimesOut, Overdue, RunsInOrder, RunInOrder, Current
<1>2. TypeOK'
  BY <1>1, Answers DEF IInv, TypeOK
<1>3. cut \subseteq cut' /\ (\A r \in Runs : r \in cut' \ cut => Running(r))
  BY <1>1
<1>4. \A r \in Runs : at'[r] = at[r] \/ (Running(r) /\ at'[r] = Providers + 1 /\ r \in cut')
  BY <1>1 DEF Running
<1>5. \A n \in Mails :
         \/ /\ mail'[n] = mail[n] /\ retried'[n] = retried[n]
            /\ \A k \in 0..MaxRetry : <<n, k>> \in cut' \ cut => mail[n] # "active" \/ k # retried[n]
            /\ mail[n] = "active" => \A k \in 0..MaxRetry : at'[<<n, k>>] = at[<<n, k>>]
         \/ /\ mail[n] = "active" /\ Current(n) \in cut'
            /\ \/ mail'[n] = "queued" /\ retried'[n] = retried[n] + 1
               \/ mail'[n] = "archived" /\ retried[n] = MaxRetry /\ retried'[n] = MaxRetry
  <2> SUFFICES ASSUME NEW n \in Mails, n # m
               PROVE  /\ mail'[n] = mail[n] /\ retried'[n] = retried[n]
                      /\ \A k \in 0..MaxRetry : <<n, k>> \notin cut' \ cut
                      /\ \A k \in 0..MaxRetry : at'[<<n, k>>] = at[<<n, k>>]
    BY <1>1, Answers
  <2>1. mail'[n] = mail[n] /\ retried'[n] = retried[n]
    BY <1>1, Answers
  <2> QED BY <1>1, <2>1 DEF Current
<1> QED BY <1>1, <1>2, <1>3, <1>4, <1>5, CutsKeep

LEMMA WorkerCrashKeeps ==
    ASSUME IInv, WorkerCrash
    PROVE  IInv'
<1>1. /\ UNCHANGED <<sent, failed>> /\ outages' \in 0..MaxOutages
      /\ cut' = cut \cup {r \in Runs : Running(r)}
      /\ \A r \in Runs : at'[r] = IF Running(r) THEN Providers + 1 ELSE at[r]
  BY MailAssumption DEF IInv, TypeOK, WorkerCrash
<1>2. \A m \in Mails : mail[m] = "active" => Current(m) \in Runs /\ Running(Current(m))
  BY RunsArePairs DEF IInv, TypeOK, RunsInOrder, RunInOrder, Current
<1>3. TypeOK'
  <2>1. mail' \in [Mails -> MailState]
    BY DEF IInv, TypeOK, MailState, WorkerCrash
  <2>2. retried' \in [Mails -> 0..MaxRetry]
    BY MailAssumption DEF IInv, TypeOK, WorkerCrash
  <2>3. at' \in [Runs -> 0..Providers + 1]
    BY MailAssumption DEF IInv, TypeOK, WorkerCrash
  <2> QED BY <1>1, <2>1, <2>2, <2>3 DEF IInv, TypeOK
<1>4. \A m \in Mails :
         \/ /\ mail'[m] = mail[m] /\ retried'[m] = retried[m]
            /\ mail[m] # "active"
         \/ /\ mail[m] = "active" /\ Current(m) \in cut'
            /\ \/ mail'[m] = "queued" /\ retried'[m] = retried[m] + 1
               \/ mail'[m] = "archived" /\ retried[m] = MaxRetry /\ retried'[m] = MaxRetry
  <2> SUFFICES ASSUME NEW m \in Mails
               PROVE  IF mail[m] # "active"
                      THEN mail'[m] = mail[m] /\ retried'[m] = retried[m]
                      ELSE \/ mail'[m] = "queued" /\ retried'[m] = retried[m] + 1
                           \/ mail'[m] = "archived" /\ retried[m] = MaxRetry /\ retried'[m] = MaxRetry
    BY <1>1, <1>2
  <2>1. retried[m] \in 0..MaxRetry
    BY DEF IInv, TypeOK
  <2> QED BY <2>1, MailAssumption DEF WorkerCrash
<1>5. cut \subseteq cut' /\ (\A r \in Runs : r \in cut' \ cut => Running(r))
  BY <1>1
<1>6. \A r \in Runs : at'[r] = at[r] \/ (Running(r) /\ at'[r] = Providers + 1 /\ r \in cut')
  BY <1>1 DEF Running
<1> QED BY <1>1, <1>3, <1>4, <1>5, <1>6, CutsKeep

\* No step breaks IInv.
LEMMA StepIInv == IInv /\ [Next]_vars => IInv'
<1> SUFFICES ASSUME IInv, [Next]_vars PROVE IInv'
    OBVIOUS
<1>1. CASE UNCHANGED vars
  BY <1>1 DEF vars, IInv, TypeOK, RunsInOrder, RunInOrder, AttemptsInOrder, Tried,
              CompletedIsSent, Running, Current
<1>2. CASE \E m \in Mails : Ask(m) \/ Enqueue(m) \/ Deliver(m) \/ TimesOut(m)
  BY <1>2, ApiKeeps, DeliverKeeps, TimesOutKeeps
<1>3. CASE \E r \in Runs : Succeeds(r) \/ Errs(r)
  BY <1>3, RunsArePairs, SucceedsKeeps, ErrsKeeps
<1>4. CASE ApiCrash \/ WorkerCrash
  BY <1>4, ApiKeeps, WorkerCrashKeeps
<1> QED BY <1>1, <1>2, <1>3, <1>4 DEF Next

\* IInv holds in every reachable state, for any number of mails and providers.
THEOREM Invariance == Spec => []IInv
<1> QED BY InitIInv, StepIInv, PTL DEF Spec

\* Without a doubt about the first copy no mail is sent twice.
\* (FallbackMailer.try, enqueue.)
THEOREM NoSecondCopy == Spec => []DuplicatesInDoubt
<1>1. IInv => DuplicatesInDoubt
  <2> SUFFICES ASSUME IInv, NEW x \in sent, NEW y \in sent, x[1][1] = y[1][1],
                      ~InDoubt(x), ~InDoubt(y)
               PROVE  x = y
    BY DEF DuplicatesInDoubt
  <2>1. x \in sent \ failed /\ y \in sent \ failed /\ x[1] = y[1]
    BY DEF InDoubt, IInv, AttemptsInOrder
  <2> QED
    BY <2>1 DEF IInv, AttemptsInOrder
<1> QED BY <1>1, Invariance, PTL

\* What asynq counts as done was sent.  (The handlers of the worker.)
THEOREM DoneIsSent == Spec => []CompletedIsSent
<1>1. IInv => CompletedIsSent
  BY DEF IInv
<1> QED BY <1>1, Invariance, PTL

\* No mail is given up before all was tried.  (FallbackMailer.try, MaxRetry.)
THEOREM NothingGivenUp == Spec => []GivenUpTried
<1>1. IInv => GivenUpTried
  BY MailAssumption DEF IInv, TypeOK, Tried, GivenUpTried
<1> QED BY <1>1, Invariance, PTL

-----------------------------------------------------------------------------
\* What a step may do to one mail.
Moves(m) ==
    \/ mail'[m] = mail[m] /\ retried'[m] = retried[m]
    \/ mail[m] = "none" /\ mail'[m] = "asked" /\ retried'[m] = retried[m]
    \/ mail[m] = "asked" /\ mail'[m] \in {"queued", "dropped"} /\ retried'[m] = retried[m]
    \/ mail[m] = "queued" /\ mail'[m] = "active" /\ retried'[m] = retried[m]
    \/ mail[m] = "active" /\ mail'[m] = "completed" /\ retried'[m] = retried[m]
    \/ /\ mail[m] = "active" /\ mail'[m] = "queued"
       /\ retried[m] < MaxRetry /\ retried'[m] = retried[m] + 1
    \/ /\ mail[m] = "active" /\ mail'[m] = "archived"
       /\ retried[m] >= MaxRetry /\ retried'[m] = retried[m]

\* Only the run asynq listens to moves its mail.
LEMMA EveryMailMoves ==
    ASSUME IInv, [Next]_vars
    PROVE  \A m \in Mails : Moves(m)
<1> USE DEF IInv, TypeOK, Moves, Becomes
<1>1. ASSUME NEW m \in Mails, RetryOrArchive(m), mail[m] = "active"
      PROVE  \A n \in Mails : Moves(n)
  BY <1>1 DEF RetryOrArchive
<1>2. ASSUME NEW m \in Mails, Ask(m) \/ Enqueue(m) \/ Deliver(m) \/ TimesOut(m)
      PROVE  \A n \in Mails : Moves(n)
  BY <1>1, <1>2 DEF Ask, Enqueue, Deliver, TimesOut, Overdue
<1>3. ASSUME NEW r \in Runs, Running(r), r \notin cut
      PROVE  r[1] \in Mails /\ mail[r[1]] = "active"
  <2>1. r[1] \in Mails /\ r[2] \in 0..MaxRetry /\ r = <<r[1], r[2]>>
    BY RunsArePairs
  <2>2. RunInOrder(r[1], r[2])
    BY <2>1 DEF RunsInOrder
  <2> QED
    BY <2>1, <2>2, <1>3 DEF RunInOrder
<1>4. ASSUME NEW r \in Runs, Succeeds(r) PROVE \A n \in Mails : Moves(n)
  BY <1>3, <1>4 DEF Succeeds
<1>5. ASSUME NEW r \in Runs, Errs(r) PROVE \A n \in Mails : Moves(n)
  <2>1. CASE at'[r] > Providers /\ r \notin cut
    BY <1>1, <1>3, <1>5, <2>1 DEF Errs
  <2>2. CASE ~(at'[r] > Providers /\ r \notin cut)
    BY <1>5, <2>2 DEF Errs
  <2> QED
    BY <2>1, <2>2
<1>6. CASE ApiCrash
  BY <1>6 DEF ApiCrash
<1>7. CASE WorkerCrash
  BY <1>7, MailAssumption DEF WorkerCrash
<1>8. CASE UNCHANGED vars
  BY <1>8 DEF vars
<1> QED
  BY <1>2, <1>4, <1>5, <1>6, <1>7, <1>8 DEF Next

\* Each of those is a step of Delivery, or does not show.
LEMMA MoveIsStep ==
    ASSUME TypeOK, NEW m \in Mails, Moves(m)
    PROVE  \/ Task(m)' = Task(m) /\ Tries(m)' = Tries(m)
           \/ Task(m) = "none" /\ Task(m)' \in {"waiting", "refused"} /\ Tries(m)' = Tries(m)
           \/ Task(m) = "waiting" /\ Task(m)' = "running" /\ Tries(m)' = Tries(m) + 1
           \/ Task(m) = "running" /\ Task(m)' = "done" /\ Tries(m)' = Tries(m)
           \/ /\ Task(m) = "running" /\ Task(m)' = "waiting"
              /\ Tries(m) <= MaxRetry /\ Tries(m)' = Tries(m)
           \/ /\ Task(m) = "running" /\ Task(m)' = "archived"
              /\ Tries(m) > MaxRetry /\ Tries(m)' = Tries(m)
BY MailAssumption DEF TypeOK, MailState, Moves, Task, Tries

LEMMA DeliveryInit == Init => Queue!Init
BY DEF Init, Queue!Init, Task, Tries

LEMMA DeliveryStep ==
    ASSUME IInv, IInv', [Next]_vars
    PROVE  Queue!Next
<1> DEFINE st == [m \in Mails |-> Task(m)]
           tr == [m \in Mails |-> Tries(m)]
           ow == [m \in Mails |-> "none"]
<1>1. st' \in [Mails -> Queue!State] /\ tr' \in [Mails -> Nat] /\ ow' \in [Mails -> Queue!Own]
  <2>1. \A m \in Mails : Task(m)' \in Queue!State /\ Tries(m)' \in Nat
    BY MailAssumption DEF IInv, TypeOK, MailState, Task, Tries, Queue!State
  <2> QED
    BY <2>1 DEF Queue!Own
<1>2. ASSUME NEW m \in Mails PROVE Queue!Step(m)
  <2>1. /\ st[m] = Task(m) /\ tr[m] = Tries(m) /\ ow[m] = "none"
        /\ st'[m] = Task(m)' /\ tr'[m] = Tries(m)' /\ ow'[m] = "none"
    OBVIOUS
  <2>2. TypeOK /\ Moves(m)
    BY EveryMailMoves DEF IInv
  <2> HIDE DEF st, tr, ow
  <2> QED
    BY <2>1, <2>2, MoveIsStep
    DEF st, tr, ow, Queue!Step, Queue!To, Queue!Stays, Queue!Offer, Queue!InQueue,
        Queue!Begin, Queue!Finish, Queue!Retry, Queue!GiveUp, Queue!OwnEnds
<1> QED
  BY <1>1, <1>2 DEF Queue!Next

\* Mail delivery keeps the promise of the queue.  (enqueue, asynq, the handlers
\* of the worker.)
THEOREM MailIsDelivered == Spec => ImplementsDelivery
<1>1. IInv /\ IInv' /\ [Next]_vars => Queue!Next
  BY DeliveryStep
<1> QED
  BY <1>1, DeliveryInit, Invariance, PTL DEF Spec, ImplementsDelivery, Queue!Spec

\* Whatever becomes of a mail uses up what it can go through.
LEMMA RunsUsedUp ==
    ASSUME IInv, IInv', [Next]_vars
    PROVE  Queue!UsesUp
<1> DEFINE st == [m \in Mails |-> Task(m)]
           tr == [m \in Mails |-> Tries(m)]
           ow == [m \in Mails |-> "none"]
<1> SUFFICES ASSUME NEW m \in Mails
             PROVE  \/ Queue!Stays(m) /\ ow'[m] = ow[m]
                    \/ Queue!Left(m)' \in 0..(Queue!Left(m) - 1)
  BY DEF Queue!UsesUp
<1>1. /\ Queue!Left(m) = 2 * (MaxRetry + 1 - Tries(m)) +
            (CASE Task(m) = "none" -> 3 [] Task(m) = "running" -> 2
               [] Task(m) = "waiting" -> 1 [] OTHER -> 0) + 0
      /\ Queue!Left(m)' = 2 * (MaxRetry + 1 - Tries(m)') +
            (CASE Task(m)' = "none" -> 3 [] Task(m)' = "running" -> 2
               [] Task(m)' = "waiting" -> 1 [] OTHER -> 0) + 0
      /\ Queue!Stays(m) <=> Task(m)' = Task(m) /\ Tries(m)' = Tries(m)
      /\ ow'[m] = ow[m]
  BY DEF Queue!Left, Queue!To, Queue!Stays
<1>2. Tries(m) \in 0..MaxRetry + 1 /\ Tries(m)' \in 0..MaxRetry + 1
  BY MailAssumption DEF IInv, TypeOK, Tries
<1>3. TypeOK /\ Moves(m)
  BY EveryMailMoves DEF IInv
<1> HIDE DEF st, tr, ow
<1> QED
  BY <1>1, <1>2, <1>3, MoveIsStep, MailAssumption

\* A mail is not tried for ever, whatever the providers, the timeouts and the
\* crashes do: it changes at most 2 * MaxRetry + 5 times.  (MaxRetry, Timeout.)
THEOREM MailRunsOut == Spec => Queue!RunsOut
<1>1. IInv /\ IInv' /\ [Next]_vars => Queue!UsesUp
  BY RunsUsedUp
<1> QED
  BY <1>1, Invariance, PTL DEF Spec, Queue!RunsOut
===============================================================================
