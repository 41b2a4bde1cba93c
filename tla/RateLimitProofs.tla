---------------------------- MODULE RateLimitProofs ----------------------------
(***************************************************************************)
(* One address, one bucket: the first LoadOrStore of an address settles    *)
(* which it is, and every later Load and LoadOrStore returns that one.     *)
(* The bucket keeps to the rate: what is held of it since some time it     *)
(* owes beyond a full bucket, and what a cancelled reservation gives back  *)
(* nobody has been promised.  It wastes nothing either, as long as the     *)
(* requests of an address take turns: then it owes only what is held.      *)
(***************************************************************************)
EXTENDS RateLimit, FiniteSetTheorems, TLAPS

\* Types, and who has which bucket.
Known == TypeOK /\ BucketsKnown

\* Times and tokens stay what they are.
LEMMA Arithmetic ==
    ASSUME TypeOK, NEW r \in Requests, lim[r] \in Requests
    PROVE  /\ Advanced(lim[r]) \in Int
           /\ Restored(r) \in Int
BY RateLimitAssumption DEF TypeOK, Advanced, Restored, Greater, Lesser

\* Load and LoadOrStore return the bucket of the map.
LEMMA GettingKeeps ==
    ASSUME Known, NEW r \in Requests, Load(r) \/ LoadOrStore(r)
    PROVE  Known'
<1> USE RateLimitAssumption DEF bucket, history, local, Goto, Known
<1>1. Ip[r] \in Ips /\ clients[Ip[r]] \in Requests \cup {NoBucket}
    BY DEF Ips, TypeOK
<1>2. CASE Load(r)
  <2>1. TypeOK'
    BY <1>1, <1>2 DEF Load, TypeOK, Ended
  <2>2. BucketsKnown'
    BY <1>1, <1>2 DEF Load, TypeOK, BucketsKnown, HasBucket
  <2> QED BY <2>1, <2>2
<1>3. CASE LoadOrStore(r)
  <2>1. LoadedOrStored(r) \in Requests /\ Ip[LoadedOrStored(r)] = Ip[r]
    BY <1>1, <1>3 DEF LoadedOrStored, BucketsKnown
  <2>2. TypeOK'
    BY <1>1, <1>3, <2>1 DEF LoadOrStore, TypeOK
  <2>3. \A q \in Requests : HasBucket(q)' /\ q # r => clients'[Ip[q]] = clients[Ip[q]]
    BY <1>1, <1>3 DEF LoadOrStore, TypeOK, BucketsKnown, HasBucket, LoadedOrStored, Ips
  <2>4. BucketsKnown'
    BY <1>1, <1>3, <2>1, <2>3 DEF LoadOrStore, TypeOK, BucketsKnown, HasBucket, Ips
  <2> QED BY <2>2, <2>4
<1> QED BY <1>2, <1>3

\* The other steps leave the map and everybody's choice alone.
LEMMA UsingKeeps ==
    ASSUME Known, NEW r \in Requests, Reserve(r) \/ Delay(r) \/ Cancel(r)
    PROVE  Known'
<1> USE RateLimitAssumption DEF bucket, history, local, Goto, Ends, Known
<1>1. lim[r] \in Requests
    BY DEF TypeOK, BucketsKnown, HasBucket, Reserve, Delay, Cancel
<1>2. Advanced(lim[r]) \in Int /\ Restored(r) \in Int
    BY <1>1, Arithmetic
<1>3. BucketsKnown'
    BY DEF TypeOK, BucketsKnown, HasBucket, Reserve, Delay, Cancel
<1>4. CASE Reserve(r)
  <2> DEFINE left == Advanced(lim[r]) - Every
             act  == now + Greater(-left, 0)
  <2>1. left \in Int
    BY <1>2
  <2>3. act \in Nat
    BY <2>1 DEF TypeOK, Greater
  <2>2. /\ tokens' = [tokens EXCEPT ![lim[r]] = left]
        /\ lastEvent' = [lastEvent EXCEPT ![lim[r]] = act]
        /\ timeToAct' = [timeToAct EXCEPT ![r] = act]
    BY <1>4 DEF Reserve
  <2> HIDE DEF left, act
  <2> QED
    BY <1>1, <1>3, <1>4, <2>1, <2>2, <2>3 DEF Reserve, TypeOK
<1>5. CASE Delay(r)
  <2>1. Greater(timeToAct[r] - now, 0) \in Nat
    BY DEF Greater, TypeOK
  <2> QED
    BY <1>3, <1>5, <2>1 DEF Delay, TypeOK
<1>6. CASE Cancel(r)
  <2> DEFINE back == Lesser(Advanced(lim[r]) + Restored(r), Burst * Every)
  <2>1. back \in Int
    BY <1>2 DEF Lesser
  <2>2. tokens' \in {tokens, [tokens EXCEPT ![lim[r]] = back]}
    BY <1>6 DEF Cancel
  <2>3. lastEvent' \in [Requests -> Nat]
    BY <1>1, <1>6 DEF Cancel, TypeOK
  <2> HIDE DEF back
  <2>4. tokens' \in [Requests -> Int]
    BY <1>1, <2>1, <2>2 DEF TypeOK
  <2>5. last' \in [Requests -> 0..MaxNow] /\ pc' = [pc EXCEPT ![r] = "refused"]
        /\ endedAt' = [endedAt EXCEPT ![r] = now]
        /\ UNCHANGED <<now, clients, lim, timeToAct, delay, reservedAt, before>>
    BY <1>6 DEF Cancel, TypeOK
  <2> QED
    BY <1>3, <2>3, <2>4, <2>5 DEF TypeOK
<1> QED BY <1>4, <1>5, <1>6

LEMMA KnownInductive == (Init => Known) /\ (Known /\ [Next]_vars => Known')
<1>1. Init => Known
  BY RateLimitAssumption DEF Init, Known, TypeOK, BucketsKnown, HasBucket
<1>2. Known /\ Tick => Known'
  BY RateLimitAssumption DEF Tick, Known, TypeOK, BucketsKnown, HasBucket, bucket, local, history
<1>3. Known /\ UNCHANGED vars => Known'
  BY DEF vars, Known, TypeOK, BucketsKnown, HasBucket, bucket, local, history
<1> QED
  BY <1>1, <1>2, <1>3, GettingKeeps, UsingKeeps DEF Next, Request

-----------------------------------------------------------------------------
\* The bucket of a request, and whose it is.
LEMMA BucketOf ==
    ASSUME Known, NEW r \in Requests, HasBucket(r)
    PROVE  /\ lim[r] \in Requests /\ Ip[lim[r]] = Ip[r] /\ Ip[r] \in Ips
           /\ clients[Ip[r]] = lim[r]
           /\ \A i \in Ips : clients[i] = lim[r] => i = Ip[r]
           /\ \A q \in Requests : HasBucket(q) => (lim[q] = lim[r] <=> Ip[q] = Ip[r])
BY RateLimitAssumption DEF Known, TypeOK, BucketsKnown, Ips, HasBucket

LEMMA Constant == Full \in Nat /\ Every \in Nat \ {0} /\ Every <= Full
BY RateLimitAssumption DEF Full

\* Counting holders.
LEMMA Count ==
    ASSUME NEW S \in SUBSET Requests
    PROVE  IsFiniteSet(S) /\ Cardinality(S) \in Nat
BY RateLimitAssumption, FS_Subset, FS_CardinalityType

LEMMA CountSubset ==
    ASSUME NEW S \in SUBSET Requests, NEW T \in SUBSET S
    PROVE  /\ Cardinality(T) \in Nat /\ Cardinality(S) \in Nat
           /\ Cardinality(T) * Every <= Cardinality(S) * Every
<1>1. Cardinality(T) \in Nat /\ Cardinality(S) \in Nat /\ IsFiniteSet(S)
  BY Count
<1>2. Cardinality(T) <= Cardinality(S)
  BY <1>1, FS_Subset
<1> QED
  BY <1>1, <1>2, Constant

LEMMA CountOneMore ==
    ASSUME NEW S \in SUBSET Requests, NEW r \in Requests \ S
    PROVE  /\ Cardinality(S) * Every \in Nat
           /\ Cardinality(S \cup {r}) * Every = Cardinality(S) * Every + Every
<1>1. Cardinality(S) \in Nat /\ IsFiniteSet(S)
  BY Count
<1>2. Cardinality(S \cup {r}) = Cardinality(S) + 1
  BY <1>1, FS_AddElement
<1> QED
  BY <1>1, <1>2, Constant

\* What a bucket owes, it has owed for no longer than it takes to fill.
LEMMA OwedIs ==
    ASSUME TypeOK, NEW b \in Requests
    PROVE  /\ Owed(b) = Greater(now - (tokens[b] + (now - last[b])), now - Full)
           /\ Owed(b) \in Int
           /\ Owed(b) >= now - Full
BY Constant DEF TypeOK, Owed, Advanced, Lesser, Greater, Full
-----------------------------------------------------------------------------
(* What no step undoes.                                                    *)

LEMMA RequestGoesOn ==
    ASSUME Known, NEW x \in Requests, Request(x), NEW r \in Requests
    PROVE  /\ now' = now
           /\ pc[r] # "new" => pc'[r] # "new" /\ before'[r] = before[r]
           /\ r \in Ended => r \in Ended' /\ pc'[r] = pc[r]
                             /\ endedAt'[r] = endedAt[r] /\ reservedAt'[r] = reservedAt[r]
           /\ pc[r] \in {"delay", "cancel"} =>
                 /\ reservedAt'[r] = reservedAt[r]
                 /\ \/ pc'[r] \in {"delay", "cancel"}
                    \/ r \in Ended' /\ endedAt'[r] = now
<1> USE DEF Known, TypeOK, Ended, Goto, Ends, local, history
<1>1. CASE Load(x)
  BY <1>1 DEF Load
<1>2. CASE LoadOrStore(x)
  BY <1>2 DEF LoadOrStore
<1>3. CASE Reserve(x)
  BY <1>3 DEF Reserve
<1>4. CASE Delay(x)
  BY <1>4 DEF Delay
<1>5. CASE Cancel(x)
  BY <1>5 DEF Cancel
<1> QED
  BY <1>1, <1>2, <1>3, <1>4, <1>5 DEF Request

\* Requests that are orderly have always been.
LEMMA OrderlyBefore ==
    ASSUME Known, Clocks, Next, NEW i, Orderly(i)'
    PROVE  Orderly(i)
<1> SUFFICES ASSUME NEW r \in Requests, Ip[r] = i, pc[r] # "new"
             PROVE  Undisturbed(r)
  BY DEF Orderly
<1>1. CASE Tick
  <2>1. now' = now + 1 /\ UNCHANGED <<pc, reservedAt, endedAt, before>>
    BY <1>1 DEF Tick, history
  <2>2. Undisturbed(r)'
    BY <2>1 DEF Orderly
  <2>3. reservedAt[r] <= now /\ now \in Int
    BY DEF Clocks, Known, TypeOK
  <2> QED
    BY <2>1, <2>2, <2>3 DEF Undisturbed, Ended, Known, TypeOK
<1>2. ASSUME NEW x \in Requests, Request(x) PROVE Undisturbed(r)
  <2>1. now' = now /\ pc'[r] # "new" /\ before'[r] = before[r]
    BY <1>2, RequestGoesOn
  <2>2. Undisturbed(r)'
    BY <2>1 DEF Orderly
  <2>3. ASSUME NEW q \in Requests \ {r}, Ip[q] = Ip[r], pc[q] # "new"
        PROVE  q \in before[r] \/ r \in before[q]
    <3>1. pc'[q] # "new" /\ before'[q] = before[q]
      BY <1>2, <2>3, RequestGoesOn
    <3> QED
      BY <2>1, <2>2, <2>3, <3>1 DEF Undisturbed
  <2>4. pc[r] \in {"delay", "cancel"} => reservedAt[r] = now
    BY <1>2, <2>1, <2>2, RequestGoesOn DEF Undisturbed
  <2>5. r \in Ended => endedAt[r] = reservedAt[r]
    BY <1>2, <2>2, RequestGoesOn DEF Undisturbed
  <2> QED
    BY <2>3, <2>4, <2>5 DEF Undisturbed
<1> QED
  BY <1>1, <1>2 DEF Next

\* Of orderly requests one at most is under way.
LEMMA OneAtATime ==
    ASSUME Known, BeforeEnded, NEW r \in Requests, Orderly(Ip[r]), pc[r] # "new", r \notin Ended,
           NEW q \in Requests \ {r}, Ip[q] = Ip[r], pc[q] # "new"
    PROVE  q \in Ended
<1>1. Undisturbed(r)
  BY DEF Orderly
<1>2. q \in before[r] \/ r \in before[q]
  BY <1>1 DEF Undisturbed
<1> QED
  BY <1>2 DEF BeforeEnded

LEMMA BeforeEndedKept ==
    ASSUME Known, BeforeEnded, Next
    PROVE  BeforeEnded'
<1>1. CASE Tick
  BY <1>1 DEF Tick, BeforeEnded, Ended, history
<1>2. ASSUME NEW x \in Requests, Request(x) PROVE BeforeEnded'
  <2>1. Ended \subseteq Ended'
    BY <1>2, RequestGoesOn DEF Ended
  <2>2. \A r \in Requests : before'[r] = before[r] \/ (before'[r] = Ended /\ r \notin Ended)
    <3>1. CASE Load(x)
      BY <3>1 DEF Load, Known, TypeOK, Ended
    <3>2. CASE ~Load(x)
      BY <1>2, <3>2 DEF Request, LoadOrStore, Reserve, Delay, Cancel, history
    <3> QED
      BY <3>1, <3>2
  <2> QED
    BY <2>1, <2>2 DEF BeforeEnded
<1> QED
  BY <1>1, <1>2 DEF Next

-----------------------------------------------------------------------------
(* One lemma per action.                                                   *)

\* What the steps below keep.
Kept == Clocks /\ Queued /\ HeldIsOwed /\ PromisesBounded /\ OwedIsHeld

\* A step that moves neither the clock nor a bucket, and changes no holder.
LEMMA Unmoved ==
    ASSUME Known, Known', UNCHANGED <<now, tokens, last, lastEvent, timeToAct, reservedAt>>,
           \A q \in Requests : Holds(q)' <=> Holds(q),
           \A q \in Requests : Holds(q) => lim'[q] = lim[q]
    PROVE  /\ \A i, t : HeldSince(i, t)' = HeldSince(i, t)
           /\ \A i, t, u : DueBy(i, t, u)' = DueBy(i, t, u)
           /\ \A b : Owed(b)' = Owed(b)
           /\ \A q \in Requests : Late(q)' <=> Late(q)
           /\ Queued => Queued'
           /\ PromisesBounded => PromisesBounded'
<1>1. \A i, t : HeldSince(i, t)' = HeldSince(i, t)
  BY DEF HeldSince
<1>2. \A i, t, u : DueBy(i, t, u)' = DueBy(i, t, u)
  BY <1>1 DEF DueBy
<1>3. \A b : Owed(b)' = Owed(b)
  BY DEF Owed, Advanced
<1>4. \A q \in Requests : (Late(q)' <=> Late(q)) /\ (Late(q) => Holds(q))
  BY DEF Late
<1>5. Queued => Queued'
  BY <1>3, <1>4 DEF Queued
<1>6. PromisesBounded => PromisesBounded'
  <2>1. \A i : {timeToAct[q] : q \in {q \in Requests : Late(q) /\ Ip[q] = i}}'
             = {timeToAct[q] : q \in {q \in Requests : Late(q) /\ Ip[q] = i}}
    BY <1>4
  <2> QED
    BY <1>2, <2>1 DEF PromisesBounded
<1> QED
  BY <1>1, <1>2, <1>3, <1>4, <1>5, <1>6

\* It asks for its bucket.
LEMMA LoadKeeps ==
    ASSUME Known, Known', Kept, BeforeEnded, NEW r \in Requests, Load(r)
    PROVE  Kept'
<1> USE DEF Kept
<1>1. /\ pc[r] = "new" /\ pc' = [pc EXCEPT ![r] = IF clients[Ip[r]] = NoBucket THEN "store" ELSE "reserve"]
      /\ UNCHANGED <<now, clients, tokens, last, lastEvent, timeToAct, reservedAt, endedAt>>
      /\ \A q \in Requests : q # r => lim'[q] = lim[q]
  BY DEF Load, Goto, bucket, Known, TypeOK
<1>2. \A q \in Requests : (Holds(q)' <=> Holds(q)) /\ (Holds(q) => lim'[q] = lim[q])
                          /\ (pc'[q] \in {"delay", "cancel"} => pc'[q] = pc[q] /\ lim'[q] = lim[q])
                          /\ (pc'[q] \in {"cancel", "admitted"} => pc'[q] = pc[q])
  BY <1>1 DEF Holds, Known, TypeOK
<1>3. Queued' /\ PromisesBounded'
  BY <1>1, <1>2, Unmoved
<1>4. Clocks'
  BY <1>1, <1>2 DEF Clocks
<1>5. (\A i, t : HeldSince(i, t)' = HeldSince(i, t)) /\ (\A b : Owed(b)' = Owed(b))
  BY <1>1, <1>2, Unmoved
<1>6. HeldIsOwed'
  BY <1>1, <1>5 DEF HeldIsOwed
<1>7. OwedIsHeld'
  <2>1. \A i : Orderly(i)' => Orderly(i)
    BY OrderlyBefore DEF Next, Request
  <2> QED
    BY <1>1, <1>2, <1>5, <2>1 DEF OwedIsHeld
<1> QED
  BY <1>3, <1>4, <1>6, <1>7

\* It has its bucket; a new one is full and nobody holds anything of it.
LEMMA StoreKeeps ==
    ASSUME Known, Known', Kept, BeforeEnded, NEW r \in Requests, LoadOrStore(r)
    PROVE  Kept'
<1> USE DEF Kept
<1>1. /\ pc[r] = "store" /\ pc' = [pc EXCEPT ![r] = "reserve"]
      /\ UNCHANGED <<now, tokens, last, lastEvent, timeToAct, reservedAt, endedAt>>
      /\ clients' = [clients EXCEPT ![Ip[r]] = LoadedOrStored(r)]
      /\ \A q \in Requests : q # r => lim'[q] = lim[q]
  BY DEF LoadOrStore, Goto, bucket, history, Known, TypeOK
<1>2. \A q \in Requests : (Holds(q)' <=> Holds(q)) /\ (Holds(q) => lim'[q] = lim[q])
                          /\ (pc'[q] \in {"delay", "cancel"} => pc'[q] = pc[q] /\ lim'[q] = lim[q])
                          /\ (pc'[q] \in {"cancel", "admitted"} => pc'[q] = pc[q])
  BY <1>1 DEF Holds, Known, TypeOK
<1>3. Queued' /\ PromisesBounded'
  BY <1>1, <1>2, Unmoved
<1>4. (\A i, t : HeldSince(i, t)' = HeldSince(i, t)) /\ (\A b : Owed(b)' = Owed(b))
  BY <1>1, <1>2, Unmoved
<1>5. Ip[r] \in Ips /\ \A q \in Requests : Ip[q] \in Ips
  BY DEF Ips
<1>6. \A q \in Requests : Holds(q) => clients[Ip[q]] # NoBucket
  BY DEF Known, BucketsKnown, HasBucket, Holds
<1>7. \/ clients' = clients
      \/ clients[Ip[r]] = NoBucket /\ clients' = [clients EXCEPT ![Ip[r]] = r]
  <2>1. clients[Ip[r]] # NoBucket => clients' = clients
    BY <1>1, <1>5 DEF LoadedOrStored, Known, TypeOK
  <2> QED
    BY <1>1, <2>1 DEF LoadedOrStored
<1>8. Clocks'
  <2>1. ASSUME NEW b \in Requests, clients'[Ip[b]] # b PROVE clients[Ip[b]] # b
    BY <1>5, <1>7, <2>1, RateLimitAssumption DEF Known, TypeOK
  <2> QED
    BY <1>1, <1>2, <2>1 DEF Clocks
<1>9. \A i : Orderly(i)' => Orderly(i)
  BY OrderlyBefore DEF Next, Request
<1>10. CASE clients' = clients
  BY <1>1, <1>2, <1>3, <1>4, <1>8, <1>9, <1>10 DEF HeldIsOwed, OwedIsHeld
<1>11. CASE clients[Ip[r]] = NoBucket /\ clients' = [clients EXCEPT ![Ip[r]] = r]
  <2>1. \A i \in Ips : i # Ip[r] => clients'[i] = clients[i]
    BY <1>11 DEF Known, TypeOK
  <2>2. clients'[Ip[r]] = r
    BY <1>5, <1>11 DEF Known, TypeOK
  <2>3. \A q \in Requests : Ip[q] = Ip[r] => ~Holds(q)
    BY <1>6, <1>11
  <2>4. \A t : HeldSince(Ip[r], t) = {}
    BY <2>3 DEF HeldSince
  <2>5. tokens[r] = Full /\ last[r] = 0
    BY <1>11, RateLimitAssumption DEF Clocks
  <2>6. Owed(r) = now - Full
    <3>1. TypeOK /\ now \in Nat
      BY DEF Known, TypeOK
    <3>2. Owed(r) = Greater(now - (Full + (now - 0)), now - Full)
      BY <2>5, <3>1, OwedIs
    <3> QED
      BY <3>1, <3>2, Constant DEF Greater
  <2>7. Cardinality({}) * Every = 0
    BY FS_EmptySet, Constant
  <2>8. now \in Nat /\ now \in 0..now
    BY DEF Known, TypeOK
  <2>9. \A t \in 0..now : 0 <= (now - Full) + Full - t
    BY <2>8, Constant
  <2>10. HeldIsOwed'
    BY <1>1, <1>4, <2>1, <2>2, <2>4, <2>6, <2>7, <2>9 DEF HeldIsOwed
  <2>11. (now - Full) + Full - now <= 0
    BY <2>8, Constant
  <2>12. \A q \in Requests : Ip[q] = Ip[r] => pc'[q] \notin {"delay", "cancel"}
    BY <1>2, <2>3 DEF Holds
  <2>13. OwedIsHeld'
    <3> SUFFICES ASSUME NEW i \in Ips, clients'[i] # NoBucket, Orderly(i)'
                 PROVE  /\ \E t \in 0..now' : (Owed(clients[i]) + Full - t <= Cardinality(HeldSince(i, t)) * Every)'
                        /\ \A q \in Requests :
                              Ip[q] = i /\ pc'[q] \in {"delay", "cancel"} => lastEvent'[lim'[q]] = timeToAct'[q]
      BY DEF OwedIsHeld
    <3>1. CASE i = Ip[r]
      BY <1>1, <1>4, <2>2, <2>4, <2>6, <2>7, <2>8, <2>11, <2>12, <3>1
    <3>2. CASE i # Ip[r]
      <4>1. clients'[i] = clients[i] /\ clients[i] # NoBucket /\ Orderly(i)
        BY <1>9, <2>1, <3>2
      <4> QED
        BY <1>1, <1>2, <1>4, <4>1 DEF OwedIsHeld
    <3> QED
      BY <3>1, <3>2
  <2> QED
    BY <1>3, <1>8, <2>10, <2>13
<1> QED
  BY <1>7, <1>10, <1>11

\* Reserving, a request takes a token, now or when there will be one; no other
\* bucket is touched.
LEMMA ReserveTakes ==
    ASSUME Known, NEW r \in Requests, Reserve(r)
    PROVE  /\ timeToAct'[r] = Greater(now, Owed(lim[r]) + Every)
           /\ timeToAct' = [timeToAct EXCEPT ![r] = timeToAct'[r]]
           /\ lastEvent' = [lastEvent EXCEPT ![lim[r]] = timeToAct'[r]]
           /\ tokens' = [tokens EXCEPT ![lim[r]] = Advanced(lim[r]) - Every]
           /\ last' = [last EXCEPT ![lim[r]] = now]
           /\ (Owed(lim[r]))' = Owed(lim[r]) + Every
           /\ \A c \in Requests : c # lim[r] =>
                 /\ Owed(c)' = Owed(c) /\ lastEvent'[c] = lastEvent[c]
                 /\ tokens'[c] = tokens[c] /\ last'[c] = last[c]
<1> DEFINE b == lim[r]
           act == timeToAct'[r]
<1>1. /\ pc[r] = "reserve" /\ UNCHANGED <<now, lim>>
      /\ last' = [last EXCEPT ![b] = now]
  BY DEF Reserve, Goto
<1>2. b \in Requests
  BY <1>1, BucketOf DEF HasBucket
<1>3. now \in Nat /\ Owed(b) \in Int /\ Owed(b) >= now - Full
  BY <1>2, OwedIs DEF Known, TypeOK
<1>4. /\ act = Greater(now, Owed(b) + Every)
      /\ timeToAct' = [timeToAct EXCEPT ![r] = act]
      /\ lastEvent' = [lastEvent EXCEPT ![b] = act]
      /\ tokens' = [tokens EXCEPT ![b] = Advanced(b) - Every]
  <2> DEFINE left == Advanced(b) - Every
             at   == now + Greater(-left, 0)
  <2>1. TypeOK
    BY DEF Known
  <2>2. Advanced(b) \in Int /\ Advanced(b) = now - Owed(b)
    BY <1>2, <1>3, <2>1, Arithmetic DEF Owed
  <2>3. /\ timeToAct' = [timeToAct EXCEPT ![r] = at]
        /\ lastEvent' = [lastEvent EXCEPT ![b] = at]
        /\ tokens' = [tokens EXCEPT ![b] = left]
    BY DEF Reserve
  <2>4. at = Greater(now, Owed(b) + Every)
    BY <1>3, <2>2, Constant DEF Greater
  <2> HIDE DEF at, left
  <2>5. act = at
    BY <2>1, <2>3 DEF TypeOK
  <2> QED
    BY <2>3, <2>4, <2>5 DEF left
<1>5. (Owed(b))' = Owed(b) + Every
  <2>0. TypeOK
    BY DEF Known
  <2>1. Advanced(b) = now - Owed(b) /\ Advanced(b) \in Int
    BY <1>2, <1>3, <2>0, Arithmetic DEF Owed
  <2>2. tokens'[b] = now - Owed(b) - Every /\ last'[b] = now
    BY <1>1, <1>2, <1>4, <2>1 DEF Known, TypeOK
  <2>3. (Owed(b))' = now' - Lesser(tokens'[b] + (now' - last'[b]), Full)
    BY <1>1 DEF Owed, Advanced, Full
  <2>4. (Owed(b))' = now - Lesser((now - Owed(b) - Every) + (now - now), Full)
    BY <1>1, <2>2, <2>3
  <2> QED
    BY <1>3, <2>4, Constant DEF Lesser
<1>6. \A c \in Requests : c # b => Owed(c)' = Owed(c) /\ lastEvent'[c] = lastEvent[c]
                                  /\ tokens'[c] = tokens[c] /\ last'[c] = last[c]
  BY <1>1, <1>2, <1>4 DEF Owed, Advanced, Known, TypeOK
<1> QED
  BY <1>1, <1>4, <1>5, <1>6

\* It takes a token, now or when there will be one.
LEMMA ReserveKeeps ==
    ASSUME Known, Known', Kept, BeforeEnded, NEW r \in Requests, Reserve(r)
    PROVE  Kept'
<1> USE DEF Kept
<1> DEFINE b == lim[r]
           i == Ip[r]
           act == timeToAct'[r]
<1>1. /\ pc[r] = "reserve" /\ pc' = [pc EXCEPT ![r] = "delay"]
      /\ UNCHANGED <<now, clients, lim, endedAt, before>>
      /\ reservedAt' = [reservedAt EXCEPT ![r] = now]
      /\ last' = [last EXCEPT ![b] = now]
  BY DEF Reserve, Goto
<1>2. /\ b \in Requests /\ Ip[b] = i /\ i \in Ips /\ clients[i] = b
      /\ \A j \in Ips : clients[j] = b => j = i
      /\ \A q \in Requests : HasBucket(q) => (lim[q] = b <=> Ip[q] = i)
  BY <1>1, BucketOf DEF HasBucket
<1>3. now \in Nat /\ Owed(b) \in Int /\ Owed(b) >= now - Full
  BY <1>2, OwedIs DEF Known, TypeOK
<1>4. /\ act = Greater(now, Owed(b) + Every)
      /\ timeToAct' = [timeToAct EXCEPT ![r] = act]
      /\ lastEvent' = [lastEvent EXCEPT ![b] = act]
      /\ tokens' = [tokens EXCEPT ![b] = Advanced(b) - Every]
  BY ReserveTakes
<1>5. act \in Int /\ now <= act /\ Owed(b) + Every <= act /\ (act > now => act = Owed(b) + Every)
  BY <1>3, <1>4, Constant DEF Greater
<1>6. (Owed(b))' = Owed(b) + Every
  BY ReserveTakes
<1>7. \A c \in Requests : c # b => Owed(c)' = Owed(c) /\ lastEvent'[c] = lastEvent[c]
                                  /\ tokens'[c] = tokens[c] /\ last'[c] = last[c]
  BY ReserveTakes
<1>8. lastEvent'[b] = act /\ timeToAct'[r] = act /\ reservedAt'[r] = now
      /\ pc'[r] = "delay" /\ Holds(r)' /\ ~Holds(r)
  BY <1>1, <1>2, <1>4 DEF Known, TypeOK, Holds
<1>9. \A q \in Requests : q # r => /\ pc'[q] = pc[q] /\ timeToAct'[q] = timeToAct[q]
                                   /\ reservedAt'[q] = reservedAt[q]
                                   /\ (Holds(q)' <=> Holds(q)) /\ (Late(q)' <=> Late(q))
  BY <1>1, <1>4 DEF Known, TypeOK, Holds, Late
<1>10. \A q \in Requests : Holds(q) => HasBucket(q)
  BY DEF Holds, HasBucket
<1>11. \A q \in Requests : Late(q) => Holds(q) /\ timeToAct[q] >= now
  BY <1>3 DEF Late, Known, TypeOK
<1>12. Late(r)' <=> act > now
  BY <1>1, <1>5, <1>8, <1>3 DEF Late
<1>13. \A q \in Requests : reservedAt[q] <= now /\ reservedAt[q] \in Int /\ timeToAct[q] \in Int
  BY DEF Clocks, Known, TypeOK
<1> HIDE DEF act
<1>14. Clocks'
  <2>1. \A c \in Requests : last'[c] <= now
    BY <1>1, <1>2, <1>3 DEF Clocks, Known, TypeOK
  <2>2. \A c \in Requests : clients'[Ip[c]] # c => tokens'[c] = Full /\ last'[c] = 0
    BY <1>1, <1>2, <1>7 DEF Clocks
  <2>3. \A q \in Requests :
          /\ reservedAt'[q] <= now
          /\ Holds(q)' => reservedAt'[q] <= timeToAct'[q]
          /\ pc'[q] = "cancel" => reservedAt'[q] < timeToAct'[q]
          /\ pc'[q] = "admitted" => timeToAct'[q] <= now
    BY <1>3, <1>5, <1>8, <1>9 DEF Clocks
  <2> QED
    BY <1>1, <2>1, <2>2, <2>3 DEF Clocks
\* Those who wait for the same bucket are promised no more than it owed.
<1>15. ASSUME NEW q \in Requests, q # r, Late(q), Ip[q] = i
       PROVE  act > now /\ timeToAct[q] + Every <= act /\ lim[q] = b
  <2>1. lim[q] = b /\ timeToAct[q] <= Owed(b)
    BY <1>2, <1>10, <1>11, <1>15 DEF Queued
  <2> QED
    BY <1>3, <1>5, <1>11, <1>13, <1>15, <2>1, Constant
<1>16. Queued'
  <2> SUFFICES ASSUME NEW q \in Requests, Late(q)'
               PROVE  /\ timeToAct'[q] <= lastEvent'[lim'[q]]
                      /\ timeToAct'[q] <= (Owed(lim[q]))'
                      /\ \A x \in Requests \ {q} : Ip[x] = Ip[q] =>
                          /\ Late(x)' => \/ timeToAct'[x] + Every <= timeToAct'[q]
                                         \/ timeToAct'[q] + Every <= timeToAct'[x]
                          /\ Holds(x)' /\ reservedAt'[q] < reservedAt'[x] =>
                                Late(x)' /\ timeToAct'[q] + Every <= timeToAct'[x]
    BY DEF Queued
  <2>1. CASE q = r
    <3>1. act = (Owed(b))'
      BY <1>5, <1>6, <1>12, <2>1
    <3>2. ASSUME NEW x \in Requests \ {q}, Ip[x] = Ip[q]
          PROVE  /\ Late(x)' => timeToAct'[x] + Every <= timeToAct'[q]
                 /\ ~(reservedAt'[q] < reservedAt'[x])
      BY <1>3, <1>8, <1>9, <1>13, <1>15, <2>1, <3>2
    <3> QED
      BY <1>1, <1>5, <1>8, <2>1, <3>1, <3>2
  <2>2. CASE q # r
    <3>1. Late(q) /\ Holds(q) /\ lim[q] \in Requests
      BY <1>9, <1>10, <1>11, <2>2, BucketOf
    <3>2. timeToAct'[q] <= lastEvent'[lim'[q]] /\ timeToAct'[q] <= (Owed(lim[q]))'
      <4>1. CASE Ip[q] = i
        BY <1>1, <1>3, <1>5, <1>6, <1>8, <1>9, <1>13, <1>15, <2>2, <3>1, <4>1, Constant
      <4>2. CASE Ip[q] # i
        <5>1. lim[q] # b
          BY <1>2, <1>10, <3>1, <4>2
        <5>2. /\ lastEvent'[lim[q]] = lastEvent[lim[q]]
              /\ tokens'[lim[q]] = tokens[lim[q]] /\ last'[lim[q]] = last[lim[q]]
          BY <1>7, <3>1, <5>1
        <5>3. (Owed(lim[q]))' = Owed(lim[q])
          BY <1>1, <5>2 DEF Owed, Advanced
        <5> QED
          BY <1>1, <1>9, <2>2, <3>1, <5>2, <5>3 DEF Queued
      <4> QED
        BY <4>1, <4>2
    <3>3. ASSUME NEW x \in Requests \ {q}, Ip[x] = Ip[q]
          PROVE  /\ Late(x)' => \/ timeToAct'[x] + Every <= timeToAct'[q]
                                \/ timeToAct'[q] + Every <= timeToAct'[x]
                 /\ Holds(x)' /\ reservedAt'[q] < reservedAt'[x] =>
                       Late(x)' /\ timeToAct'[q] + Every <= timeToAct'[x]
      <4>1. CASE x = r
        BY <1>8, <1>9, <1>12, <1>15, <2>2, <3>1, <3>3, <4>1
      <4>2. CASE x # r
        BY <1>9, <2>2, <3>1, <3>3, <4>2 DEF Queued
      <4> QED
        BY <4>1, <4>2
    <3> QED
      BY <3>2, <3>3
  <2> QED
    BY <2>1, <2>2
<1>17. /\ \A t \in 0..now : HeldSince(i, t)' = HeldSince(i, t) \cup {r} /\ r \notin HeldSince(i, t)
       /\ \A j, t : j # i => HeldSince(j, t)' = HeldSince(j, t)
  BY <1>8, <1>9 DEF HeldSince
<1>18. ASSUME NEW t \in 0..now
       PROVE  /\ Cardinality(HeldSince(i, t)) * Every \in Nat
              /\ Cardinality(HeldSince(i, t) \cup {r}) * Every
                   = Cardinality(HeldSince(i, t)) * Every + Every
              /\ Cardinality(HeldSince(i, t) \cup {r}) * Every <= Owed(b) + Every + Full - t
  <2>1. HeldSince(i, t) \in SUBSET Requests /\ r \notin HeldSince(i, t)
    BY <1>17 DEF HeldSince
  <2>2. Cardinality(HeldSince(i, t)) * Every <= Owed(b) + Full - t
    BY <1>2, RateLimitAssumption DEF HeldIsOwed
  <2> DEFINE S == HeldSince(i, t)
  <2> HIDE DEF S
  <2>3. /\ Cardinality(S) * Every \in Nat
        /\ Cardinality(S \cup {r}) * Every = Cardinality(S) * Every + Every
    BY <2>1, CountOneMore DEF S
  <2>4. Cardinality(S) * Every + Every <= Owed(b) + Every + Full - t
    BY <1>3, <2>2, <2>3, Constant DEF S
  <2> QED
    BY <2>3, <2>4 DEF S
<1>19. ASSUME NEW j \in Ips, j # i, clients[j] # NoBucket
       PROVE  clients[j] \in Requests /\ clients[j] # b /\ (Owed(clients[j]))' = Owed(clients[j])
  <2>1. clients[j] \in Requests /\ clients[j] # b
    BY <1>2, <1>19 DEF Known, TypeOK
  <2> QED
    BY <1>1, <1>7, <2>1 DEF Owed, Advanced
<1>20. b # NoBucket
  BY <1>2, RateLimitAssumption
<1>21. HeldIsOwed'
  <2> SUFFICES ASSUME NEW j \in Ips, clients'[j] # NoBucket, NEW t \in 0..now'
               PROVE  Cardinality(HeldSince(j, t)') * Every <= (Owed(clients[j]))' + Full - t
    BY DEF HeldIsOwed
  <2>1. CASE j = i
    BY <1>1, <1>2, <1>6, <1>17, <1>18, <2>1
  <2>2. CASE j # i
    BY <1>1, <1>17, <1>19, <2>2 DEF HeldIsOwed
  <2> QED
    BY <2>1, <2>2
<1>22. PromisesBounded'
  <2> SUFFICES ASSUME NEW j \in Ips, NEW t \in 0..now', NEW u,
                      u = now' \/ \E q \in Requests : Late(q)' /\ Ip[q] = j /\ u = timeToAct'[q]
               PROVE  Cardinality(DueBy(j, t, u)') * Every <= Full + (u - t)
    BY DEF PromisesBounded
  <2>1. u \in Int /\ t \in Int /\ t \in 0..now
    BY <1>1, <1>3 DEF Known, TypeOK
  <2>2. CASE j = i /\ act <= u
    <3>1. DueBy(j, t, u)' \in SUBSET (HeldSince(i, t) \cup {r})
      BY <1>17, <2>1, <2>2 DEF DueBy
    <3>2. HeldSince(i, t) \cup {r} \in SUBSET Requests
      BY DEF HeldSince
    <3>3. Cardinality(DueBy(j, t, u)') * Every <= Cardinality(HeldSince(i, t) \cup {r}) * Every
          /\ Cardinality(DueBy(j, t, u)') \in Nat
      BY <3>1, <3>2, CountSubset
    <3>4. Cardinality(DueBy(j, t, u)') * Every \in Int
      BY <3>3, Constant
    <3> QED
      BY <1>3, <1>5, <1>18, <2>1, <2>2, <3>3, <3>4, Constant
  <2>3. CASE ~(j = i /\ act <= u)
    <3>1. DueBy(j, t, u)' = DueBy(j, t, u)
      BY <1>8, <1>9, <1>17, <2>1, <2>3, <1>5 DEF DueBy, HeldSince
    <3>2. u = now \/ \E q \in Requests : Late(q) /\ Ip[q] = j /\ u = timeToAct[q]
      BY <1>1, <1>5, <1>8, <1>9, <2>1, <2>3
    <3> QED
      BY <2>1, <3>1, <3>2 DEF PromisesBounded
  <2> QED
    BY <2>2, <2>3
<1>23. OwedIsHeld'
  <2> SUFFICES ASSUME NEW j \in Ips, clients'[j] # NoBucket, Orderly(j)'
               PROVE  /\ \E t \in 0..now' : (Owed(clients[j]))' + Full - t <= Cardinality(HeldSince(j, t)') * Every
                      /\ \A q \in Requests :
                            Ip[q] = j /\ pc'[q] \in {"delay", "cancel"} => lastEvent'[lim'[q]] = timeToAct'[q]
    BY DEF OwedIsHeld
  <2>1. Orderly(j) /\ clients[j] # NoBucket
    BY <1>1, OrderlyBefore DEF Next, Request
  <2>2. PICK t \in 0..now : Owed(clients[j]) + Full - t <= Cardinality(HeldSince(j, t)) * Every
    BY <2>1 DEF OwedIsHeld
  <2>3. CASE j = i
    <3>1. (Owed(clients[j]))' + Full - t <= Cardinality(HeldSince(j, t)') * Every
      BY <1>1, <1>2, <1>3, <1>6, <1>17, <1>18, <2>2, <2>3, Constant
    <3>2. ASSUME NEW q \in Requests, q # r, Ip[q] = i PROVE pc'[q] \notin {"delay", "cancel"}
      <4>1. pc[r] # "new" /\ r \notin Ended
        BY <1>1 DEF Ended
      <4>2. pc[q] # "new" => q \in Ended
        BY <2>1, <2>3, <3>2, <4>1, OneAtATime
      <4> QED
        BY <1>9, <3>2, <4>2 DEF Ended
    <3> QED
      BY <1>1, <1>8, <2>3, <3>1, <3>2
  <2>4. CASE j # i
    <3>1. (Owed(clients[j]))' + Full - t <= Cardinality(HeldSince(j, t)') * Every
      BY <1>17, <1>19, <2>1, <2>2, <2>4
    <3>2. ASSUME NEW q \in Requests, Ip[q] = j, pc'[q] \in {"delay", "cancel"}
          PROVE  lastEvent'[lim'[q]] = timeToAct'[q]
      <4>1. q # r /\ pc[q] \in {"delay", "cancel"} /\ HasBucket(q) /\ timeToAct'[q] = timeToAct[q]
        BY <1>9, <2>4, <3>2 DEF HasBucket
      <4>2. lim[q] # b /\ lim[q] \in Requests
        BY <1>2, <2>4, <3>2, <4>1, BucketOf
      <4> QED
        BY <1>1, <1>7, <2>1, <3>2, <4>1, <4>2 DEF OwedIsHeld
    <3> QED
      BY <1>1, <3>1, <3>2
  <2> QED
    BY <2>3, <2>4
<1> QED
  BY <1>14, <1>16, <1>21, <1>22, <1>23

\* It learns whether it may go on.
LEMMA DelayKeeps ==
    ASSUME Known, Known', Kept, BeforeEnded, NEW r \in Requests, Delay(r)
    PROVE  Kept'
<1> USE DEF Kept
<1>1. /\ pc[r] = "delay"
      /\ pc' = [pc EXCEPT ![r] = IF timeToAct[r] > now THEN "cancel" ELSE "admitted"]
      /\ UNCHANGED <<now, clients, tokens, last, lastEvent, timeToAct, reservedAt, lim>>
  BY DEF Delay, Goto, Ends, bucket
<1>2. \A q \in Requests : (Holds(q)' <=> Holds(q))
                          /\ (pc'[q] \in {"delay", "cancel"} => pc[q] \in {"delay", "cancel"})
  BY <1>1 DEF Holds, Known, TypeOK
<1>3. Queued' /\ PromisesBounded'
  BY <1>1, <1>2, Unmoved
<1>4. (\A i, t : HeldSince(i, t)' = HeldSince(i, t)) /\ (\A b : Owed(b)' = Owed(b))
  BY <1>1, <1>2, Unmoved
<1>5. Clocks'
  <2>1. /\ pc'[r] = "cancel" => reservedAt[r] < timeToAct[r]
        /\ pc'[r] = "admitted" => timeToAct[r] <= now
    BY <1>1 DEF Clocks, Known, TypeOK
  <2>2. \A q \in Requests : q # r => pc'[q] = pc[q]
    BY <1>1 DEF Known, TypeOK
  <2> QED
    BY <1>1, <1>2, <2>1, <2>2 DEF Clocks
<1>6. HeldIsOwed'
  BY <1>1, <1>4 DEF HeldIsOwed
<1>7. OwedIsHeld'
  <2>1. \A i : Orderly(i)' => Orderly(i)
    BY OrderlyBefore DEF Next, Request
  <2> QED
    BY <1>1, <1>2, <1>4, <2>1 DEF OwedIsHeld
<1> QED
  BY <1>3, <1>5, <1>6, <1>7

\* What a cancelled reservation gives back, at most the token, nobody who
\* reserved later has been promised.
LEMMA CancelGivesBack ==
    ASSUME Known, Kept, NEW r \in Requests, Cancel(r), Restored(r) # 0
    PROVE  /\ Late(r)
           /\ Restored(r) \in 1..Every
           /\ Restored(r) = Every - (lastEvent[lim[r]] - timeToAct[r])
           /\ timeToAct[r] <= lastEvent[lim[r]] /\ timeToAct[r] <= Owed(lim[r])
           /\ \A q \in Requests \ {r} : Ip[q] = Ip[r] =>
                 /\ Late(q) => timeToAct[q] + Every <= timeToAct[r]
                 /\ Holds(q) => reservedAt[q] <= reservedAt[r]
<1>1. /\ pc[r] = "cancel" /\ lim[r] \in Requests /\ Ip[lim[r]] = Ip[r]
      /\ \A q \in Requests : HasBucket(q) /\ Ip[q] = Ip[r] => lim[q] = lim[r]
  BY BucketOf DEF Cancel, HasBucket
<1>2. /\ now \in Nat /\ timeToAct[r] \in Nat /\ lastEvent[lim[r]] \in Nat
      /\ \A q \in Requests : reservedAt[q] \in Nat /\ timeToAct[q] \in Nat
  BY <1>1 DEF Known, TypeOK
<1>3. /\ timeToAct[r] >= now
      /\ Restored(r) = Every - (lastEvent[lim[r]] - timeToAct[r])
      /\ Restored(r) > 0
  BY <1>2, Constant DEF Restored, Greater
<1>4. Late(r)
  BY <1>1, <1>2, <1>3 DEF Late, Holds, Kept, Clocks
<1>5. timeToAct[r] <= lastEvent[lim[r]] /\ timeToAct[r] <= Owed(lim[r])
  BY <1>4 DEF Kept, Queued
<1>6. Restored(r) \in 1..Every
  BY <1>2, <1>3, <1>5, Constant
<1>7. ASSUME NEW q \in Requests \ {r}, Ip[q] = Ip[r]
      PROVE  /\ Late(q) => timeToAct[q] + Every <= timeToAct[r]
             /\ Holds(q) => reservedAt[q] <= reservedAt[r]
  <2>1. Late(q) => timeToAct[q] <= lastEvent[lim[r]]
    BY <1>1, <1>7 DEF Kept, Queued, Late, Holds, HasBucket
  <2>2. Late(q) => \/ timeToAct[q] + Every <= timeToAct[r]
                   \/ timeToAct[r] + Every <= timeToAct[q]
    BY <1>4, <1>7 DEF Kept, Queued
  <2>3. Late(q) => timeToAct[q] + Every <= timeToAct[r]
    BY <1>2, <1>3, <2>1, <2>2, Constant
  <2>4. Holds(q) /\ reservedAt[r] < reservedAt[q] => Late(q) /\ timeToAct[r] + Every <= timeToAct[q]
    BY <1>4, <1>7 DEF Kept, Queued
  <2> QED
    BY <1>2, <2>3, <2>4, Constant
<1> QED
  BY <1>3, <1>4, <1>5, <1>6, <1>7

\* Which the bucket then no longer owes; no other is touched.
LEMMA CancelReturns ==
    ASSUME Known, Kept, NEW r \in Requests, Cancel(r), Restored(r) # 0
    PROVE  /\ (Owed(lim[r]))' = Greater(Owed(lim[r]) - Restored(r), now - Full)
           /\ \A c \in Requests : c # lim[r] =>
                 /\ (Owed(c))' = Owed(c) /\ lastEvent'[c] = lastEvent[c]
                 /\ tokens'[c] = tokens[c] /\ last'[c] = last[c]
<1> DEFINE b == lim[r]
           R == Restored(r)
           P == timeToAct[r]
<1>1. UNCHANGED <<now, lim>> /\ pc[r] = "cancel"
  BY DEF Cancel, local
<1>2. b \in Requests
  BY <1>1, BucketOf DEF HasBucket
<1>3. now \in Nat /\ Owed(b) \in Int /\ Owed(b) >= now - Full
  BY <1>2, OwedIs DEF Known, TypeOK
<1>4. R \in 1..Every
  BY CancelGivesBack
<1>5. /\ tokens' = [tokens EXCEPT ![b] = Lesser(Advanced(b) + R, Full)]
      /\ last' = [last EXCEPT ![b] = now]
      /\ lastEvent' = IF lastEvent[b] = P /\ P - Every >= now
                      THEN [lastEvent EXCEPT ![b] = P - Every] ELSE lastEvent
  BY DEF Cancel, Full
<1> HIDE DEF R, P
<1>6. (Owed(b))' = Greater(Owed(b) - R, now - Full)
  <2>1. Advanced(b) \in Int /\ Advanced(b) = now - Owed(b)
    <3>1. TypeOK
      BY DEF Known
    <3> QED
      BY <1>2, <1>3, <3>1, Arithmetic DEF Owed
  <2>2. tokens'[b] = Lesser(now - Owed(b) + R, Full) /\ last'[b] = now
    BY <1>2, <1>5, <2>1 DEF Known, TypeOK
  <2>3. (Owed(b))' = now' - Lesser(tokens'[b] + (now' - last'[b]), Full)
    BY <1>1 DEF Owed, Advanced, Full
  <2>4. (Owed(b))' = now - Lesser(Lesser(now - Owed(b) + R, Full) + (now - now), Full)
    BY <1>1, <2>2, <2>3
  <2> QED
    BY <1>3, <1>4, <2>4, Constant DEF Lesser, Greater
<1>7. \A c \in Requests : c # b => /\ (Owed(c))' = Owed(c) /\ lastEvent'[c] = lastEvent[c]
                                   /\ tokens'[c] = tokens[c] /\ last'[c] = last[c]
  <2>1. \A c \in Requests : c # b => lastEvent'[c] = lastEvent[c]
                                     /\ tokens'[c] = tokens[c] /\ last'[c] = last[c]
    BY <1>2, <1>5 DEF Known, TypeOK
  <2> QED
    BY <1>1, <2>1 DEF Owed, Advanced
<1> QED
  BY <1>6, <1>7 DEF R

\* It is refused and gives its reservation back, as far as it can.
LEMMA CancelKeeps ==
    ASSUME Known, Known', Kept, BeforeEnded, NEW r \in Requests, Cancel(r)
    PROVE  Kept'
<1> USE DEF Kept
<1> DEFINE b == lim[r]
           i == Ip[r]
<1>1. /\ pc[r] = "cancel" /\ pc' = [pc EXCEPT ![r] = "refused"]
      /\ UNCHANGED <<now, clients, lim, timeToAct, reservedAt, before>>
  BY DEF Cancel, Goto, Ends, local
<1>2. /\ b \in Requests /\ Ip[b] = i /\ i \in Ips /\ clients[i] = b
      /\ \A j \in Ips : clients[j] = b => j = i
      /\ \A q \in Requests : HasBucket(q) => (lim[q] = b <=> Ip[q] = i)
  BY <1>1, BucketOf DEF HasBucket
<1>3. now \in Nat /\ Owed(b) \in Int /\ Owed(b) >= now - Full
  BY <1>2, OwedIs DEF Known, TypeOK
<1>4. /\ Holds(r) /\ ~Holds(r)' /\ pc'[r] = "refused"
      /\ \A q \in Requests : q # r => (Holds(q)' <=> Holds(q)) /\ pc'[q] = pc[q]
  BY <1>1 DEF Holds, Known, TypeOK
<1>5. \A q \in Requests : /\ Late(q)' => Late(q) /\ q # r
                          /\ Late(q) /\ q # r => Late(q)'
                          /\ Late(q) => Holds(q)
                          /\ Holds(q) => HasBucket(q)
  BY <1>1, <1>4 DEF Late, Holds, HasBucket
<1>6. \A q \in Requests : reservedAt[q] <= now /\ reservedAt[q] \in Nat /\ timeToAct[q] \in Nat
  BY DEF Clocks, Known, TypeOK
<1>7. \A j, t : HeldSince(j, t)' = HeldSince(j, t) \ {r}
  BY <1>1, <1>4 DEF HeldSince
<1>8. \A j, t : j # i => HeldSince(j, t)' = HeldSince(j, t)
  BY <1>1, <1>4 DEF HeldSince
<1>9. PromisesBounded'
  <2> SUFFICES ASSUME NEW j \in Ips, NEW t \in 0..now', NEW u,
                      u = now' \/ \E q \in Requests : Late(q)' /\ Ip[q] = j /\ u = timeToAct'[q]
               PROVE  Cardinality(DueBy(j, t, u)') * Every <= Full + (u - t)
    BY DEF PromisesBounded
  <2>1. DueBy(j, t, u)' \in SUBSET DueBy(j, t, u) /\ DueBy(j, t, u) \in SUBSET Requests
    BY <1>1, <1>7 DEF DueBy, HeldSince
  <2>2. /\ Cardinality(DueBy(j, t, u)') \in Nat /\ Cardinality(DueBy(j, t, u)) \in Nat
        /\ Cardinality(DueBy(j, t, u)') * Every <= Cardinality(DueBy(j, t, u)) * Every
    BY <2>1, CountSubset
  <2>3. Cardinality(DueBy(j, t, u)) * Every <= Full + (u - t)
    BY <1>1, <1>5 DEF PromisesBounded
  <2>4. u \in Int /\ t \in Int
    BY <1>1, <1>3, <1>6
  <2> QED
    BY <2>2, <2>3, <2>4, Constant
<1>10. \A j : Orderly(j)' => Orderly(j)
  BY OrderlyBefore DEF Next, Request
\* In turn, it was the last to reserve, and no time has passed.
<1>11. ASSUME Orderly(i)
       PROVE  /\ lastEvent[b] = timeToAct[r] /\ reservedAt[r] = now
              /\ Restored(r) = Every
              /\ \A q \in Requests : Ip[q] = i => pc'[q] \notin {"delay", "cancel"}
  <2>1. lastEvent[b] = timeToAct[r]
    BY <1>1, <1>2, <1>11, RateLimitAssumption DEF OwedIsHeld
  <2>2. reservedAt[r] = now
    BY <1>1, <1>11 DEF Orderly, Undisturbed
  <2>3. timeToAct[r] > now
    BY <1>1, <1>3, <1>6, <2>2 DEF Clocks
  <2>4. Restored(r) = Every
    BY <1>3, <1>6, <2>1, <2>3, Constant DEF Restored, Greater
  <2>5. \A q \in Requests \ {r} : Ip[q] = i => pc[q] \notin {"delay", "cancel"}
    BY <1>1, <1>11, OneAtATime DEF Ended
  <2> QED
    BY <1>4, <2>1, <2>2, <2>4, <2>5
<1>12. CASE Restored(r) = 0
  <2>1. UNCHANGED <<tokens, last, lastEvent>>
    BY <1>12 DEF Cancel, bucket
  <2>2. \A c : (Owed(c))' = Owed(c)
    BY <1>1, <2>1 DEF Owed, Advanced
  <2>3. Clocks'
    BY <1>1, <1>4, <2>1 DEF Clocks
  <2>4. Queued'
    BY <1>1, <1>4, <1>5, <2>1, <2>2 DEF Queued
  <2>5. HeldIsOwed'
    <3> SUFFICES ASSUME NEW j \in Ips, clients'[j] # NoBucket, NEW t \in 0..now'
                 PROVE  Cardinality(HeldSince(j, t)') * Every <= (Owed(clients[j]))' + Full - t
      BY DEF HeldIsOwed
    <3>1. HeldSince(j, t)' \in SUBSET HeldSince(j, t) /\ HeldSince(j, t) \in SUBSET Requests
      BY <1>7 DEF HeldSince
    <3>2. /\ Cardinality(HeldSince(j, t)') \in Nat /\ Cardinality(HeldSince(j, t)) \in Nat
          /\ Cardinality(HeldSince(j, t)') * Every <= Cardinality(HeldSince(j, t)) * Every
      BY <3>1, CountSubset
    <3>3. Cardinality(HeldSince(j, t)) * Every <= Owed(clients[j]) + Full - t
      BY <1>1 DEF HeldIsOwed
    <3>4. clients[j] \in Requests /\ t \in Int /\ clients'[j] = clients[j]
      BY <1>1 DEF Known, TypeOK
    <3>5. Owed(clients[j]) \in Int /\ (Owed(clients[j]))' = Owed(clients[j])
      BY <2>2, <3>4, <1>1, OwedIs DEF Known
    <3> QED
      BY <3>2, <3>3, <3>4, <3>5, Constant
  <2>6. OwedIsHeld'
    <3>1. ~Orderly(i)
      BY <1>11, <1>12, Constant
    <3> QED
      BY <1>1, <1>4, <1>8, <1>10, <2>1, <2>2, <3>1 DEF OwedIsHeld
  <2> QED
    BY <1>9, <2>3, <2>4, <2>5, <2>6
<1>13. CASE Restored(r) # 0
  <2> DEFINE R == Restored(r)
             P == timeToAct[r]
  <2>1. /\ Late(r) /\ R \in 1..Every /\ R = Every - (lastEvent[b] - P)
        /\ P <= lastEvent[b] /\ P <= Owed(b)
        /\ \A q \in Requests \ {r} : Ip[q] = i =>
              /\ Late(q) => timeToAct[q] + Every <= P
              /\ Holds(q) => reservedAt[q] <= reservedAt[r]
    BY <1>13, CancelGivesBack
  <2>2. /\ tokens' = [tokens EXCEPT ![b] = Lesser(Advanced(b) + R, Full)]
        /\ last' = [last EXCEPT ![b] = now]
        /\ lastEvent' = IF lastEvent[b] = P /\ P - Every >= now
                        THEN [lastEvent EXCEPT ![b] = P - Every] ELSE lastEvent
    BY <1>13 DEF Cancel, Full
  <2> HIDE DEF R, P
  <2>3. (Owed(b))' = Greater(Owed(b) - R, now - Full)
    BY <1>13, CancelReturns DEF R
  <2>4. /\ (Owed(b))' \in Int /\ (Owed(b))' >= Owed(b) - Every /\ (Owed(b))' >= now - Full
        /\ \/ (Owed(b))' = Owed(b) - R
           \/ (Owed(b))' = now - Full
    BY <1>3, <2>1, <2>3, Constant DEF Greater
  <2>5. \A c \in Requests : c # b => /\ (Owed(c))' = Owed(c) /\ lastEvent'[c] = lastEvent[c]
                                     /\ tokens'[c] = tokens[c] /\ last'[c] = last[c]
    BY <1>13, CancelReturns
  <2>6. P \in Nat /\ lastEvent[b] \in Nat
    BY <1>2 DEF P, Known, TypeOK
  <2>7. lastEvent'[b] >= P - Every /\ lastEvent'[b] \in Int
    BY <1>2, <2>1, <2>2, <2>6, Constant DEF Known, TypeOK
  <2>8. Clocks'
    <3>1. \A c \in Requests : last'[c] <= now
      BY <1>2, <1>3, <2>2 DEF Clocks, Known, TypeOK
    <3>2. \A c \in Requests : clients'[Ip[c]] # c => tokens'[c] = Full /\ last'[c] = 0
      BY <1>1, <1>2, <2>5 DEF Clocks
    <3> QED
      BY <1>1, <1>4, <3>1, <3>2 DEF Clocks
  <2>9. Queued'
    <3> SUFFICES ASSUME NEW q \in Requests, Late(q)'
                 PROVE  /\ timeToAct'[q] <= lastEvent'[lim'[q]]
                        /\ timeToAct'[q] <= (Owed(lim[q]))'
                        /\ \A x \in Requests \ {q} : Ip[x] = Ip[q] =>
                            /\ Late(x)' => \/ timeToAct'[x] + Every <= timeToAct'[q]
                                           \/ timeToAct'[q] + Every <= timeToAct'[x]
                            /\ Holds(x)' /\ reservedAt'[q] < reservedAt'[x] =>
                                  Late(x)' /\ timeToAct'[q] + Every <= timeToAct'[x]
      BY DEF Queued
    <3>1. Late(q) /\ q # r /\ lim[q] \in Requests /\ HasBucket(q)
      BY <1>5, BucketOf
    <3>2. timeToAct[q] <= lastEvent'[lim[q]] /\ timeToAct[q] <= (Owed(lim[q]))'
      <4>1. CASE Ip[q] = i
        <5>1. timeToAct[q] + Every <= P /\ lim[q] = b
          BY <1>2, <2>1, <3>1, <4>1
        <5>2. timeToAct[q] <= lastEvent'[b]
          BY <1>6, <2>6, <2>7, <5>1, Constant
        <5>3. timeToAct[q] <= (Owed(b))'
          BY <1>3, <1>6, <2>1, <2>4, <2>6, <5>1, Constant
        <5> QED
          BY <1>1, <5>1, <5>2, <5>3
      <4>2. CASE Ip[q] # i
        <5>1. lim[q] # b
          BY <1>2, <3>1, <4>2
        <5>2. /\ lastEvent'[lim[q]] = lastEvent[lim[q]]
              /\ tokens'[lim[q]] = tokens[lim[q]] /\ last'[lim[q]] = last[lim[q]]
          BY <2>5, <3>1, <5>1
        <5>3. (Owed(lim[q]))' = Owed(lim[q])
          BY <1>1, <5>2 DEF Owed, Advanced
        <5> QED
          BY <3>1, <5>2, <5>3 DEF Queued
      <4> QED
        BY <4>1, <4>2
    <3>3. ASSUME NEW x \in Requests \ {q}, Ip[x] = Ip[q]
          PROVE  /\ Late(x)' => \/ timeToAct[x] + Every <= timeToAct[q]
                                \/ timeToAct[q] + Every <= timeToAct[x]
                 /\ Holds(x)' /\ reservedAt[q] < reservedAt[x] =>
                       Late(x)' /\ timeToAct[q] + Every <= timeToAct[x]
      BY <1>4, <1>5, <3>1, <3>3 DEF Queued
    <3> QED
      BY <1>1, <3>2, <3>3
  <2>10. ASSUME NEW j \in Ips, j # i, clients[j] # NoBucket
         PROVE  clients[j] \in Requests /\ clients[j] # b /\ (Owed(clients[j]))' = Owed(clients[j])
    <3>1. clients[j] \in Requests /\ clients[j] # b
      BY <1>2, <2>10 DEF Known, TypeOK
    <3> QED
      BY <1>1, <2>5, <3>1 DEF Owed, Advanced
  <2>11. b # NoBucket
    BY <1>2, RateLimitAssumption
  <2>12. ASSUME NEW t \in 0..now, t <= reservedAt[r]
         PROVE  /\ Cardinality(HeldSince(i, t)') * Every \in Nat
                /\ Cardinality(HeldSince(i, t)) * Every = Cardinality(HeldSince(i, t)') * Every + Every
    <3> DEFINE S == HeldSince(i, t)'
    <3>1. r \notin S /\ S \in SUBSET Requests /\ HeldSince(i, t) = S \cup {r}
      BY <1>4, <1>7, <2>12 DEF HeldSince
    <3> HIDE DEF S
    <3>2. /\ Cardinality(S) * Every \in Nat
          /\ Cardinality(S \cup {r}) * Every = Cardinality(S) * Every + Every
      BY <3>1, CountOneMore
    <3> QED
      BY <3>1, <3>2 DEF S
  <2>13. HeldIsOwed'
    <3> SUFFICES ASSUME NEW j \in Ips, clients'[j] # NoBucket, NEW t \in 0..now'
                 PROVE  Cardinality(HeldSince(j, t)') * Every <= (Owed(clients[j]))' + Full - t
      BY DEF HeldIsOwed
    <3>1. CASE j = i /\ t <= reservedAt[r]
      <4>1. Cardinality(HeldSince(i, t)) * Every <= Owed(b) + Full - t
        BY <1>1, <1>2, <2>11 DEF HeldIsOwed
      <4>2. Cardinality(HeldSince(i, t)') * Every <= (Owed(b))' + Full - t
        BY <1>1, <1>3, <2>4, <2>12, <3>1, <4>1, Constant
      <4> QED
        BY <1>1, <1>2, <3>1, <4>2
    <3>2. CASE j = i /\ ~(t <= reservedAt[r])
      <4>1. HeldSince(i, t)' = {}
        <5>1. ASSUME NEW q \in HeldSince(i, t)' PROVE FALSE
          <6>1. q \in Requests \ {r} /\ Ip[q] = i /\ Holds(q) /\ t <= reservedAt[q]
            BY <1>7, <5>1 DEF HeldSince
          <6> QED
            BY <1>1, <1>3, <1>6, <2>1, <3>2, <6>1
        <5> QED
          BY <5>1
      <4>2. Cardinality({}) * Every = 0
        BY FS_EmptySet, Constant
      <4>3. 0 <= (Owed(b))' + Full - t
        BY <1>1, <1>3, <2>4, Constant
      <4> QED
        BY <1>1, <1>2, <3>2, <4>1, <4>2, <4>3
    <3>3. CASE j # i
      BY <1>1, <1>8, <2>10, <3>3 DEF HeldIsOwed
    <3> QED
      BY <3>1, <3>2, <3>3
  <2>14. OwedIsHeld'
    <3> SUFFICES ASSUME NEW j \in Ips, clients'[j] # NoBucket, Orderly(j)'
                 PROVE  /\ \E t \in 0..now' : (Owed(clients[j]))' + Full - t <= Cardinality(HeldSince(j, t)') * Every
                        /\ \A q \in Requests :
                              Ip[q] = j /\ pc'[q] \in {"delay", "cancel"} => lastEvent'[lim'[q]] = timeToAct'[q]
      BY DEF OwedIsHeld
    <3>1. Orderly(j) /\ clients[j] # NoBucket
      BY <1>1, <1>10
    <3>2. PICK t \in 0..now : Owed(clients[j]) + Full - t <= Cardinality(HeldSince(j, t)) * Every
      BY <3>1 DEF OwedIsHeld
    <3>3. CASE j = i
      <4>1. /\ R = Every /\ reservedAt[r] = now
            /\ \A q \in Requests : Ip[q] = i => pc'[q] \notin {"delay", "cancel"}
        BY <1>11, <3>1, <3>3 DEF R
      <4>2. CASE (Owed(b))' = Owed(b) - R
        <5>1. t <= reservedAt[r]
          BY <1>3, <4>1
        <5>2. Owed(b) + Full - t <= Cardinality(HeldSince(i, t)) * Every
          BY <1>2, <3>2, <3>3
        <5>3. (Owed(b))' + Full - t <= Cardinality(HeldSince(i, t)') * Every
          BY <1>3, <2>12, <4>1, <4>2, <5>1, <5>2, Constant
        <5>4. \E s \in 0..now' : (Owed(b))' + Full - s <= Cardinality(HeldSince(i, s)') * Every
          BY <1>1, <5>3
        <5> QED
          BY <1>1, <1>2, <3>3, <4>1, <5>4
      <4>3. CASE (Owed(b))' = now - Full
        <5>1. PICK s \in 0..now : s = now
          BY <1>3
        <5>2. s <= reservedAt[r] /\ s \in 0..now'
          BY <1>1, <1>3, <4>1, <5>1
        <5>3. Cardinality(HeldSince(i, s)') * Every \in Nat
          BY <2>12, <5>2
        <5>4. \E u \in 0..now' : (Owed(b))' + Full - u <= Cardinality(HeldSince(i, u)') * Every
          <6>1. (Owed(b))' + Full - s <= Cardinality(HeldSince(i, s)') * Every
            BY <1>3, <4>3, <5>1, <5>3, Constant
          <6> QED
            BY <5>2, <6>1
        <5> QED
          BY <1>1, <1>2, <3>3, <4>1, <5>4
      <4> QED
        BY <2>4, <4>2, <4>3
    <3>4. CASE j # i
      <4>1. (Owed(clients[j]))' + Full - t <= Cardinality(HeldSince(j, t)') * Every
        BY <1>8, <2>10, <3>1, <3>2, <3>4
      <4>2. ASSUME NEW q \in Requests, Ip[q] = j, pc'[q] \in {"delay", "cancel"}
            PROVE  lastEvent'[lim'[q]] = timeToAct'[q]
        <5>1. q # r /\ pc[q] \in {"delay", "cancel"} /\ HasBucket(q)
          BY <1>4, <3>4, <4>2 DEF HasBucket
        <5>2. lim[q] # b /\ lim[q] \in Requests
          BY <1>2, <3>4, <4>2, <5>1, BucketOf
        <5> QED
          BY <1>1, <2>5, <3>1, <4>2, <5>1, <5>2 DEF OwedIsHeld
      <4> QED
        BY <1>1, <4>1, <4>2
    <3> QED
      BY <3>3, <3>4
  <2> QED
    BY <1>9, <2>8, <2>9, <2>13, <2>14
<1> QED
  BY <1>12, <1>13

\* Time passes: what is owed flows in.
LEMMA TickKeeps ==
    ASSUME Known, Known', Kept, BeforeEnded, Tick
    PROVE  Kept'
<1> USE DEF Kept
<1>1. now' = now + 1 /\ UNCHANGED <<clients, tokens, last, lastEvent, pc, lim, timeToAct, reservedAt>>
  BY DEF Tick, bucket, local, history
<1>2. now \in Nat /\ TypeOK
  BY DEF Known, TypeOK
<1>3. \A q \in Requests : reservedAt[q] <= now /\ reservedAt[q] \in Nat /\ timeToAct[q] \in Nat
  BY DEF Clocks, Known, TypeOK
<1> DEFINE Later(c) == (now + 1) - Lesser(tokens[c] + ((now + 1) - last[c]), Full)
<1>4. ASSUME NEW c \in Requests
      PROVE  /\ Owed(c) \in Int /\ Later(c) \in Int
             /\ Later(c) >= Owed(c) /\ Later(c) >= now + 1 - Full
             /\ Later(c) = Owed(c) \/ Later(c) = now + 1 - Full
  <2>1. tokens[c] \in Int /\ last[c] \in Int
    BY <1>2 DEF TypeOK
  <2>2. Owed(c) = now - Lesser(tokens[c] + (now - last[c]), Full)
    BY DEF Owed, Advanced, Full
  <2> QED
    BY <1>2, <2>1, <2>2, Constant DEF Lesser
<1>0. /\ \A q : (Owed(lim[q]))' = Later(lim[q])
      /\ \A j : (Owed(clients[j]))' = Later(clients[j])
  BY <1>1 DEF Owed, Advanced, Full
<1> HIDE DEF Later
<1>5. \A q \in Requests : /\ Holds(q)' <=> Holds(q)
                          /\ Late(q)' <=> Late(q) /\ now + 1 <= timeToAct[q]
                          /\ Late(q) => Holds(q)
                          /\ Holds(q) => lim[q] \in Requests
  BY <1>1, <1>2, <1>3, BucketOf DEF Late, Holds, HasBucket
<1>6. \A j, t : HeldSince(j, t)' = HeldSince(j, t)
  BY <1>1, <1>5 DEF HeldSince
<1>7. \A j, t, u : DueBy(j, t, u)' = DueBy(j, t, u)
  BY <1>1, <1>6 DEF DueBy
<1>8. ASSUME NEW t \in 0..now' PROVE t \in 0..now \/ (t = now + 1 /\ \A j : HeldSince(j, t) = {})
  <2>1. t \in 0..now \/ t = now + 1
    BY <1>1, <1>2
  <2>2. t = now + 1 => \A j : HeldSince(j, t) = {}
    BY <1>2, <1>3 DEF HeldSince
  <2> QED
    BY <2>1, <2>2
<1>9. Cardinality({}) * Every = 0
  BY FS_EmptySet, Constant
<1>10. \A j, t : Cardinality(HeldSince(j, t)) \in Nat /\ Cardinality(HeldSince(j, t)) * Every \in Nat
  <2> TAKE j, t
  <2>1. Cardinality(HeldSince(j, t)) \in Nat
    BY Count DEF HeldSince
  <2> QED
    BY <2>1, Constant
<1>11. Clocks'
  BY <1>1, <1>2, <1>5 DEF Clocks, TypeOK
<1>12. Queued'
  <2> SUFFICES ASSUME NEW q \in Requests, Late(q)'
               PROVE  /\ timeToAct[q] <= lastEvent[lim[q]]
                      /\ timeToAct[q] <= (Owed(lim[q]))'
                      /\ \A x \in Requests \ {q} : Ip[x] = Ip[q] =>
                          /\ Late(x)' => \/ timeToAct[x] + Every <= timeToAct[q]
                                         \/ timeToAct[q] + Every <= timeToAct[x]
                          /\ Holds(x)' /\ reservedAt[q] < reservedAt[x] =>
                                Late(x)' /\ timeToAct[q] + Every <= timeToAct[x]
    BY <1>1 DEF Queued
  <2>1. Late(q) /\ now + 1 <= timeToAct[q] /\ lim[q] \in Requests
    BY <1>5
  <2>2. timeToAct[q] <= lastEvent[lim[q]] /\ timeToAct[q] <= Owed(lim[q])
    BY <2>1 DEF Queued
  <2>3. timeToAct[q] <= (Owed(lim[q]))'
    BY <1>3, <1>0, <1>4, <2>1, <2>2
  <2>4. ASSUME NEW x \in Requests \ {q}, Ip[x] = Ip[q]
        PROVE  /\ Late(x)' => \/ timeToAct[x] + Every <= timeToAct[q]
                              \/ timeToAct[q] + Every <= timeToAct[x]
               /\ Holds(x)' /\ reservedAt[q] < reservedAt[x] =>
                     Late(x)' /\ timeToAct[q] + Every <= timeToAct[x]
    <3>1. /\ Late(x) => \/ timeToAct[x] + Every <= timeToAct[q]
                        \/ timeToAct[q] + Every <= timeToAct[x]
          /\ Holds(x) /\ reservedAt[q] < reservedAt[x] =>
                Late(x) /\ timeToAct[q] + Every <= timeToAct[x]
      BY <2>1, <2>4 DEF Queued
    <3> QED
      BY <1>2, <1>3, <1>5, <2>1, <3>1, Constant
  <2> QED
    BY <2>2, <2>3, <2>4
<1>13. HeldIsOwed'
  <2> SUFFICES ASSUME NEW j \in Ips, clients[j] # NoBucket, NEW t \in 0..now'
               PROVE  Cardinality(HeldSince(j, t)) * Every <= (Owed(clients[j]))' + Full - t
    BY <1>1, <1>6 DEF HeldIsOwed
  <2>1. clients[j] \in Requests
    BY <1>2 DEF TypeOK
  <2>2. CASE t \in 0..now
    <3>1. Cardinality(HeldSince(j, t)) * Every <= Owed(clients[j]) + Full - t
      BY <2>2 DEF HeldIsOwed
    <3> QED
      BY <1>0, <1>4, <1>10, <2>1, <2>2, <3>1, Constant
  <2>3. CASE t = now + 1 /\ HeldSince(j, t) = {}
    <3>1. 0 <= (Owed(clients[j]))' + Full - t
      BY <1>0, <1>2, <1>4, <2>1, <2>3, Constant
    <3> QED
      BY <1>9, <2>3, <3>1
  <2> QED
    BY <1>8, <2>2, <2>3
\* A promise that comes due now has been one still to come.
<1>14. PromisesBounded'
  <2> SUFFICES ASSUME NEW j \in Ips, NEW t \in 0..now', NEW u,
                      u = now + 1 \/ \E q \in Requests : Late(q)' /\ Ip[q] = j /\ u = timeToAct[q]
               PROVE  Cardinality(DueBy(j, t, u)) * Every <= Full + (u - t)
    BY <1>1, <1>7 DEF PromisesBounded
  <2>1. u \in Nat /\ u >= now + 1
    BY <1>2, <1>3, <1>5
  <2>2. CASE t \in 0..now
    <3>1. CASE \E q \in Requests : Late(q) /\ Ip[q] = j /\ u = timeToAct[q]
      BY <2>2, <3>1 DEF PromisesBounded
    <3>2. CASE u = now + 1 /\ ~\E q \in Requests : Late(q) /\ Ip[q] = j /\ u = timeToAct[q]
      <4>1. DueBy(j, t, u) = DueBy(j, t, now)
        <5>1. ASSUME NEW q \in HeldSince(j, t), timeToAct[q] <= u, ~(timeToAct[q] <= now) PROVE FALSE
          <6>1. timeToAct[q] = u /\ Late(q) /\ Ip[q] = j
            BY <1>2, <1>3, <3>2, <5>1 DEF HeldSince, Late
          <6> QED
            BY <3>2, <6>1 DEF HeldSince
        <5>2. \A q \in HeldSince(j, t) : timeToAct[q] <= now => timeToAct[q] <= u
          BY <1>2, <1>3, <3>2 DEF HeldSince
        <5> QED
          BY <5>1, <5>2 DEF DueBy
      <4>2. Cardinality(DueBy(j, t, now)) * Every <= Full + (now - t)
        BY <2>2 DEF PromisesBounded
      <4>3. Cardinality(DueBy(j, t, now)) \in Nat
        BY Count DEF DueBy, HeldSince
      <4>4. Cardinality(DueBy(j, t, now)) * Every \in Int
        BY <4>3, Constant
      <4> QED
        BY <1>2, <2>2, <3>2, <4>1, <4>2, <4>4, Constant
    <3> QED
      BY <1>5, <3>1, <3>2
  <2>3. CASE t = now + 1 /\ HeldSince(j, t) = {}
    <3>1. DueBy(j, t, u) = {}
      BY <2>3 DEF DueBy
    <3>2. 0 <= Full + (u - t)
      BY <1>2, <2>1, <2>3, Constant
    <3> QED
      BY <1>9, <3>1, <3>2
  <2> QED
    BY <1>8, <2>2, <2>3
<1>15. OwedIsHeld'
  <2> SUFFICES ASSUME NEW j \in Ips, clients[j] # NoBucket, Orderly(j)'
               PROVE  /\ \E t \in 0..now' : (Owed(clients[j]))' + Full - t <= Cardinality(HeldSince(j, t)) * Every
                      /\ \A q \in Requests :
                            Ip[q] = j /\ pc[q] \in {"delay", "cancel"} => lastEvent[lim[q]] = timeToAct[q]
    BY <1>1, <1>6 DEF OwedIsHeld
  <2>1. Orderly(j) /\ clients[j] \in Requests
    BY <1>2, OrderlyBefore DEF Next, TypeOK
  <2>2. PICK t \in 0..now : Owed(clients[j]) + Full - t <= Cardinality(HeldSince(j, t)) * Every
    BY <2>1 DEF OwedIsHeld
  <2>3. CASE (Owed(clients[j]))' = Owed(clients[j])
    BY <1>1, <1>2, <2>1, <2>2, <2>3 DEF OwedIsHeld
  <2>4. CASE (Owed(clients[j]))' = now + 1 - Full
    <3>1. PICK s \in 0..now' : s = now + 1
      BY <1>1, <1>2
    <3>2. (Owed(clients[j]))' + Full - s <= Cardinality(HeldSince(j, s)) * Every
      BY <1>2, <1>10, <2>4, <3>1, Constant
    <3> QED
      BY <2>1, <3>2 DEF OwedIsHeld
  <2> QED
    BY <1>0, <1>4, <2>1, <2>3, <2>4
<1> QED
  BY <1>11, <1>12, <1>13, <1>14, <1>15


-----------------------------------------------------------------------------
(* Coming again.                                                           *)

\* Whoever reserves after r began had not done so before.
LEMMA NoneButBefore ==
    ASSUME Known, Next, NEW r \in Requests, pc[r] # "new", NEW q, NoneBut(r, q)'
    PROVE  before'[r] = before[r] /\ NoneBut(r, q)
<1>1. before'[r] = before[r]
  BY RequestGoesOn DEF Next, Tick, history
<1>2. \A x \in Requests : pc'[x] \in {"new", "store", "reserve"} => pc[x] \in {"new", "store", "reserve"}
  BY DEF Next, Tick, Request, Load, LoadOrStore, Reserve, Delay, Cancel, Goto, Ends, Known, TypeOK
<1> QED
  BY <1>1, <1>2 DEF NoneBut

\* What is owed does not grow by waiting, except that no more than a full bucket
\* is ever ahead.
LEMMA OwedFlows ==
    ASSUME Known, Tick, NEW r \in Requests, lim[r] \in Requests
    PROVE  (Owed(lim[r]))' = Owed(lim[r]) \/ (Owed(lim[r]))' = now + 1 - Full
<1> DEFINE c == lim[r]
<1>1. now' = now + 1 /\ UNCHANGED <<tokens, last, lim>>
  BY DEF Tick, bucket, local
<1>2. now \in Nat /\ tokens[c] \in Int /\ last[c] \in Int
  BY DEF Known, TypeOK
<1>3. Owed(c) = now - Lesser(tokens[c] + (now - last[c]), Full)
  BY DEF Owed, Advanced, Full
<1>4. (Owed(c))' = (now + 1) - Lesser(tokens[c] + ((now + 1) - last[c]), Full)
  BY <1>1 DEF Owed, Advanced, Full
<1> QED
  BY <1>2, <1>3, <1>4, Constant DEF Lesser

LEMMA RefundedKept ==
    ASSUME Known, Known', Kept, BeforeEnded, Refunded, Next
    PROVE  Refunded'
<1> DEFINE Owes(r) ==
        /\ pc[r] \in {"delay", "cancel"} =>
              /\ lastEvent[lim[r]] = timeToAct[r]
              /\ Owed(lim[r]) <= Greater(timeToAct[r], now - Full)
        /\ RefusedInTime(r) => Owed(lim[r]) <= Greater(timeToAct[r] - Every, now - Full)
<1> SUFFICES ASSUME NEW r \in Requests, NoneBut(r, r)', pc'[r] \in {"delay", "cancel", "refused"}
             PROVE  Owes(r)'
  BY DEF Refunded, RefusedInTime
<1>1. now \in Nat /\ timeToAct[r] \in Nat
  BY DEF Known, TypeOK
<1>2. pc[r] # "new"
  BY DEF Next, Tick, Request, Load, LoadOrStore, Reserve, Delay, Cancel, Goto, Ends, local, Known, TypeOK
<1>3. NoneBut(r, r) /\ before'[r] = before[r]
  BY <1>2, NoneButBefore
<1>4. Owes(r)
  BY <1>3 DEF Refunded
\* Nobody else goes to its bucket.
<1>5. ASSUME NEW x \in Requests \ {r}, pc[x] \in {"reserve", "cancel"}, pc'[x] \in {"delay", "refused"}
      PROVE  Ip[x] # Ip[r]
  <2>1. x \notin Ended
    BY <1>5 DEF Ended
  <2> QED
    BY <1>3, <1>5, <2>1 DEF NoneBut, BeforeEnded
<1>6. ASSUME UNCHANGED <<now, lim, timeToAct>>, pc'[r] = pc[r], endedAt'[r] = endedAt[r],
             lim[r] \in Requests, tokens'[lim[r]] = tokens[lim[r]], last'[lim[r]] = last[lim[r]],
             lastEvent'[lim[r]] = lastEvent[lim[r]]
      PROVE  Owes(r)'
  <2>1. (Owed(lim[r]))' = Owed(lim[r])
    BY <1>6 DEF Owed, Advanced
  <2> QED
    BY <1>4, <1>6, <2>1 DEF RefusedInTime
<1>7. CASE Tick
  <2>1. now' = now + 1 /\ UNCHANGED <<pc, lim, timeToAct, endedAt, lastEvent>>
    BY <1>7 DEF Tick, bucket, local, history
  <2>2. lim[r] \in Requests
    BY <2>1, BucketOf DEF HasBucket
  <2>3. Owed(lim[r]) \in Int
    BY <2>2, OwedIs DEF Known
  <2>4. (Owed(lim[r]))' = Owed(lim[r]) \/ (Owed(lim[r]))' = now + 1 - Full
    BY <1>7, <2>2, OwedFlows
  <2> QED
    BY <1>1, <1>4, <2>1, <2>3, <2>4, Constant DEF Greater, RefusedInTime
<1>8. ASSUME NEW x \in Requests, Load(x) \/ LoadOrStore(x) PROVE Owes(r)'
  <2>1. x # r
    BY <1>8 DEF Load, LoadOrStore, Goto, Known, TypeOK
  <2>2. /\ UNCHANGED <<now, tokens, last, lastEvent, timeToAct, endedAt>>
        /\ pc'[r] = pc[r] /\ lim'[r] = lim[r]
    BY <1>8, <2>1 DEF Load, LoadOrStore, Goto, bucket, history, Known, TypeOK
  <2>3. (Owed(lim[r]))' = Owed(lim[r])
    BY <2>2 DEF Owed, Advanced
  <2> QED
    BY <1>4, <2>2, <2>3 DEF RefusedInTime
<1>9. ASSUME NEW x \in Requests, Reserve(x) PROVE Owes(r)'
  <2>1. /\ pc[x] = "reserve" /\ pc' = [pc EXCEPT ![x] = "delay"]
        /\ UNCHANGED <<now, lim, endedAt>> /\ lim[x] \in Requests
    BY <1>9, BucketOf DEF Reserve, Goto, HasBucket
  <2>2. CASE x = r
    <3>1. /\ timeToAct'[r] = Greater(now, Owed(lim[r]) + Every)
          /\ lastEvent' = [lastEvent EXCEPT ![lim[r]] = timeToAct'[r]]
          /\ (Owed(lim[r]))' = Owed(lim[r]) + Every
      BY <1>9, <2>2, ReserveTakes
    <3>2. Owed(lim[r]) \in Int
      BY <2>1, <2>2, OwedIs DEF Known
    <3>3. timeToAct'[r] \in Int /\ (Owed(lim[r]))' <= Greater(timeToAct'[r], now - Full)
      BY <1>1, <3>1, <3>2, Constant DEF Greater
    <3>4. pc'[r] = "delay" /\ lastEvent'[lim[r]] = timeToAct'[r]
      BY <2>1, <2>2, <3>1 DEF Known, TypeOK
    <3> QED
      BY <2>1, <3>3, <3>4 DEF RefusedInTime
  <2>3. CASE x # r
    <3>1. Ip[x] # Ip[r] /\ pc'[r] = pc[r] /\ HasBucket(x) /\ HasBucket(r)
      BY <1>5, <2>1, <2>3 DEF HasBucket, Known, TypeOK
    <3>2. lim[r] \in Requests /\ lim[r] # lim[x]
      BY <3>1, BucketOf
    <3>3. /\ timeToAct' = [timeToAct EXCEPT ![x] = timeToAct'[x]]
          /\ lastEvent'[lim[r]] = lastEvent[lim[r]]
          /\ tokens'[lim[r]] = tokens[lim[r]] /\ last'[lim[r]] = last[lim[r]]
      BY <1>9, <3>2, ReserveTakes
    <3>4. timeToAct'[r] = timeToAct[r]
      BY <2>3, <3>3 DEF Known, TypeOK
    <3>5. (Owed(lim[r]))' = Owed(lim[r])
      BY <2>1, <3>3 DEF Owed, Advanced
    <3> QED
      BY <1>4, <2>1, <3>1, <3>3, <3>4, <3>5 DEF RefusedInTime
  <2> QED
    BY <2>2, <2>3
<1>10. ASSUME NEW x \in Requests, Delay(x) PROVE Owes(r)'
  <2>1. /\ UNCHANGED <<now, tokens, last, lastEvent, lim, timeToAct>>
        /\ pc'[r] \in {"delay", "cancel"} => pc[r] \in {"delay", "cancel"}
        /\ pc'[r] = "refused" => pc[r] = "refused" /\ endedAt'[r] = endedAt[r]
    BY <1>10 DEF Delay, Goto, Ends, bucket, Known, TypeOK
  <2>2. (Owed(lim[r]))' = Owed(lim[r])
    BY <2>1 DEF Owed, Advanced
  <2> QED
    BY <1>4, <2>1, <2>2 DEF RefusedInTime
<1>11. ASSUME NEW x \in Requests, Cancel(x) PROVE Owes(r)'
  <2>1. /\ pc[x] = "cancel" /\ pc' = [pc EXCEPT ![x] = "refused"]
        /\ endedAt' = [endedAt EXCEPT ![x] = now]
        /\ UNCHANGED <<now, lim, timeToAct>> /\ lim[x] \in Requests
    BY <1>11, BucketOf DEF Cancel, Goto, Ends, local, HasBucket
  <2>2. CASE x = r
    <3>1. lastEvent[lim[r]] = timeToAct[r] /\ Owed(lim[r]) <= Greater(timeToAct[r], now - Full)
      BY <1>4, <2>1, <2>2
    <3>2. pc'[r] = "refused" /\ endedAt'[r] = now
      BY <2>1, <2>2 DEF Known, TypeOK
    <3>3. ASSUME now <= timeToAct[r]
          PROVE  (Owed(lim[r]))' <= Greater(timeToAct[r] - Every, now - Full)
      <4>1. Restored(r) = Every
        BY <1>1, <3>1, <3>3, Constant DEF Restored, Greater
      <4>2. (Owed(lim[r]))' = Greater(Owed(lim[r]) - Every, now - Full)
        BY <1>11, <2>2, <4>1, CancelReturns, Constant
      <4>3. Owed(lim[r]) \in Int
        BY <2>1, <2>2, OwedIs DEF Known
      <4> QED
        BY <1>1, <3>1, <4>2, <4>3, Constant DEF Greater
    <3> QED
      BY <2>1, <3>2, <3>3 DEF RefusedInTime
  <2>3. CASE x # r
    <3>1. Ip[x] # Ip[r] /\ pc'[r] = pc[r] /\ endedAt'[r] = endedAt[r] /\ HasBucket(x) /\ HasBucket(r)
      <4>1. pc'[x] = "refused" /\ pc'[r] = pc[r] /\ endedAt'[r] = endedAt[r]
        BY <2>1, <2>3 DEF Known, TypeOK
      <4>2. pc[r] # "store" /\ pc[r] # "new"
        BY <4>1
      <4> QED
        BY <1>5, <2>1, <2>3, <4>1, <4>2 DEF HasBucket
    <3>2. lim[r] \in Requests /\ lim[r] # lim[x]
      BY <3>1, BucketOf
    <3>3. /\ lastEvent'[lim[r]] = lastEvent[lim[r]]
          /\ tokens'[lim[r]] = tokens[lim[r]] /\ last'[lim[r]] = last[lim[r]]
      <4>1. CASE Restored(x) = 0
        BY <1>11, <4>1 DEF Cancel, bucket
      <4>2. CASE Restored(x) # 0
        BY <1>11, <3>2, <4>2, CancelReturns
      <4> QED
        BY <4>1, <4>2
    <3> QED
      BY <1>6, <2>1, <3>1, <3>2, <3>3
  <2> QED
    BY <2>2, <2>3
<1> HIDE DEF Owes
<1> QED
  BY <1>7, <1>8, <1>9, <1>10, <1>11 DEF Next, Request

LEMMA RetriedKept ==
    ASSUME Known, Known', Kept, BeforeEnded, Refunded, Retried, Next
    PROVE  Retried'
<1> SUFFICES ASSUME NEW r \in Requests, NEW q \in Requests, RefusedInTime(r)', NoneBut(r, q)',
                    Ip[q] = Ip[r], r \in before'[q], pc'[q] \notin {"new", "store", "reserve"},
                    reservedAt'[q] >= timeToAct'[r]
             PROVE  pc'[q] \in {"delay", "admitted"} /\ timeToAct'[q] <= reservedAt'[q]
  BY DEF Retried
<1>1. r \in before[q]
  <2>1. before'[q] = before[q]
    BY RequestGoesOn DEF Next, Tick, history, Request, Load, LoadOrStore, Reserve, Delay, Cancel,
       Goto, Ends, Known, TypeOK
  <2> QED
    BY <2>1
<1>2. r \in Ended /\ r # q
  BY <1>1 DEF BeforeEnded
<1>3. RefusedInTime(r) /\ timeToAct'[r] = timeToAct[r] /\ timeToAct[r] \in Nat
  <2>1. pc'[r] = pc[r] /\ endedAt'[r] = endedAt[r]
    BY <1>2, RequestGoesOn DEF Next, Tick, history
  <2>2. timeToAct'[r] = timeToAct[r]
    BY <1>2, ReserveTakes DEF Next, Tick, Request, Load, LoadOrStore, Reserve, Delay, Cancel, local,
       Ended, Known, TypeOK
  <2> QED
    BY <2>1, <2>2 DEF RefusedInTime, Known, TypeOK
<1>4. NoneBut(r, q)
  BY <1>3, NoneButBefore DEF RefusedInTime
<1>5. now \in Nat /\ reservedAt[q] \in Nat /\ timeToAct[q] \in Nat /\ reservedAt[q] <= now
  BY DEF Kept, Clocks, Known, TypeOK
\* q reserves: all its bucket owes is due a token's time before r was to go.
<1>6. CASE Reserve(q)
  <2>1. /\ pc[q] = "reserve" /\ now' = now
        /\ pc'[q] = "delay" /\ reservedAt'[q] = now
    BY <1>6 DEF Reserve, Goto, Known, TypeOK
  <2>2. NoneBut(r, r)
    BY <1>4, <2>1 DEF NoneBut
  <2>3. Owed(lim[r]) <= Greater(timeToAct[r] - Every, now - Full)
    BY <1>3, <2>2 DEF Refunded
  <2>4. lim[q] = lim[r] /\ lim[r] \in Requests
    BY <1>3, <2>1, BucketOf DEF HasBucket, RefusedInTime
  <2>5. timeToAct'[q] = Greater(now, Owed(lim[r]) + Every)
    BY <1>6, <2>4, ReserveTakes
  <2>6. Owed(lim[r]) \in Int
    BY <2>4, OwedIs DEF Known
  <2> QED
    BY <1>3, <1>5, <2>1, <2>3, <2>5, <2>6, Constant DEF Greater
<1>7. CASE ~Reserve(q)
  <2>1. /\ pc[q] \notin {"new", "store", "reserve"}
        /\ reservedAt'[q] = reservedAt[q] /\ timeToAct'[q] = timeToAct[q]
    BY <1>7, ReserveTakes DEF Next, Tick, Request, Load, LoadOrStore, Reserve, Delay, Cancel, Goto, Ends,
       local, history, Known, TypeOK
  <2>2. pc[q] \in {"delay", "admitted"} /\ timeToAct[q] <= reservedAt[q]
    BY <1>1, <1>3, <1>4, <2>1 DEF Retried
  <2>3. pc'[q] \in {"delay", "admitted"}
    BY <1>5, <2>2 DEF Next, Tick, Request, Load, LoadOrStore, Reserve, Delay, Cancel, Goto, Ends,
       Known, TypeOK
  <2> QED
    BY <2>1, <2>2, <2>3
<1> QED
  BY <1>6, <1>7

-----------------------------------------------------------------------------
LEMMA Inductive == (Init => IInv) /\ (IInv /\ [Next]_vars => IInv')
<1>1. Init => IInv
  <2> SUFFICES ASSUME Init PROVE IInv
    OBVIOUS
  <2>1. Known /\ TypeOK
    BY KnownInductive DEF Known
  <2>2. /\ now = 0 /\ \A i \in Ips : clients[i] = NoBucket
        /\ \A r \in Requests : pc[r] = "new" /\ before[r] = {} /\ reservedAt[r] = 0
                               /\ tokens[r] = Full /\ last[r] = 0
    BY DEF Init, Full
  <2>3. \A r \in Requests : ~Holds(r) /\ ~Late(r)
    BY <2>2 DEF Holds, Late
  <2>4. Clocks
    BY <2>2, <2>3 DEF Clocks, Holds
  <2>5. Queued /\ HeldIsOwed /\ OwedIsHeld /\ BeforeEnded
    BY <2>2, <2>3 DEF Queued, HeldIsOwed, OwedIsHeld, BeforeEnded
  <2>6. PromisesBounded
    <3> SUFFICES ASSUME NEW i \in Ips, NEW t \in 0..now
                 PROVE  Cardinality(DueBy(i, t, now)) * Every <= Full + (now - t)
      BY <2>3 DEF PromisesBounded
    <3>1. DueBy(i, t, now) = {} /\ t = 0
      BY <2>2, <2>3 DEF DueBy, HeldSince
    <3>2. Cardinality(DueBy(i, t, now)) = 0
      BY <3>1, FS_EmptySet
    <3>3. Cardinality(DueBy(i, t, now)) * Every = 0
      BY <3>2, Constant
    <3> QED
      BY <2>2, <3>1, <3>3, Constant
  <2>7. Refunded /\ Retried
    BY <2>2 DEF Refunded, Retried, RefusedInTime
  <2> QED
    BY <2>1, <2>4, <2>5, <2>6, <2>7 DEF IInv, Known
<1>2. ASSUME IInv, [Next]_vars PROVE IInv'
  <2>1. Known /\ Kept /\ BeforeEnded /\ Refunded /\ Retried
    BY <1>2 DEF IInv, Known, Kept
  <2>2. Known'
    BY <1>2, <2>1, KnownInductive
  <2>3. CASE Next
    <3>1. BeforeEnded'
      BY <2>1, <2>3, BeforeEndedKept
    <3>2. ASSUME NEW r \in Requests, Request(r) PROVE Kept'
      BY <2>1, <2>2, <3>2, LoadKeeps, StoreKeeps, ReserveKeeps, DelayKeeps, CancelKeeps DEF Request
    <3>3. Kept'
      BY <2>1, <2>2, <2>3, <3>2, TickKeeps DEF Next
    <3>4. Refunded' /\ Retried'
      BY <2>1, <2>2, <2>3, RefundedKept, RetriedKept
    <3> QED
      BY <2>2, <3>1, <3>3, <3>4 DEF IInv, Known, Kept
  <2>4. CASE UNCHANGED vars
    <3>1. UNCHANGED <<now, clients, tokens, last, lastEvent, pc, lim, timeToAct, reservedAt, endedAt, before>>
      BY <2>4 DEF vars, bucket, local, history
    <3>2. Queued' /\ PromisesBounded' /\ (\A i, t : HeldSince(i, t)' = HeldSince(i, t))
          /\ (\A b : (Owed(b))' = Owed(b))
      BY <2>1, <2>2, <3>1, Unmoved DEF Kept, Holds
    <3>3. Clocks' /\ HeldIsOwed'
      BY <2>1, <3>1, <3>2 DEF Kept, Clocks, HeldIsOwed, Holds
    <3>4. BeforeEnded' /\ \A i : Orderly(i)' <=> Orderly(i)
      BY <2>1, <3>1 DEF BeforeEnded, Ended, Orderly, Undisturbed
    <3>5. OwedIsHeld'
      BY <2>1, <3>1, <3>2, <3>4 DEF Kept, OwedIsHeld
    <3>6. Refunded' /\ Retried'
      BY <2>1, <3>1, <3>2 DEF Refunded, Retried, NoneBut, RefusedInTime
    <3> QED
      BY <2>2, <3>2, <3>3, <3>4, <3>5, <3>6 DEF IInv, Known
  <2> QED
    BY <1>2, <2>3, <2>4
<1> QED
  BY <1>1, <1>2

\* Types, who has which bucket, and how what is promised, held and owed hang
\* together, whatever overlaps.  (getLimiter, PerIP.)
THEOREM Invariance == Spec => []IInv
<1>1. Init => IInv
  BY Inductive
<1>2. IInv /\ [Next]_vars => IInv'
  BY Inductive
<1> QED
  BY <1>1, <1>2, PTL DEF Spec

\* However their first requests race, the clients of one address share one
\* bucket, and no other client takes from it.  (getLimiter.)
THEOREM OneBucketEach == Spec => []OneBucket
<1>1. IInv => OneBucket
  BY BucketOf DEF IInv, Known, OneBucket
<1> QED
  BY <1>1, Invariance, PTL

\* In no stretch of time are more requests of an address let through than its
\* burst and what flows in meanwhile: whoever is let through had been promised
\* a token by now, and promises keep to the rate.  (PerIP.)
THEOREM RateKept == Spec => []AdmittedBounded
<1>1. IInv => AdmittedBounded
  <2> SUFFICES ASSUME IInv, NEW i \in Ips, NEW t \in 0..now
               PROVE  Cardinality(Admitted(i, t, now)) * Every <= Full + (now - t)
    BY DEF AdmittedBounded, Full
  <2>1. now \in Nat /\ t \in Int
    BY DEF IInv, TypeOK
  <2>2. Admitted(i, t, now) \in SUBSET DueBy(i, t, now) /\ DueBy(i, t, now) \in SUBSET Requests
    BY DEF IInv, Clocks, Admitted, DueBy, HeldSince, Holds
  <2>3. /\ Cardinality(Admitted(i, t, now)) \in Nat /\ Cardinality(DueBy(i, t, now)) \in Nat
        /\ Cardinality(Admitted(i, t, now)) * Every <= Cardinality(DueBy(i, t, now)) * Every
    BY <2>2, CountSubset
  <2>4. Cardinality(DueBy(i, t, now)) * Every <= Full + (now - t)
    BY DEF IInv, PromisesBounded
  <2> QED
    BY <2>1, <2>3, <2>4, Constant
<1> QED
  BY <1>1, Invariance, PTL

\* Who has been answered, and what of it was disturbed, stays so.
LEMMA Answered ==
    ASSUME Known, BeforeEnded, Next, NEW q \in Requests, q \in Ended
    PROVE  /\ q \in Ended' /\ pc'[q] = pc[q] /\ before'[q] = before[q]
           /\ reservedAt'[q] = reservedAt[q]
           /\ Disturbed(q) => Disturbed(q)'
<1>1. CASE Tick
  BY <1>1 DEF Tick, Disturbed, Ended, local, history
<1>2. ASSUME NEW x \in Requests, Request(x)
      PROVE  /\ q \in Ended' /\ pc'[q] = pc[q] /\ before'[q] = before[q]
             /\ reservedAt'[q] = reservedAt[q]
             /\ Disturbed(q) => Disturbed(q)'
  <2>1. q \in Ended' /\ pc'[q] = pc[q] /\ endedAt'[q] = endedAt[q] /\ reservedAt'[q] = reservedAt[q]
    BY <1>2, RequestGoesOn
  <2>2. before'[q] = before[q]
    BY <1>2, RequestGoesOn DEF Ended
  <2>3. \A p \in Requests : pc[p] # "new" => pc'[p] # "new" /\ before'[p] = before[p]
    BY <1>2, RequestGoesOn
  <2> QED
    BY <2>1, <2>2, <2>3 DEF Disturbed
<1> QED
  BY <1>1, <1>2 DEF Next

\* A new refusal of a request of whose address all have come in turn: those
\* that hold a token since the bucket was full have been admitted.
LEMMA RefusalIsDue ==
    ASSUME IInv, Next, NEW r \in Requests, pc[r] # "refused", pc'[r] = "refused",
           \A q \in before'[r] \cup {r} : Ip[q] = Ip[r] => ~Disturbed(q)'
    PROVE  \E t \in 0..reservedAt'[r] :
              (Cardinality(Admitted(Ip[r], t, reservedAt[r])') + 1) * Every
                  > Full + (reservedAt'[r] - t)
<1> DEFINE i == Ip[r]
<1>1. Known /\ BeforeEnded /\ TypeOK
  BY DEF IInv, Known
<1>2. Cancel(r)
  <2>1. pc' # pc
    BY <1>1
  <2>2. PICK x \in Requests : Request(x)
    BY <2>1 DEF Next, Tick
  <2>3. x = r
    BY <1>1, <2>2 DEF Request, Load, LoadOrStore, Reserve, Delay, Cancel, Goto, Ends, TypeOK
  <2> QED
    BY <1>1, <2>2, <2>3 DEF Request, Load, LoadOrStore, Reserve, Delay, Goto, Ends, TypeOK
<1>3. /\ pc[r] = "cancel" /\ pc' = [pc EXCEPT ![r] = "refused"]
      /\ endedAt' = [endedAt EXCEPT ![r] = now]
      /\ UNCHANGED <<now, clients, lim, timeToAct, reservedAt, before>>
  BY <1>2 DEF Cancel, Goto, Ends, local
<1>4. lim[r] \in Requests /\ i \in Ips /\ clients[i] = lim[r] /\ lim[r] # NoBucket
  BY <1>1, <1>3, BucketOf, RateLimitAssumption DEF HasBucket
<1>5. Orderly(i)
  <2>1. ASSUME NEW q \in Requests, Ip[q] = i, pc'[q] # "new" PROVE q \in before[r] \cup {r}
    <3>1. ~Disturbed(r)'
      BY <1>3
    <3>2. q = r \/ q \in before'[r] \/ r \in before'[q]
      BY <2>1, <3>1 DEF Disturbed
    <3>3. r \notin before[q]
      BY <1>1, <1>3, <2>1 DEF BeforeEnded, Ended
    <3> QED
      BY <1>3, <3>2, <3>3
  <2>2. ASSUME NEW q \in Requests, Ip[q] = i, pc'[q] # "new" PROVE Undisturbed(q)'
    <3>1. ~Disturbed(q)'
      BY <1>3, <2>1, <2>2
    <3>2. q \in Ended'
      BY <1>1, <1>3, <2>1, <2>2 DEF BeforeEnded, Ended, TypeOK
    <3> QED
      BY <3>1, <3>2 DEF Disturbed, Undisturbed, Ended
  <2>3. Orderly(i)'
    BY <2>2 DEF Orderly
  <2> QED
    BY <1>1, <2>3, OrderlyBefore DEF IInv
<1>6. PICK t \in 0..now : Owed(lim[r]) + Full - t <= Cardinality(HeldSince(i, t)) * Every
  BY <1>4, <1>5 DEF IInv, OwedIsHeld
<1>7. reservedAt[r] = now /\ reservedAt'[r] = now
  BY <1>3, <1>5 DEF Orderly, Undisturbed
<1>8. Owed(lim[r]) \in Int /\ Owed(lim[r]) > now /\ now \in Nat
  <2>1. timeToAct[r] > now /\ now \in Nat /\ timeToAct[r] \in Nat
    BY <1>1, <1>3, <1>7 DEF IInv, Clocks, TypeOK
  <2>2. Late(r)
    BY <1>3, <1>7, <2>1 DEF Late, Holds
  <2>3. timeToAct[r] <= Owed(lim[r]) /\ Owed(lim[r]) \in Int
    BY <1>1, <1>4, <2>2, OwedIs DEF IInv, Queued
  <2> QED
    BY <2>1, <2>3
<1> DEFINE A == Admitted(i, t, reservedAt[r])'
<1>9. HeldSince(i, t) \in SUBSET (A \cup {r}) /\ A \in SUBSET Requests /\ r \notin A
  <2>1. ASSUME NEW q \in HeldSince(i, t), q # r PROVE q \in A
    <3>1. q \in Requests /\ Ip[q] = i /\ Holds(q) /\ t <= reservedAt[q]
      BY <2>1 DEF HeldSince
    <3>2. q \in Ended
      BY <1>1, <1>3, <1>5, <2>1, <3>1, OneAtATime DEF Ended, Holds
    <3>3. pc'[q] = "admitted" /\ reservedAt'[q] = reservedAt[q] /\ reservedAt[q] <= now
      BY <1>1, <1>3, <2>1, <3>1, <3>2 DEF Ended, Holds, IInv, Clocks, TypeOK
    <3> QED
      BY <1>7, <3>1, <3>3 DEF Admitted
  <2>2. A \in SUBSET Requests /\ r \notin A
    BY DEF Admitted
  <2> QED
    BY <2>1, <2>2
<1> HIDE DEF A
<1>10. /\ Cardinality(HeldSince(i, t)) * Every <= Cardinality(A \cup {r}) * Every
       /\ Cardinality(HeldSince(i, t)) \in Nat
       /\ Cardinality(A \cup {r}) * Every = Cardinality(A) * Every + Every
       /\ Cardinality(A) * Every \in Nat /\ Cardinality(A) \in Nat
  BY <1>9, CountSubset, CountOneMore, Count
<1>11. (Cardinality(A) + 1) * Every = Cardinality(A) * Every + Every
  BY <1>10, Constant
<1>12. Cardinality(HeldSince(i, t)) * Every \in Nat
  BY <1>10, Constant
<1>13. (Cardinality(A) + 1) * Every > Full + (now - t)
  BY <1>6, <1>8, <1>10, <1>11, <1>12, Constant
<1> QED
  BY <1>7, <1>13 DEF A

\* A request that no other of its address overlapped, nor time passed under,
\* nor under those before it, is refused only if the rate would not have
\* allowed it: refused requests by themselves cost nothing.  (Delay, Cancel.)
THEOREM RefusedOnlyIfDue == Spec => []NoNeedlessRefusal
<1>1. Init => NoNeedlessRefusal
  BY DEF Init, NoNeedlessRefusal
<1>2. ASSUME IInv, NoNeedlessRefusal, Next PROVE NoNeedlessRefusal'
  <2> SUFFICES ASSUME NEW r \in Requests, pc'[r] = "refused",
                      \A q \in before'[r] \cup {r} : Ip[q] = Ip[r] => ~Disturbed(q)'
               PROVE  \E t \in 0..reservedAt'[r] :
                         (Cardinality(Admitted(Ip[r], t, reservedAt[r])') + 1) * Every
                             > Full + (reservedAt'[r] - t)
    BY DEF NoNeedlessRefusal, Full
  <2>1. CASE pc[r] # "refused"
    BY <1>2, <2>1, RefusalIsDue
  <2>2. CASE pc[r] = "refused"
    <3>1. Known /\ BeforeEnded /\ TypeOK
      BY <1>2 DEF IInv, Known
    <3>2. before'[r] = before[r] /\ reservedAt'[r] = reservedAt[r]
      BY <1>2, <2>2, <3>1, Answered DEF Ended
    <3>3. \A q \in before[r] \cup {r} : q \in Ended
      BY <2>2, <3>1 DEF BeforeEnded, Ended
    <3>4. \A q \in before[r] \cup {r} : Ip[q] = Ip[r] => ~Disturbed(q)
      BY <1>2, <3>1, <3>2, <3>3, Answered DEF Ended
    <3>5. PICK t \in 0..reservedAt[r] :
             (Cardinality(Admitted(Ip[r], t, reservedAt[r])) + 1) * Every > Full + (reservedAt[r] - t)
      BY <1>2, <2>2, <3>4 DEF NoNeedlessRefusal, Full
    <3> DEFINE S == Admitted(Ip[r], t, reservedAt[r])
               T == Admitted(Ip[r], t, reservedAt[r])'
    <3>6. S \in SUBSET T /\ T \in SUBSET Requests
      <4>1. ASSUME NEW q \in S PROVE q \in T
        <5>1. q \in Requests /\ q \in Ended
          BY <4>1 DEF Admitted, Ended
        <5>2. pc'[q] = pc[q] /\ reservedAt'[q] = reservedAt[q]
          BY <1>2, <3>1, <5>1, Answered
        <5> QED
          BY <3>2, <4>1, <5>1, <5>2 DEF Admitted
      <4> QED
        BY <4>1 DEF Admitted
    <3> HIDE DEF S, T
    <3>7. /\ Cardinality(S) \in Nat /\ Cardinality(T) \in Nat
          /\ Cardinality(S) * Every <= Cardinality(T) * Every
      BY <3>6, CountSubset
    <3>8. /\ (Cardinality(S) + 1) * Every = Cardinality(S) * Every + Every
          /\ (Cardinality(T) + 1) * Every = Cardinality(T) * Every + Every
          /\ Cardinality(S) * Every \in Nat /\ Cardinality(T) * Every \in Nat
      BY <3>7, Constant
    <3>9. reservedAt[r] \in Nat
      BY <3>1 DEF TypeOK
    <3>10. (Cardinality(T) + 1) * Every > Full + (reservedAt[r] - t)
      BY <3>5, <3>7, <3>8, <3>9, Constant DEF S
    <3> QED
      BY <3>2, <3>10 DEF T
  <2> QED
    BY <2>1, <2>2
<1>3. NoNeedlessRefusal /\ UNCHANGED vars => NoNeedlessRefusal'
  BY DEF vars, local, history, NoNeedlessRefusal, Disturbed, Admitted
<1> QED
  BY <1>1, <1>2, <1>3, Invariance, PTL DEF Spec

\* A request that was refused in time is let through when it comes again once
\* there would have been a token for it, and no other of its address in between:
\* all it had reserved has been given back.  (Reserve, Delay, Cancel.)
THEOREM AskingCostsNothing == Spec => []RetryOnceDue
<1>1. IInv => RetryOnceDue
  BY DEF IInv, Retried, RetryOnceDue, Ended
<1> QED
  BY <1>1, Invariance, PTL

==============================================================================
