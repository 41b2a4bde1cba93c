------------------------------ MODULE RateLimit ------------------------------
(***************************************************************************)
(* The limit on the public auth routes: one token bucket per address of a  *)
(* client, made by whichever request comes first, and a reservation that a *)
(* refused request gives back  (internal/middleware/ratelimit.go; the      *)
(* bucket itself is golang.org/x/time/rate, modelled as the middleware     *)
(* uses it: Reserve, Delay and Cancel of one token).                       *)
(*                                                                         *)
(* Time is counted in units, and so are tokens: a token is what flows in   *)
(* during Every units.  The bucket that request r makes is named r.  One   *)
(* route is modelled: each has a limiter of its own.                       *)
(***************************************************************************)
EXTENDS Integers, FiniteSets

CONSTANTS
    Requests,
    Ip,          \* Ip[r]: ClientIP of r
    Every,       \* units to refill a token (12 or 20 seconds)
    Burst,       \* tokens of a full bucket (5 or 3)
    Second,      \* units in a second, the unit of Retry-After
    MaxNow,      \* bound of the clock
    NoBucket

Ips == {Ip[r] : r \in Requests}

ASSUME RateLimitAssumption ==
    /\ Requests = DOMAIN Ip /\ IsFiniteSet(Requests)
    /\ Every \in Nat \ {0} /\ Burst \in Nat \ {0} /\ Second \in Nat \ {0}
    /\ MaxNow \in Nat
    /\ NoBucket \notin Requests

VARIABLES
    now,
    clients,     \* the sync.Map: bucket by address
    tokens,      \* a bucket: what it held, negative if owed,
    last,        \*   when it was last looked at,
    lastEvent,   \*   the latest time it has promised a token for
    pc,          \* where each request is
    lim,         \* the bucket it goes to
    timeToAct,   \* its reservation: when its token will be there
    delay,       \* how long from then it would have had to wait
    reservedAt,  \* history: when it reserved,
    endedAt,     \*   when it was answered,
    before       \*   and who had been answered when it began

bucket  == <<tokens, last, lastEvent>>
local   == <<lim, timeToAct, delay>>
history == <<reservedAt, endedAt, before>>
vars    == <<now, clients, bucket, pc, local, history>>

Ended == {r \in Requests : pc[r] \in {"admitted", "refused"}}

Init ==
    /\ now = 0
    /\ clients   = [i \in Ips |-> NoBucket]
    /\ tokens    = [b \in Requests |-> Burst * Every]
    /\ last      = [b \in Requests |-> 0]
    /\ lastEvent = [b \in Requests |-> 0]
    /\ pc        = [r \in Requests |-> "new"]
    /\ lim       = [r \in Requests |-> NoBucket]
    /\ timeToAct = [r \in Requests |-> 0]
    /\ delay     = [r \in Requests |-> 0]
    /\ reservedAt = [r \in Requests |-> 0]
    /\ endedAt    = [r \in Requests |-> 0]
    /\ before     = [r \in Requests |-> {}]

Lesser(a, b)  == IF a < b THEN a ELSE b
Greater(a, b) == IF a < b THEN b ELSE a

Goto(r, l) == pc' = [pc EXCEPT ![r] = l]

Ends(r, l) ==
    /\ Goto(r, l)
    /\ endedAt' = [endedAt EXCEPT ![r] = now]

-----------------------------------------------------------------------------
(* getLimiter.                                                             *)

Load(r) ==
    /\ pc[r] = "new"
    /\ Goto(r, IF clients[Ip[r]] = NoBucket THEN "store" ELSE "reserve")
    /\ lim' = [lim EXCEPT ![r] = clients[Ip[r]]]
    /\ before' = [before EXCEPT ![r] = Ended]
    /\ UNCHANGED <<now, clients, bucket, timeToAct, delay, reservedAt, endedAt>>

\* Mutant: Store in place of LoadOrStore.
Stored(r) == r

\* What LoadOrStore leaves in the map and returns.
LoadedOrStored(r) == IF clients[Ip[r]] = NoBucket THEN r ELSE clients[Ip[r]]

LoadOrStore(r) ==
    /\ pc[r] = "store"
    /\ Goto(r, "reserve")
    /\ clients' = [clients EXCEPT ![Ip[r]] = LoadedOrStored(r)]
    /\ lim' = [lim EXCEPT ![r] = LoadedOrStored(r)]
    /\ UNCHANGED <<now, bucket, timeToAct, delay, history>>

-----------------------------------------------------------------------------
(* The limiter.                                                            *)

\* advance: what b holds by now.
Advanced(b) == Lesser(tokens[b] + (now - last[b]), Burst * Every)

Reserve(r) ==
    /\ pc[r] = "reserve"
    /\ LET b    == lim[r]
           left == Advanced(b) - Every
           act  == now + Greater(-left, 0)
       IN  /\ tokens'    = [tokens    EXCEPT ![b] = left]
           /\ last'      = [last      EXCEPT ![b] = now]
           /\ lastEvent' = [lastEvent EXCEPT ![b] = act]
           /\ timeToAct' = [timeToAct EXCEPT ![r] = act]
    /\ Goto(r, "delay")
    /\ reservedAt' = [reservedAt EXCEPT ![r] = now]
    /\ UNCHANGED <<now, clients, lim, delay, endedAt, before>>

\* The clock is read again.
Delay(r) ==
    /\ pc[r] = "delay"
    /\ delay' = [delay EXCEPT ![r] = Greater(timeToAct[r] - now, 0)]
    /\ IF timeToAct[r] > now THEN Goto(r, "cancel") /\ UNCHANGED endedAt
                             ELSE Ends(r, "admitted")
    /\ UNCHANGED <<now, clients, bucket, lim, timeToAct, reservedAt, before>>

\* Mutant: the reservation is not given back.
KeptReservation(r) == 0

\* What Cancel gives back: what nobody who reserved later has been promised,
\* and nothing once the token is there.
Restored(r) ==
    IF timeToAct[r] < now THEN 0
    ELSE Greater(Every - (lastEvent[lim[r]] - timeToAct[r]), 0)

Cancel(r) ==
    /\ pc[r] = "cancel"
    /\ Ends(r, "refused")
    /\ LET b == lim[r]
       IN  IF Restored(r) = 0 THEN UNCHANGED bucket
           ELSE /\ tokens' = [tokens EXCEPT ![b] = Lesser(Advanced(b) + Restored(r), Burst * Every)]
                /\ last' = [last EXCEPT ![b] = now]
                /\ lastEvent' = IF lastEvent[b] = timeToAct[r] /\ timeToAct[r] - Every >= now
                                THEN [lastEvent EXCEPT ![b] = timeToAct[r] - Every]
                                ELSE lastEvent
    /\ UNCHANGED <<now, clients, local, reservedAt, before>>

Tick ==
    /\ now < MaxNow /\ now' = now + 1
    /\ UNCHANGED <<clients, bucket, pc, local, history>>

Request(r) == Load(r) \/ LoadOrStore(r) \/ Reserve(r) \/ Delay(r) \/ Cancel(r)

Next == Tick \/ \E r \in Requests : Request(r)

Spec == Init /\ [][Next]_vars

-----------------------------------------------------------------------------
(* Properties.                                                             *)

TypeOK ==
    /\ now \in 0..MaxNow
    /\ clients \in [Ips -> Requests \cup {NoBucket}]
    /\ tokens \in [Requests -> Int]
    /\ last \in [Requests -> 0..MaxNow]
    /\ lastEvent \in [Requests -> Nat]
    /\ pc \in [Requests -> {"new", "store", "reserve", "delay", "cancel", "admitted", "refused"}]
    /\ lim \in [Requests -> Requests \cup {NoBucket}]
    /\ timeToAct \in [Requests -> Nat] /\ delay \in [Requests -> Nat]
    /\ reservedAt \in [Requests -> 0..MaxNow] /\ endedAt \in [Requests -> 0..MaxNow]
    /\ before \in [Requests -> SUBSET Requests]

HasBucket(r) == pc[r] \notin {"new", "store"}

\* However their first requests race, the clients of one address share one
\* bucket, and no other client takes from it.  (getLimiter.)
OneBucket ==
    \A r, q \in Requests :
        HasBucket(r) /\ HasBucket(q) => (lim[r] = lim[q] <=> Ip[r] = Ip[q])

\* A bucket is in the map under its maker's address, and stays there: whoever
\* has one has that one.
BucketsKnown ==
    /\ \A i \in Ips : clients[i] # NoBucket => Ip[clients[i]] = i
    /\ \A r \in Requests : HasBucket(r) => lim[r] = clients[Ip[r]] /\ lim[r] # NoBucket

Admitted(i, t, u) ==
    {r \in Requests : Ip[r] = i /\ pc[r] = "admitted" /\ t <= reservedAt[r] /\ reservedAt[r] <= u}

\* In no stretch of time are more requests of an address let through than its
\* burst and what flows in meanwhile, whatever overlaps and is given back.
\* (PerIP; "a token bucket of rps refills per second with a burst ceiling".)
AdmittedBounded ==
    \A i \in Ips, t \in 0..now :
        Cardinality(Admitted(i, t, now)) * Every <= Burst * Every + (now - t)

\* A request of one address that was not alone, or that time passed under.
Disturbed(r) ==
    \/ endedAt[r] # reservedAt[r]
    \/ \E q \in Requests \ {r} :
          Ip[q] = Ip[r] /\ pc[q] # "new" /\ q \notin before[r] /\ r \notin before[q]

\* A request is refused although the rate would have allowed it only if it, or
\* another before it, overlapped another of the same address or was held up
\* between Reserve and Cancel: refused requests by themselves cost nothing.
NoNeedlessRefusal ==
    \A r \in Requests :
        pc[r] = "refused" /\ (\A q \in before[r] \cup {r} : Ip[q] = Ip[r] => ~Disturbed(q)) =>
            \E t \in 0..reservedAt[r] :
                (Cardinality(Admitted(Ip[r], t, reservedAt[r])) + 1) * Every
                    > Burst * Every + (reservedAt[r] - t)

\* Since r began, no other of its address, but q, has reserved.
NoneBut(r, q) ==
    \A x \in Requests \ {r, q} :
        Ip[x] = Ip[r] => x \in before[r] \/ pc[x] \in {"new", "store", "reserve"}

\* r was refused before there would have been a token for it.
RefusedInTime(r) == pc[r] = "refused" /\ endedAt[r] <= timeToAct[r]

\* A request that was refused in time is let through when it comes again once
\* there would have been a token for it, and no other of its address in between:
\* it has not lost by asking.  (Reserve, Delay, Cancel, and the refusal.)
RetryOnceDue ==
    \A r, q \in Requests :
        /\ RefusedInTime(r) /\ NoneBut(r, q)
        /\ Ip[q] = Ip[r] /\ r \in before[q] /\ q \in Ended
        /\ reservedAt[q] >= timeToAct[r]
        => pc[q] = "admitted"

-----------------------------------------------------------------------------
(* The inductive invariant, in parts.                                      *)

Full == Burst * Every

\* r has a reservation that it has not given back.
Holds(r) == pc[r] \in {"delay", "cancel", "admitted"}

HeldSince(i, t) == {r \in Requests : Ip[r] = i /\ Holds(r) /\ t <= reservedAt[r]}

\* When all that b has given away will have flowed in: now, if it is just empty.
Owed(b) == now - Advanced(b)

\* Its token was not there when r reserved, nor is it now (but may be just so).
Late(r) == Holds(r) /\ reservedAt[r] < timeToAct[r] /\ now <= timeToAct[r]

\* The times are in order, and a bucket not in the map is as made.
Clocks ==
    /\ \A b \in Requests : last[b] <= now
    /\ \A b \in Requests : clients[Ip[b]] # b => tokens[b] = Full /\ last[b] = 0
    /\ \A r \in Requests :
          /\ reservedAt[r] <= now
          /\ Holds(r) => reservedAt[r] <= timeToAct[r]
          /\ pc[r] = "cancel" => reservedAt[r] < timeToAct[r]
          /\ pc[r] = "admitted" => timeToAct[r] <= now

\* Tokens that are still to come are promised a token's time apart, those
\* reserved later behind the others; a bucket has promised nothing beyond
\* lastEvent and owes all it has promised.
Queued ==
    \A r \in Requests : Late(r) =>
        /\ timeToAct[r] <= lastEvent[lim[r]]
        /\ timeToAct[r] <= Owed(lim[r])
        /\ \A q \in Requests \ {r} : Ip[q] = Ip[r] =>
              /\ Late(q) => \/ timeToAct[q] + Every <= timeToAct[r]
                            \/ timeToAct[r] + Every <= timeToAct[q]
              /\ Holds(q) /\ reservedAt[r] < reservedAt[q] =>
                    Late(q) /\ timeToAct[r] + Every <= timeToAct[q]

\* What is held since t, beyond a full bucket, the bucket owes.
HeldIsOwed ==
    \A i \in Ips : clients[i] # NoBucket =>
        \A t \in 0..now : Cardinality(HeldSince(i, t)) * Every <= Owed(clients[i]) + Full - t

DueBy(i, t, u) == {r \in HeldSince(i, t) : timeToAct[r] <= u}

\* What those who reserved since t are promised, by now or by a time still to
\* come, is no more than the rate gives in between.
PromisesBounded ==
    \A i \in Ips, t \in 0..now :
        \A u \in {now} \cup {timeToAct[q] : q \in {q \in Requests : Late(q) /\ Ip[q] = i}} :
            Cardinality(DueBy(i, t, u)) * Every <= Full + (u - t)

\* So far r has overlapped no other of its address, nor has time passed under it.
Undisturbed(r) ==
    /\ \A q \in Requests \ {r} :
          Ip[q] = Ip[r] /\ pc[q] # "new" => q \in before[r] \/ r \in before[q]
    /\ pc[r] \in {"delay", "cancel"} => reservedAt[r] = now
    /\ r \in Ended => endedAt[r] = reservedAt[r]

Orderly(i) == \A r \in Requests : Ip[r] = i /\ pc[r] # "new" => Undisturbed(r)

\* As long as the requests of an address are orderly, its bucket owes nothing
\* but what they hold since some time at which it was full.
OwedIsHeld ==
    \A i \in Ips : clients[i] # NoBucket /\ Orderly(i) =>
        /\ \E t \in 0..now : Owed(clients[i]) + Full - t <= Cardinality(HeldSince(i, t)) * Every
        /\ \A r \in Requests :
              Ip[r] = i /\ pc[r] \in {"delay", "cancel"} => lastEvent[lim[r]] = timeToAct[r]

BeforeEnded == \A r \in Requests : before[r] \subseteq Ended \ {r}

\* With no other going to its bucket, what it owes is due when r is promised its
\* token, and a token's time earlier when r has given that back.
Refunded ==
    \A r \in Requests : NoneBut(r, r) =>
        /\ pc[r] \in {"delay", "cancel"} =>
              /\ lastEvent[lim[r]] = timeToAct[r]
              /\ Owed(lim[r]) <= Greater(timeToAct[r], now - Full)
        /\ RefusedInTime(r) => Owed(lim[r]) <= Greater(timeToAct[r] - Every, now - Full)

\* Who comes again as RetryOnceDue says has its token at once.
Retried ==
    \A r, q \in Requests :
        /\ RefusedInTime(r) /\ NoneBut(r, q)
        /\ Ip[q] = Ip[r] /\ r \in before[q] /\ pc[q] \notin {"new", "store", "reserve"}
        /\ reservedAt[q] >= timeToAct[r]
        => pc[q] \in {"delay", "admitted"} /\ timeToAct[q] <= reservedAt[q]

\* OneBucket follows from BucketsKnown, AdmittedBounded from PromisesBounded,
\* RetryOnceDue from Retried; NoNeedlessRefusal is inductive given the rest.
IInv ==
    /\ TypeOK /\ BucketsKnown
    /\ Clocks /\ Queued /\ HeldIsOwed /\ PromisesBounded
    /\ OwedIsHeld /\ BeforeEnded
    /\ Refunded /\ Retried

-----------------------------------------------------------------------------
(* What the comments say, and the code does not keep.                      *)

\* delay.Round(time.Second), at least one second, in units.
RetryAfter(r) == Greater((2 * delay[r] + Second) \div (2 * Second), 1) * Second

\* ratelimit.go:45 "The client can retry after Retry-After": a request that
\* comes that late, with none of its address in between, is let through.
RetryAfterWorks ==
    \A r, q \in Requests :
        /\ pc[r] = "refused" /\ pc[q] \in {"admitted", "refused"}
        /\ Ip[q] = Ip[r] /\ r \in before[q] /\ reservedAt[q] >= endedAt[r] + RetryAfter(r)
        /\ \A x \in Requests \ {r, q} : Ip[x] = Ip[r] /\ pc[x] # "new" => x \in before[r]
        => pc[q] = "admitted"
==============================================================================
