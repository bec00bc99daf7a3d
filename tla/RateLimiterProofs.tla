------------------------- MODULE RateLimiterProofs --------------------------
(***************************************************************************)
(* Proofs about RateLimiter, for every number of threads and clients and   *)
(* every configuration in which an idle bucket refills before its eviction.*)
(***************************************************************************)
EXTENDS RateLimiter, TLAPS

\* A thread that waits for mutex_ has a stamp at most MaxLag old.
StampsAreRecent ==
  \A t \in Threads : pc[t] = "called" => /\ client[t] \in Clients
                                         /\ stamp[t] <= clock
                                         /\ clock - stamp[t] <= MaxLag

\* The ideal bucket holds at least what the bucket would hold now.
IdealCoversBucket ==
  \A c \in known : ideal[c] >= Min2(IdealCapacity, Effective(c))

\* It also regains a unit each tick from the last access on, so that it is full
\* by the time a bucket is evicted and while a client has none.
IdealCoversEviction ==
  /\ \A c \in known : ideal[c] >= Min2(IdealCapacity, clock - buckets[c].lastAccess - MaxLag)
  /\ \A c \in Clients \ known : ideal[c] = IdealCapacity
  /\ \A c \in Clients : ideal[c] <= IdealCapacity

Inv == /\ TypeOK
       /\ BucketsWithinBounds
       /\ StampsAreRecent
       /\ IdealCoversBucket
       /\ IdealCoversEviction

USE UnitsAssumption DEF IdealCapacity, Min2

\* The constructor's state satisfies the invariant.
LEMMA InvInit == Init => Inv
  BY DEF Init, Inv, TypeOK, Buckets, EmptyBucket, BucketsWithinBounds, StampsAreRecent,
     IdealCoversBucket, IdealCoversEviction, None

\* The bucket allow() works on is within bounds, and the ideal bucket covers it
\* however old the stamp is.
LEMMA BucketForFacts ==
  ASSUME Inv, NEW t \in Threads, pc[t] = "called",
         NEW c, c = client[t], NEW b, b = BucketFor(c, stamp[t])
  PROVE  /\ c \in Clients
         /\ b \in Buckets
         /\ b.tokens <= Capacity
         /\ b.lastRefill <= clock
         /\ b.tokens + (clock - b.lastRefill) <= IdealCapacity
         /\ b.tokens + (clock - b.lastRefill) <= ideal[c]
<1> USE DEF Inv, TypeOK
<1> DEFINE s == stamp[t]
<1>1. c \in Clients /\ s \in Nat /\ s <= clock /\ clock - s <= MaxLag
  BY DEF StampsAreRecent
<1>2. CASE c \in Kept(s)
  <2>1. c \in known
    BY <1>2 DEF Kept
  <2>2. /\ buckets[c] \in Buckets /\ buckets[c].tokens <= Capacity /\ buckets[c].lastRefill <= clock
        /\ ideal[c] >= Min2(IdealCapacity, Effective(c))
    BY <1>1, <2>1 DEF BucketsWithinBounds, IdealCoversBucket
  <2>3. b = Refill(buckets[c], s)
    BY <1>2 DEF BucketFor
  <2>4. CASE s <= buckets[c].lastRefill
    BY <1>1, <2>2, <2>3, <2>4 DEF Refill, Buckets, Effective
  <2>5. CASE ~(s <= buckets[c].lastRefill)
    <3>1. /\ b.tokens = Min2(Capacity, buckets[c].tokens + (s - buckets[c].lastRefill))
          /\ b.lastRefill = s
          /\ b.lastAccess = buckets[c].lastAccess
      BY <2>2, <2>3, <2>5 DEF Refill, Buckets
    <3>2. buckets[c].tokens \in Nat /\ buckets[c].lastRefill \in Nat /\ buckets[c].lastAccess \in Nat
      BY <2>2 DEF Buckets
    <3>3. b.tokens \in Nat /\ b.tokens <= buckets[c].tokens + (s - buckets[c].lastRefill)
          /\ b.tokens <= Capacity
      BY <1>1, <2>5, <3>1, <3>2
    <3>4. b \in Buckets
      BY <1>1, <2>2, <2>3, <2>5, <3>1, <3>2, <3>3 DEF Refill, Buckets
    <3>5. QED
      BY <1>1, <2>2, <3>1, <3>2, <3>3, <3>4 DEF Effective
  <2>6. QED
    BY <2>4, <2>5
<1>3. CASE c \notin Kept(s)
  <2>1. b = [tokens |-> Capacity, lastRefill |-> s, lastAccess |-> s]
    BY <1>3 DEF BucketFor
  <2>2. ideal[c] = IdealCapacity
    <3>1. CASE c \notin known
      BY <1>1, <3>1 DEF IdealCoversEviction
    <3>2. CASE c \in known
      <4>1. s - buckets[c].lastAccess > EntryTtl /\ buckets[c].lastAccess \in Nat
        BY <1>1, <1>3, <3>2 DEF Kept, Buckets
      <4>2. QED
        BY <1>1, <3>2, <4>1, TtlAssumption DEF IdealCoversEviction
    <3>3. QED
      BY <3>1, <3>2
  <2>3. QED
    BY <1>1, <2>1, <2>2 DEF Buckets
<1>4. QED
  BY <1>2, <1>3

\* The client whose request is decided, and the others.
LEMMA TouchStep ==
  ASSUME Inv, NEW t \in Threads, pc[t] = "called", NEW c, c = client[t],
         NEW b, b = BucketFor(c, stamp[t]), NEW n \in Nat, n <= b.tokens, Touch(t, n),
         ideal' = [ideal EXCEPT ![c] = @ - (b.tokens - n)],
         clock' = clock
  PROVE  /\ buckets' \in [Clients -> Buckets] /\ known' \subseteq Clients /\ lastCleanup' \in Nat
         /\ ideal' \in [Clients -> Int]
         /\ BucketsWithinBounds' /\ IdealCoversBucket' /\ IdealCoversEviction'
<1> USE DEF Inv, TypeOK
<1> DEFINE s == stamp[t]
<1>1. /\ c \in Clients /\ b \in Buckets /\ b.tokens <= Capacity /\ b.lastRefill <= clock
      /\ b.tokens + (clock - b.lastRefill) <= IdealCapacity
      /\ b.tokens + (clock - b.lastRefill) <= ideal[c]
  BY BucketForFacts
<1>2. s \in Nat /\ s <= clock /\ clock - s <= MaxLag
  BY DEF StampsAreRecent
<1>3. Kept(s) \subseteq known
  BY DEF Kept
<1>4. /\ buckets' \in [Clients -> Buckets] /\ known' \subseteq Clients /\ lastCleanup' \in Nat
      /\ ideal' \in [Clients -> Int]
  <2>1. [b EXCEPT !.tokens = n, !.lastAccess = s] \in Buckets
    BY <1>1, <1>2 DEF Buckets
  <2>2. EmptyBucket \in Buckets
    BY DEF EmptyBucket, Buckets
  <2>3. buckets' \in [Clients -> Buckets]
    <3>1. buckets' = [d \in Clients |->
                        IF d = c THEN [b EXCEPT !.tokens = n, !.lastAccess = s]
                        ELSE IF d \in Kept(s) THEN buckets[d] ELSE EmptyBucket]
      BY DEF Touch
    <3>2. QED
      BY <2>1, <2>2, <3>1
  <2>4. known' \subseteq Clients
    BY <1>1, <1>3 DEF Touch
  <2>5. lastCleanup' \in Nat
    BY <1>2 DEF Touch
  <2>6. ideal' \in [Clients -> Int]
    <3>1. ideal[c] - (b.tokens - n) \in Int
      BY <1>1 DEF Buckets
    <3>2. QED
      BY <1>1, <3>1
  <2>7. QED
    BY <2>3, <2>4, <2>5, <2>6
<1>5. /\ buckets'[c].tokens = n /\ buckets'[c].lastRefill = b.lastRefill
      /\ buckets'[c].lastAccess = s /\ ideal'[c] = ideal[c] - (b.tokens - n)
  BY <1>1 DEF Touch, Buckets
<1>6. \A d \in Clients : d # c => ideal'[d] = ideal[d]
  BY <1>1
<1>7. \A d \in Clients : d # c => (d \in known' <=> d \in Kept(s))
  BY <1>1 DEF Touch
<1>8. \A d \in Kept(s) : d # c => buckets'[d] = buckets[d]
  BY <1>3 DEF Touch
<1>9. BucketsWithinBounds'
  <2> SUFFICES ASSUME NEW d \in known'
               PROVE  /\ buckets'[d].tokens <= Capacity
                      /\ buckets'[d].lastRefill <= clock
                      /\ buckets'[d].lastAccess <= clock
    BY DEF BucketsWithinBounds
  <2>1. CASE d = c
    BY <1>1, <1>2, <1>5, <2>1 DEF Buckets
  <2>2. CASE d # c
    BY <1>3, <1>4, <1>7, <1>8, <2>2 DEF BucketsWithinBounds
  <2>3. QED
    BY <2>1, <2>2
<1>10. IdealCoversBucket'
  <2> SUFFICES ASSUME NEW d \in known'
               PROVE  ideal'[d] >= Min2(IdealCapacity, Effective(d)')
    BY DEF IdealCoversBucket
  <2>1. CASE d = c
    BY <1>1, <1>5, <2>1 DEF Buckets, Effective
  <2>2. CASE d # c
    BY <1>3, <1>4, <1>6, <1>7, <1>8, <2>2 DEF IdealCoversBucket, Effective
  <2>3. QED
    BY <2>1, <2>2
<1>11. IdealCoversEviction'
  <2>1. ASSUME NEW d \in known'
        PROVE  ideal'[d] >= Min2(IdealCapacity, clock' - buckets'[d].lastAccess - MaxLag)
    <3>1. CASE d = c
      BY <1>1, <1>2, <1>5, <3>1 DEF Buckets
    <3>2. CASE d # c
      BY <1>3, <1>4, <1>6, <1>7, <1>8, <3>2 DEF IdealCoversEviction
    <3>3. QED
      BY <3>1, <3>2
  <2>2. ASSUME NEW d \in Clients \ known' PROVE ideal'[d] = IdealCapacity
    <3>1. d # c /\ d \notin Kept(s) /\ ideal'[d] = ideal[d]
      BY <1>6, <2>2 DEF Touch
    <3>2. CASE d \notin known
      BY <3>1, <3>2 DEF IdealCoversEviction
    <3>3. CASE d \in known
      <4>1. s - buckets[d].lastAccess > EntryTtl /\ buckets[d].lastAccess \in Nat
        BY <1>2, <3>1, <3>3 DEF Kept, Buckets
      <4>2. QED
        BY <1>2, <3>1, <3>3, <4>1, TtlAssumption DEF IdealCoversEviction
    <3>4. QED
      BY <3>2, <3>3
  <2>3. ASSUME NEW d \in Clients PROVE ideal'[d] <= IdealCapacity
    <3>1. CASE d = c
      BY <1>1, <1>5, <3>1 DEF IdealCoversEviction, Buckets
    <3>2. CASE d # c
      BY <1>6, <3>2 DEF IdealCoversEviction
    <3>3. QED
      BY <3>1, <3>2
  <2>4. QED
    BY <2>1, <2>2, <2>3 DEF IdealCoversEviction
<1>12. QED
  BY <1>4, <1>9, <1>10, <1>11

\* retry_after() is a whole number of seconds.
LEMMA RetryAfterType ==
  ASSUME TypeOK, BucketsWithinBounds, NEW c \in Clients
  PROVE  RetryAfter(c) \in Nat
<1> DEFINE b == Refill(buckets[c], clock)
<1>1. CASE c \notin known \/ b.tokens >= Cost
  BY <1>1 DEF RetryAfter
<1>2. CASE ~(c \notin known \/ b.tokens >= Cost)
  <2>1. buckets[c].tokens \in Nat /\ buckets[c].lastRefill \in Nat /\ clock \in Nat
    BY DEF TypeOK, Buckets
  <2>2. b.tokens \in Nat
    <3>1. CASE clock <= buckets[c].lastRefill
      BY <2>1, <3>1 DEF Refill
    <3>2. CASE ~(clock <= buckets[c].lastRefill)
      <4>1. b.tokens = Min2(Capacity, buckets[c].tokens + (clock - buckets[c].lastRefill))
        BY <3>2 DEF Refill, TypeOK, Buckets
      <4>2. QED
        BY <2>1, <3>2, <4>1
    <3>3. QED
      BY <3>1, <3>2
  <2>3. Cost - b.tokens \in Nat
    BY <1>2, <2>2
  <2> HIDE DEF b
  <2>4. \A n \in Nat, k \in Nat \ {0} : (n + k - 1) \div k \in Nat
    BY SMT
  <2>5. CeilDiv(Cost - b.tokens, TicksPerSecond) \in Nat
    BY <2>3, <2>4 DEF CeilDiv
  <2>6. QED
    BY <1>2, <2>5 DEF RetryAfter, b
<1>3. QED
  BY <1>1, <1>2

\* Every step of the limiter, its threads and the clock preserves it.
LEMMA InvStep == Inv /\ [Next]_vars => Inv'
<1> SUFFICES ASSUME Inv, [Next]_vars PROVE Inv'
  OBVIOUS
<1>1. ASSUME NEW t \in Threads, NEW c \in Clients, Arrive(t, c) PROVE Inv'
  <2>1. TypeOK'
    BY <1>1 DEF Inv, TypeOK, Arrive
  <2>2. StampsAreRecent'
    BY <1>1 DEF Inv, TypeOK, Arrive, StampsAreRecent
  <2>3. QED
    BY <1>1, <2>1, <2>2 DEF Inv, Arrive, BucketsWithinBounds, IdealCoversBucket, Effective,
       IdealCoversEviction
<1>2. ASSUME NEW t \in Threads, Grant(t) PROVE Inv'
  <2> DEFINE c == client[t]
             b == BucketFor(c, stamp[t])
  <2>1. c \in Clients /\ b \in Buckets
    BY <1>2, BucketForFacts DEF Grant
  <2>2. b.tokens \in Nat /\ b.tokens - Cost \in Nat /\ b.tokens - Cost <= b.tokens
        /\ b.tokens - (b.tokens - Cost) = Cost
    BY <1>2, <2>1 DEF Grant, Buckets
  <2>3. /\ pc[t] = "called" /\ Touch(t, b.tokens - Cost) /\ clock' = clock
        /\ ideal' = [ideal EXCEPT ![c] = @ - Cost]
    BY <1>2 DEF Grant
  <2>4. ideal' = [ideal EXCEPT ![c] = @ - (b.tokens - (b.tokens - Cost))]
    BY <2>2, <2>3
  <2> HIDE DEF b
  <2>5. /\ buckets' \in [Clients -> Buckets] /\ known' \subseteq Clients /\ lastCleanup' \in Nat
        /\ ideal' \in [Clients -> Int]
        /\ BucketsWithinBounds' /\ IdealCoversBucket' /\ IdealCoversEviction'
    BY <2>2, <2>3, <2>4, TouchStep DEF b
  <2>6. TypeOK'
    BY <1>2, <2>1, <2>5 DEF Inv, TypeOK, Grant, Done, None
  <2>7. StampsAreRecent'
    BY <1>2 DEF Inv, TypeOK, Grant, Done, StampsAreRecent
  <2>8. QED
    BY <2>5, <2>6, <2>7 DEF Inv
<1>3. ASSUME NEW t \in Threads, Deny(t) PROVE Inv'
  <2> DEFINE c == client[t]
             b == BucketFor(c, stamp[t])
  <2>1. c \in Clients /\ b \in Buckets
    BY <1>3, BucketForFacts DEF Deny
  <2>2. b.tokens \in Nat /\ b.tokens <= b.tokens /\ b.tokens - b.tokens = 0
    BY <2>1 DEF Buckets
  <2>3. /\ pc[t] = "called" /\ Touch(t, b.tokens) /\ clock' = clock /\ ideal' = ideal
    BY <1>3 DEF Deny
  <2>4. ideal' = [ideal EXCEPT ![c] = @ - (b.tokens - b.tokens)]
    BY <2>1, <2>2, <2>3 DEF Inv, TypeOK
  <2> HIDE DEF b
  <2>5. /\ buckets' \in [Clients -> Buckets] /\ known' \subseteq Clients /\ lastCleanup' \in Nat
        /\ ideal' \in [Clients -> Int]
        /\ BucketsWithinBounds' /\ IdealCoversBucket' /\ IdealCoversEviction'
    BY <2>2, <2>3, <2>4, TouchStep DEF b
  <2>6. TypeOK'
    BY <1>3, <2>1, <2>5 DEF Inv, TypeOK, Deny
  <2>7. StampsAreRecent'
    BY <1>3 DEF Inv, TypeOK, Deny, StampsAreRecent
  <2>8. QED
    BY <2>5, <2>6, <2>7 DEF Inv
<1>4. ASSUME NEW t \in Threads, Refuse(t) PROVE Inv'
  <2>1. UNCHANGED <<clock, buckets, known, lastCleanup, ideal>> /\ Done(t)
    BY <1>4 DEF Refuse
  <2>2. promise' \in [Clients -> Nat \cup {None}]
    <3> DEFINE c == client[t]
    <3>1. CASE c \in Clients
      <4>1. RetryAfter(c) \in Nat
        BY <3>1, RetryAfterType DEF Inv
      <4>2. \A m, k \in Nat : m * k \in Nat
        BY SMT
      <4>3. clock + RetryAfter(c) * TicksPerSecond \in Nat
        BY <4>1, <4>2 DEF Inv, TypeOK
      <4>4. QED
        BY <1>4, <3>1, <4>3 DEF Refuse, Inv, TypeOK
    <3>2. CASE c \notin Clients
      BY <1>4, <3>2 DEF Refuse, Inv, TypeOK
    <3>3. QED
      BY <3>1, <3>2
  <2>3. TypeOK'
    BY <2>1, <2>2 DEF Inv, TypeOK, Done
  <2>4. StampsAreRecent'
    BY <2>1 DEF Inv, TypeOK, Done, StampsAreRecent
  <2>5. QED
    BY <2>1, <2>3, <2>4 DEF Inv, BucketsWithinBounds, IdealCoversBucket, Effective,
       IdealCoversEviction
<1>5. ASSUME Tick PROVE Inv'
  <2>1. /\ UNCHANGED <<buckets, known, lastCleanup, pc, client, stamp, promise>>
        /\ clock' = clock + 1 /\ ideal' = [c \in Clients |-> Min2(IdealCapacity, ideal[c] + 1)]
    BY <1>5 DEF Tick
  <2>2. TypeOK'
    BY <2>1 DEF Inv, TypeOK
  <2>3. StampsAreRecent'
    BY <1>5, <2>1 DEF Inv, TypeOK, StampsAreRecent, Tick
  <2>4. \A c \in Clients : /\ buckets[c].tokens \in Nat /\ buckets[c].lastRefill \in Nat
                           /\ buckets[c].lastAccess \in Nat /\ ideal[c] \in Int /\ clock \in Nat
    BY DEF Inv, TypeOK, Buckets
  <2>5. BucketsWithinBounds'
    BY <2>1, <2>4 DEF Inv, TypeOK, BucketsWithinBounds
  <2>6. IdealCoversBucket'
    BY <2>1, <2>4 DEF Inv, TypeOK, IdealCoversBucket, Effective
  <2>7. IdealCoversEviction'
    BY <2>1, <2>4 DEF Inv, TypeOK, IdealCoversEviction
  <2>8. QED
    BY <2>2, <2>3, <2>5, <2>6, <2>7 DEF Inv
<1>6. CASE UNCHANGED vars
  BY <1>6 DEF vars, Inv, TypeOK, BucketsWithinBounds, StampsAreRecent, IdealCoversBucket,
     Effective, IdealCoversEviction
<1>7. QED
  BY <1>1, <1>2, <1>3, <1>4, <1>5, <1>6 DEF Next

\* The inductive invariant holds in every reachable state.
THEOREM LimiterInvariant == Spec => []Inv
  BY InvInit, InvStep, PTL DEF Spec

\* The limiter's fields, its threads and the history keep their types.
THEOREM TypeCorrect == Spec => []TypeOK
<1>1. Inv => TypeOK
  BY DEF Inv
<1>2. QED
  BY <1>1, LimiterInvariant, PTL

\* No bucket ever exceeds max_tokens or is dated in the future, for any number
\* of threads that reach mutex_ in any order.
THEOREM BoundsCorrect == Spec => []BucketsWithinBounds
<1>1. Inv => BucketsWithinBounds
  BY DEF Inv
<1>2. QED
  BY <1>1, LimiterInvariant, PTL

\* No client ever overdraws its ideal bucket: in any window of time the limiter
\* grants at most the burst, the refill of that time and MaxLag units more.
THEOREM GrantsBounded == Spec => []NeverOvergranted
<1>1. Inv => NeverOvergranted
  <2> SUFFICES ASSUME Inv, NEW c \in Clients PROVE ideal[c] >= 0
    BY DEF NeverOvergranted
  <2>1. CASE c \in known
    <3>1. /\ buckets[c].tokens \in Nat /\ buckets[c].lastRefill \in Nat /\ clock \in Nat
          /\ ideal[c] \in Int /\ buckets[c].lastRefill <= clock
      BY <2>1 DEF Inv, TypeOK, Buckets, BucketsWithinBounds
    <3>2. QED
      BY <2>1, <3>1 DEF Inv, IdealCoversBucket, Effective
  <2>2. CASE c \notin known
    BY <2>2 DEF Inv, IdealCoversEviction
  <2>3. QED
    BY <2>1, <2>2
<1>2. QED
  BY <1>1, LimiterInvariant, PTL

-----------------------------------------------------------------------------
(* Retry-After *)

\* A client that was told to come back has the token when that time comes, or
\* already holds it.
PromiseCovered ==
  \A c \in known : promise[c] # None =>
    \/ buckets[c].tokens >= Cost
    \/ buckets[c].tokens + (promise[c] - buckets[c].lastRefill) >= Cost

\* No client was told anything yet.
LEMMA PromiseInit == Init => PromiseCovered
  BY DEF Init, PromiseCovered

\* Rounding up to whole seconds never falls short.
LEMMA CeilDivCovers ==
  ASSUME NEW n \in Nat, NEW k \in Nat \ {0}
  PROVE  CeilDiv(n, k) \in Nat /\ CeilDiv(n, k) * k >= n
<1> DEFINE m == n + k - 1
           q == m \div k
<1>1. m \in Nat /\ q \in Nat
  BY SMT
<1>2. m = k * q + (m % k) /\ m % k \in 0..(k - 1)
  BY <1>1, SMT
<1>3. k * q \in Int /\ q * k = k * q
  BY <1>1, SMT
<1>4. QED
  BY <1>1, <1>2, <1>3 DEF CeilDiv

\* Whatever bucket a denied request leaves behind, it gains the missing units
\* no later than the one it found: an uncapped refill moves units and date
\* together, and a capped one or a new bucket is never denied.
LEMMA DeniedBucket ==
  ASSUME Inv, NEW t \in Threads, pc[t] = "called", NEW c, c = client[t],
         NEW b, b = BucketFor(c, stamp[t]), b.tokens < Cost
  PROVE  /\ c \in Clients /\ c \in known /\ b \in Buckets
         /\ b.tokens - b.lastRefill = buckets[c].tokens - buckets[c].lastRefill
         /\ buckets[c].tokens <= b.tokens
<1> USE DEF Inv, TypeOK
<1> DEFINE s == stamp[t]
<1>1. c \in Clients /\ b \in Buckets /\ s \in Nat
  BY BucketForFacts
<1>2. c \in Kept(s)
  <2> SUFFICES ASSUME c \notin Kept(s) PROVE FALSE
    OBVIOUS
  <2>1. b.tokens = Capacity
    BY DEF BucketFor
  <2>2. QED
    BY <2>1
<1>3. c \in known /\ b = Refill(buckets[c], s)
  BY <1>2 DEF Kept, BucketFor
<1>4. buckets[c] \in Buckets /\ buckets[c].tokens \in Nat /\ buckets[c].lastRefill \in Nat
  BY <1>1 DEF Buckets
<1>5. CASE s <= buckets[c].lastRefill
  BY <1>1, <1>3, <1>4, <1>5 DEF Refill
<1>6. CASE ~(s <= buckets[c].lastRefill)
  <2>1. /\ b.tokens = Min2(Capacity, buckets[c].tokens + (s - buckets[c].lastRefill))
        /\ b.lastRefill = s
    BY <1>3, <1>4, <1>6 DEF Refill, Buckets
  <2>2. QED
    BY <1>1, <1>3, <1>4, <1>6, <2>1
<1>7. QED
  BY <1>5, <1>6

\* What allow() does to the buckets of the other clients.
LEMMA OthersUntouched ==
  ASSUME Inv, NEW t \in Threads, pc[t] = "called", NEW n, Touch(t, n),
         NEW d \in known', d # client[t]
  PROVE  d \in known /\ buckets'[d] = buckets[d]
<1>1. known \subseteq Clients
  BY DEF Inv, TypeOK
<1>2. d \in Kept(stamp[t])
  BY DEF Touch
<1>3. d \in known
  BY <1>2 DEF Kept
<1>4. QED
  BY <1>1, <1>2, <1>3 DEF Touch

\* The header covers the wait for the missing units, taken from a bucket that
\* others may have refilled, emptied or evicted since the request was denied.
LEMMA HeaderCovers ==
  ASSUME Inv, NEW c \in known
  PROVE  buckets[c].tokens + ((clock + RetryAfter(c) * TicksPerSecond) - buckets[c].lastRefill) >= Cost
<1> USE DEF Inv, TypeOK
<1> DEFINE b == Refill(buckets[c], clock)
           r == RetryAfter(c)
           w == r * TicksPerSecond
<1>1. /\ c \in Clients /\ clock \in Nat /\ buckets[c].tokens \in Nat /\ buckets[c].lastRefill \in Nat
      /\ buckets[c].lastRefill <= clock
  BY DEF Buckets, BucketsWithinBounds
<1>2. b.tokens = IF clock <= buckets[c].lastRefill THEN buckets[c].tokens
                 ELSE Min2(Capacity, buckets[c].tokens + (clock - buckets[c].lastRefill))
  BY <1>1 DEF Refill, Buckets
<1>3. b.tokens \in Nat /\ b.tokens <= buckets[c].tokens + (clock - buckets[c].lastRefill)
  BY <1>1, <1>2
<1>4. CASE b.tokens >= Cost
  <2>1. r = 0
    BY <1>4 DEF RetryAfter
  <2>2. w = 0
    BY <2>1
  <2> HIDE DEF b, w
  <2>3. buckets[c].tokens + ((clock + w) - buckets[c].lastRefill) >= Cost
    BY <1>1, <1>3, <1>4, <2>2
  <2>4. QED
    BY <2>3 DEF w
<1>5. CASE ~(b.tokens >= Cost)
  <2>1. Cost - b.tokens \in Nat
    BY <1>3, <1>5
  <2>2. r = CeilDiv(Cost - b.tokens, TicksPerSecond)
    BY <1>5 DEF RetryAfter
  <2> HIDE DEF b, r
  <2>3. r \in Nat /\ w >= Cost - b.tokens
    BY <2>1, <2>2, CeilDivCovers
  <2>4. w \in Int
    BY <2>3, SMT
  <2>5. b.tokens = buckets[c].tokens + (clock - buckets[c].lastRefill)
    BY <1>1, <1>2, <1>3, <1>5
  <2> HIDE DEF w
  <2>6. buckets[c].tokens + ((clock + w) - buckets[c].lastRefill) >= Cost
    BY <1>1, <1>3, <2>3, <2>4, <2>5
  <2>7. QED
    BY <2>6 DEF w, r
<1>6. QED
  BY <1>4, <1>5

\* Every step keeps what clients were told.
LEMMA PromiseStep == Inv /\ PromiseCovered /\ [Next]_vars => PromiseCovered'
<1> SUFFICES ASSUME Inv, PromiseCovered, [Next]_vars,
                    NEW d \in known', promise'[d] # None
             PROVE  \/ buckets'[d].tokens >= Cost
                    \/ buckets'[d].tokens + (promise'[d] - buckets'[d].lastRefill) >= Cost
  BY DEF PromiseCovered, None
<1> USE DEF Inv, TypeOK
<1>1. ASSUME NEW t \in Threads, Grant(t) PROVE promise[d] = promise'[d] /\ d # client[t]
  <2>1. client[t] \in Clients
    BY <1>1 DEF Grant, StampsAreRecent
  <2>2. QED
    BY <1>1, <2>1 DEF Grant
<1>2. CASE \E t \in Threads : Grant(t)
  <2> PICK t \in Threads : Grant(t)
    BY <1>2
  <2>1. pc[t] = "called" /\ Touch(t, BucketFor(client[t], stamp[t]).tokens - Cost)
    BY DEF Grant
  <2>2. d \in known /\ buckets'[d] = buckets[d] /\ promise'[d] = promise[d]
    BY <1>1, <2>1, OthersUntouched
  <2>3. QED
    BY <2>2 DEF PromiseCovered
<1>3. CASE \E t \in Threads : Deny(t)
  <2> PICK t \in Threads : Deny(t)
    BY <1>3
  <2> DEFINE c == client[t]
             b == BucketFor(c, stamp[t])
  <2>1. pc[t] = "called" /\ Touch(t, b.tokens) /\ b.tokens < Cost /\ promise' = promise
    BY DEF Deny
  <2>2. /\ c \in Clients /\ c \in known /\ b \in Buckets
        /\ b.tokens - b.lastRefill = buckets[c].tokens - buckets[c].lastRefill
        /\ buckets[c].tokens <= b.tokens
    BY <2>1, DeniedBucket
  <2>3. CASE d # c
    <3>1. d \in known /\ buckets'[d] = buckets[d]
      BY <2>1, <2>3, OthersUntouched
    <3>2. QED
      BY <2>1, <3>1 DEF PromiseCovered
  <2>4. CASE d = c
    <3>1. buckets'[c].tokens = b.tokens /\ buckets'[c].lastRefill = b.lastRefill
      BY <2>1, <2>2 DEF Touch, Buckets
    <3>2. /\ buckets[c].tokens \in Nat /\ buckets[c].lastRefill \in Nat
          /\ b.tokens \in Nat /\ b.lastRefill \in Nat /\ promise[c] \in Int
      BY <2>2 DEF Buckets, None
    <3>3. \/ buckets[c].tokens >= Cost
          \/ buckets[c].tokens + (promise[c] - buckets[c].lastRefill) >= Cost
      BY <2>1, <2>2, <2>4 DEF PromiseCovered
    <3> HIDE DEF b, c
    <3>4. QED
      BY <2>1, <2>2, <2>4, <3>1, <3>2, <3>3
  <2>5. QED
    BY <2>3, <2>4
<1>4. CASE \E t \in Threads : Refuse(t)
  <2> PICK t \in Threads : Refuse(t)
    BY <1>4
  <2>1. UNCHANGED <<buckets, known>>
        /\ promise' = [promise EXCEPT ![client[t]] = clock + RetryAfter(client[t]) * TicksPerSecond]
    BY DEF Refuse
  <2>2. CASE d = client[t]
    <3>1. promise'[d] = clock + RetryAfter(d) * TicksPerSecond
      BY <2>1, <2>2
    <3>2. QED
      BY <2>1, <3>1, HeaderCovers
  <2>3. CASE d # client[t]
    BY <2>1, <2>3 DEF PromiseCovered
  <2>4. QED
    BY <2>2, <2>3
<1>5. CASE \/ \E t \in Threads, c \in Clients : Arrive(t, c)
           \/ Tick
           \/ UNCHANGED vars
  BY <1>5 DEF Arrive, Tick, vars, PromiseCovered
<1>6. QED
  BY <1>2, <1>3, <1>4, <1>5 DEF Next

\* A client that waits as long as its last 429 said finds a token, however the
\* bucket was refilled by late threads, evicted or created again meanwhile.
THEOREM RetryAfterSuffices == Spec => []RetryAfterIsEnough
<1>1. Inv /\ PromiseCovered => RetryAfterIsEnough
  <2> SUFFICES ASSUME Inv, PromiseCovered, NEW c \in Clients, promise[c] # None,
                      clock >= promise[c], c \in known
               PROVE  Effective(c) >= Cost
    BY DEF RetryAfterIsEnough
  <2>1. /\ buckets[c].tokens \in Nat /\ buckets[c].lastRefill \in Nat /\ clock \in Nat
        /\ promise[c] \in Nat /\ buckets[c].lastRefill <= clock
    BY DEF Inv, TypeOK, Buckets, BucketsWithinBounds
  <2>2. QED
    BY <2>1 DEF PromiseCovered, Effective
<1>2. Spec => []PromiseCovered
  BY PromiseInit, PromiseStep, LimiterInvariant, PTL DEF Spec
<1>3. QED
  BY <1>1, <1>2, LimiterInvariant, PTL
=============================================================================
