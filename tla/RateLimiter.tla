---------------------------- MODULE RateLimiter -----------------------------
(***************************************************************************)
(* corvus::gateway::RateLimiter and the middleware that consults it        *)
(* (src/src/gateway/rate_limiter.cpp).                                     *)
(*                                                                         *)
(* A tick is the time in which a bucket gains one unit; a token is Cost    *)
(* units, so refill_rate is TicksPerSecond / Cost tokens a second.         *)
(* allow() reads the clock before it waits for mutex_: the time it works   *)
(* with may be up to MaxLag ticks old by then.  Each client also has an    *)
(* ideal bucket, never evicted and refilled by the real clock, from which  *)
(* every granted request takes a token too.                                *)
(*                                                                         *)
(* Definitions named X_... are wrong versions of X that the properties are *)
(* shown to reject; no specification uses them.                            *)
(***************************************************************************)
EXTENDS Integers, FiniteSets

CONSTANTS Threads, Clients,
          NoClient,         \* a thread without a request
          Cost,             \* units in a token
          Capacity,         \* max_tokens, in units
          TicksPerSecond,   \* ticks in a second
          CleanupInterval,  \* cleanup_interval, in ticks
          EntryTtl,         \* entry_ttl, in ticks
          MaxLag,           \* bound on the wait between now() and the lock
          MaxTime           \* bound on the clock

ASSUME ClientsAssumption == NoClient \notin Clients
ASSUME UnitsAssumption == /\ Cost \in Nat \ {0} /\ TicksPerSecond \in Nat \ {0}
                          /\ Capacity \in Nat /\ Capacity >= Cost
                          /\ CleanupInterval \in Nat /\ EntryTtl \in Nat
                          /\ MaxLag \in Nat /\ MaxTime \in Nat
\* An idle bucket refills long before it is evicted (100 tokens at 10 a second
\* against an entry_ttl of 600 s).
ASSUME TtlAssumption == EntryTtl >= Capacity + 2 * MaxLag

VARIABLES
  clock,         \* steady_clock
  buckets,       \* buckets_: the buckets of the clients in known
  known,         \* the keys of buckets_
  lastCleanup,   \* last_cleanup_
  pc,            \* each thread: "idle", "called" (has read the clock), "denied"
  client,        \* the client whose request the thread has
  stamp,         \* the `now` of the thread's allow()
  ideal,         \* history: units in each client's ideal bucket
  promise        \* history: when the last Retry-After of a client is over

vars == <<clock, buckets, known, lastCleanup, pc, client, stamp, ideal, promise>>

\* The ideal bucket holds the burst and what the clock's lag may be worth.
IdealCapacity == Capacity + MaxLag

None == -1

Min2(a, b) == IF a <= b THEN a ELSE b

EmptyBucket == [tokens |-> 0, lastRefill |-> 0, lastAccess |-> 0]

Init == /\ clock = 0
        /\ buckets = [c \in Clients |-> EmptyBucket]
        /\ known = {}
        /\ lastCleanup = 0
        /\ pc = [t \in Threads |-> "idle"]
        /\ client = [t \in Threads |-> NoClient]
        /\ stamp = [t \in Threads |-> 0]
        /\ ideal = [c \in Clients |-> IdealCapacity]
        /\ promise = [c \in Clients |-> None]

-----------------------------------------------------------------------------

\* Wrong: last_refill stays where it was.
Refill_KeepsDate(b, now) ==
  IF now <= b.lastRefill THEN b
  ELSE [b EXCEPT !.tokens = Min2(Capacity, b.tokens + (now - b.lastRefill))]

\* refill(): time that does not advance adds nothing.
Refill(b, now) ==
  IF now <= b.lastRefill THEN b
  ELSE [b EXCEPT !.tokens = Min2(Capacity, b.tokens + (now - b.lastRefill)),
                 !.lastRefill = now]

\* maybe_cleanup(): the keys left in buckets_ afterwards.
CleanupDue(now) == now - lastCleanup >= CleanupInterval
Kept(now) == IF CleanupDue(now)
             THEN {c \in known : now - buckets[c].lastAccess <= EntryTtl}
             ELSE known

\* try_emplace and refill: the client's bucket as allow() finds it.
BucketFor(c, now) ==
  IF c \in Kept(now) THEN Refill(buckets[c], now)
  ELSE [tokens |-> Capacity, lastRefill |-> now, lastAccess |-> now]

\* A request of client c reaches the limiter and allow() reads the clock.
Arrive(t, c) ==
  /\ pc[t] = "idle"
  /\ pc' = [pc EXCEPT ![t] = "called"]
  /\ client' = [client EXCEPT ![t] = c]
  /\ stamp' = [stamp EXCEPT ![t] = clock]
  /\ UNCHANGED <<clock, buckets, known, lastCleanup, ideal, promise>>

\* The thread has dealt with its request.
Done(t) == /\ pc' = [pc EXCEPT ![t] = "idle"]
           /\ client' = [client EXCEPT ![t] = NoClient]
           /\ stamp' = [stamp EXCEPT ![t] = 0]

\* What allow() does under mutex_ before it looks at the tokens.
Touch(t, tokens) ==
  LET c == client[t]  b == BucketFor(c, stamp[t]) IN
  /\ known' = Kept(stamp[t]) \cup {c}
  /\ lastCleanup' = IF CleanupDue(stamp[t]) THEN stamp[t] ELSE lastCleanup
  /\ buckets' = [d \in Clients |->
                   IF d = c THEN [b EXCEPT !.tokens = tokens, !.lastAccess = stamp[t]]
                   ELSE IF d \in Kept(stamp[t]) THEN buckets[d] ELSE EmptyBucket]

Grant(t) ==
  LET c == client[t]  b == BucketFor(c, stamp[t]) IN
  /\ pc[t] = "called"
  /\ b.tokens >= Cost
  /\ Touch(t, b.tokens - Cost)
  /\ Done(t)
  /\ ideal' = [ideal EXCEPT ![c] = @ - Cost]
  /\ promise' = [promise EXCEPT ![c] = None]
  /\ UNCHANGED clock

Deny(t) ==
  LET b == BucketFor(client[t], stamp[t]) IN
  /\ pc[t] = "called"
  /\ b.tokens < Cost
  /\ Touch(t, b.tokens)
  /\ pc' = [pc EXCEPT ![t] = "denied"]
  /\ stamp' = [stamp EXCEPT ![t] = 0]
  /\ UNCHANGED <<clock, client, ideal, promise>>

\* Wrong: rounds down.
CeilDiv_Floor(a, b) == a \div b

CeilDiv(a, b) == (a + b - 1) \div b

\* retry_after(): whole seconds, from a copy refilled up to the present.
RetryAfter(c) ==
  LET b == Refill(buckets[c], clock) IN
  IF c \notin known \/ b.tokens >= Cost THEN 0
  ELSE CeilDiv(Cost - b.tokens, TicksPerSecond)

\* The 429 is sent with its Retry-After header.
Refuse(t) ==
  LET c == client[t] IN
  /\ pc[t] = "denied"
  /\ promise' = [promise EXCEPT ![c] = clock + RetryAfter(c) * TicksPerSecond]
  /\ Done(t)
  /\ UNCHANGED <<clock, buckets, known, lastCleanup, ideal>>

\* Time passes; no thread waits longer than MaxLag for mutex_.
Tick ==
  /\ clock < MaxTime
  /\ \A t \in Threads : pc[t] = "called" => clock - stamp[t] < MaxLag
  /\ clock' = clock + 1
  /\ ideal' = [c \in Clients |-> Min2(IdealCapacity, ideal[c] + 1)]
  /\ UNCHANGED <<buckets, known, lastCleanup, pc, client, stamp, promise>>

Next == \/ \E t \in Threads : (\E c \in Clients : Arrive(t, c)) \/ Grant(t) \/ Deny(t) \/ Refuse(t)
        \/ Tick

Spec == Init /\ [][Next]_vars

-----------------------------------------------------------------------------

Buckets == [tokens : Nat, lastRefill : Nat, lastAccess : Nat]

\* The types of the limiter's fields, of the threads and of the history.
TypeOK == /\ clock \in Nat
          /\ buckets \in [Clients -> Buckets]
          /\ known \subseteq Clients
          /\ lastCleanup \in Nat
          /\ pc \in [Threads -> {"idle", "called", "denied"}]
          /\ client \in [Threads -> Clients \cup {NoClient}]
          /\ stamp \in [Threads -> Nat]
          /\ ideal \in [Clients -> Int]
          /\ promise \in [Clients -> Nat \cup {None}]

\* What a bucket would hold if it were refilled now, uncapped.
Effective(c) == buckets[c].tokens + (clock - buckets[c].lastRefill)

\* No client ever gets more than its burst plus the refill of the time that
\* passed, in any window of time, but for the lag: stale clocks, refills out of
\* order, evictions and re-creations never overdraw the ideal bucket.
NeverOvergranted == \A c \in Clients : ideal[c] >= 0

\* A client that waits for the Retry-After it was told finds a token there, if
\* no request of it was granted in between.
RetryAfterIsEnough ==
  \A c \in Clients :
    (promise[c] # None /\ clock >= promise[c]) => c \notin known \/ Effective(c) >= Cost

\* A bucket never holds more than max_tokens and its refill time never lies in
\* the future, however late threads reach mutex_.
BucketsWithinBounds ==
  \A c \in known : /\ buckets[c].tokens <= Capacity
                   /\ buckets[c].lastRefill <= clock
                   /\ buckets[c].lastAccess <= clock
=============================================================================
