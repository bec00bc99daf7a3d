------------------------- MODULE ApiKeyCacheProofs --------------------------
(***************************************************************************)
(* Proofs about ApiKeyCache, for any number of threads, any TTL and any    *)
(* remaining life of the key.                                              *)
(***************************************************************************)
EXTENDS ApiKeyCache, TLAPS

\* The clock of an invalid key starts when it becomes invalid.
ValidIsFresh == Valid => invalidFor = 0

\* A TTL belongs to a hash that exists.
TimedExists == entry.timed => entry.src # "none"

\* The TTL of an entry that was stored and timed while the key was valid ends
\* before kCacheTtl has passed since the key became invalid.
TtlCovers == (entry.timed /\ ~staleStore /\ ~Valid) => invalidFor + entry.ttl <= Horizon

\* And it ends with the key's own life: the rounding and the floor of
\* cache_ttl_for add at most half a second, the age of its clock reading the rest.
ExpiryCovers ==
  (entry.timed /\ ~staleStore /\ expires) =>
     /\ life > 0 => entry.ttl <= life + lag + 1
     /\ life = 0 /\ active => invalidFor + entry.ttl <= lag + 1

\* The clock does not go back: the life read off it is not less than the life
\* left.
ReadingsAreOld == \A t \in Threads : pc[t] = "expire" => read[t] >= life

Inv == /\ TypeOK
       /\ ValidKeyNeverRejected
       /\ UntimedEntryIsBeingExpired
       /\ ValidIsFresh
       /\ TimedExists
       /\ TtlCovers
       /\ ExpiryCovers
       /\ ReadingsAreOld

-----------------------------------------------------------------------------
(* Lemmas *)

\* What cache_ttl_for computes: a TTL of at least one second, at most kCacheTtl,
\* that exceeds what was left of the key by half a second at most.
LEMMA CacheTtlForBounds ==
  ASSUME TypeOK, NEW left \in Nat
  PROVE  /\ Ticks(CacheTtlFor(left)) \in 1..Horizon
         /\ expires /\ left > 0 => Ticks(CacheTtlFor(left)) <= left + 1
<1>1. SecondsLeft(left) \in Int /\ 2 * SecondsLeft(left) <= left + roundUp
  BY DEF TypeOK, SecondsLeft
<1>2. roundUp \in {0, 1} /\ CacheTtl \in Nat \ {0} /\ expires \in BOOLEAN
  BY LifeAssumption DEF TypeOK
<1>3. CacheTtlFor(left) \in 1..CacheTtl
  BY <1>1, <1>2 DEF CacheTtlFor
<1>4. expires => CacheTtlFor(left) = 1 \/ CacheTtlFor(left) <= SecondsLeft(left)
  BY <1>1, <1>2 DEF CacheTtlFor
<1>5. QED
  BY <1>1, <1>2, <1>3, <1>4 DEF Ticks, Horizon

\* Nothing makes an invalid key valid again.
LEMMA ValidNeverReturns ==
  ASSUME TypeOK, [Next]_vars, Valid'
  PROVE  Valid
<1>1. CASE UNCHANGED key
  BY <1>1 DEF Valid, key
<1>2. CASE Revoke
  BY <1>2 DEF Revoke, Valid
<1>3. CASE Tick
  BY <1>3 DEF Tick, Valid, CountDown, TypeOK
<1>4. QED
  BY <1>1, <1>2, <1>3 DEF Next, Begin, Validate, CacheHit, CacheMiss, CacheFails, Lookup,
     LookupFails, Hmset, HmsetFails, ReadClock,
     Expire, ExpireFails, Stored, Finish, LoseEntry, Restart, vars, key

\* Every step keeps the types.
LEMMA TypeStep ==
  ASSUME TypeOK, ReadingsAreOld, [Next]_vars
  PROVE  TypeOK'
<1> USE DEF Places, GoTo, key, history
<1>1. ASSUME NEW t \in Threads,
             Begin(t) \/ CacheHit(t) \/ CacheMiss(t) \/ CacheFails(t) \/ Lookup(t)
               \/ LookupFails(t) \/ ReadClock(t) \/ Finish(t)
      PROVE  TypeOK'
  BY <1>1 DEF TypeOK, Begin, CacheHit, CacheMiss, CacheFails, Lookup, LookupFails, ReadClock, Finish,
     Horizon
<1>2. ASSUME NEW t \in Threads, Hmset(t) \/ HmsetFails(t)
      PROVE  TypeOK'
  <2>1. entry' \in [src : {"none", "other", "pg"}, timed : BOOLEAN, ttl : Nat]
    BY <1>2 DEF TypeOK, Hmset, HmsetFails, Marked
  <2>2. entry'.timed => entry'.ttl \in 1..Ticks(CacheTtl)
    BY <1>2 DEF TypeOK, Hmset, HmsetFails, Marked
  <2>3. unguarded' \in BOOLEAN /\ staleStore' \in BOOLEAN
    BY <1>2 DEF TypeOK, Hmset, HmsetFails
  <2>4. QED
    BY <1>2, <2>1, <2>2, <2>3 DEF TypeOK, Hmset, HmsetFails, Horizon
<1>3. ASSUME NEW t \in Threads, Expire(t) \/ ExpireFails(t)
      PROVE  TypeOK'
  <2>1. /\ Ticks(CacheTtlFor(read[t])) \in 1..Ticks(CacheTtl)
        /\ Ticks(CacheTtlFor(read[t])) \in Nat
    <3>1. read[t] \in Nat
      BY DEF TypeOK
    <3>2. QED
      BY <3>1, CacheTtlForBounds, LifeAssumption DEF Horizon, Ticks
  <2>2. entry' = entry \/ entry' = [entry EXCEPT !.timed = TRUE, !.ttl = Ticks(CacheTtlFor(read[t]))]
    BY <1>3 DEF Expire, ExpireFails, RunExpire
  <2>3. /\ entry' \in [src : {"none", "other", "pg"}, timed : BOOLEAN, ttl : Nat]
        /\ entry'.timed => entry'.ttl \in 1..Ticks(CacheTtl)
    BY <2>1, <2>2 DEF TypeOK
  <2>4. unguarded' \in BOOLEAN /\ staleStore' \in BOOLEAN
    BY <1>3 DEF TypeOK, Expire, ExpireFails, RunExpire
  <2>5. lag' \in Nat
    BY <1>3 DEF TypeOK, ReadingsAreOld, Expire, ExpireFails, RunExpire
  <2>6. QED
    BY <1>3, <2>3, <2>4, <2>5 DEF TypeOK, Expire, ExpireFails, Stored, Horizon
<1>4. CASE Tick
  <2>1. life' \in Nat
    BY <1>4 DEF TypeOK, Tick, CountDown
  <2>2. /\ entry' \in [src : {"none", "other", "pg"}, timed : BOOLEAN, ttl : Nat]
        /\ entry'.timed => entry'.ttl \in 1..Ticks(CacheTtl)
    <3>1. CASE ~entry.timed
      BY <1>4, <3>1 DEF Tick, TypeOK
    <3>2. CASE entry.timed /\ entry.ttl > 1
      BY <1>4, <3>2, LifeAssumption DEF Tick, TypeOK, Ticks
    <3>3. CASE entry.timed /\ ~(entry.ttl > 1)
      BY <1>4, <3>3 DEF Tick, NoEntry
    <3>4. QED
      BY <3>1, <3>2, <3>3
  <2>3. invalidFor' \in 0..Horizon
    BY <1>4, LifeAssumption DEF TypeOK, Tick, Horizon, Ticks
  <2>4. staleStore' \in BOOLEAN
    BY <1>4 DEF TypeOK, Tick
  <2>5. QED
    BY <1>4, <2>1, <2>2, <2>3, <2>4 DEF TypeOK, Tick
<1>5. CASE Revoke
  BY <1>5 DEF TypeOK, Revoke, Horizon
<1>6. CASE Restart
  BY <1>6 DEF TypeOK, Restart, Horizon
<1>7. CASE UNCHANGED vars
  BY <1>7 DEF TypeOK, vars, Horizon
<1>8. CASE LoseEntry
  <2>1. entry'.timed = FALSE /\ entry' \in [src : {"none", "other", "pg"}, timed : BOOLEAN, ttl : Nat]
    BY <1>8 DEF LoseEntry, NoEntry
  <2>2. QED
    BY <1>8, <2>1 DEF TypeOK, LoseEntry, Horizon
<1>9. QED
  BY <1>1, <1>2, <1>3, <1>4, <1>5, <1>6, <1>7, <1>8 DEF Next, Validate

\* And keeps the readings of the clock behind it.
LEMMA ReadingStep ==
  ASSUME TypeOK, ReadingsAreOld, [Next]_vars
  PROVE  ReadingsAreOld'
<1>1. ASSUME NEW t \in Threads, Begin(t) \/ Validate(t) PROVE ReadingsAreOld'
  BY <1>1 DEF TypeOK, ReadingsAreOld, GoTo, key, Begin, Validate, CacheHit, CacheMiss, CacheFails,
     Lookup, LookupFails, Hmset, HmsetFails, ReadClock, Expire, ExpireFails, Stored, Finish
<1>2. CASE Tick
  BY <1>2 DEF TypeOK, ReadingsAreOld, Tick, CountDown
<1>3. CASE Revoke \/ LoseEntry \/ Restart \/ UNCHANGED vars
  BY <1>3 DEF ReadingsAreOld, Revoke, LoseEntry, Restart, key, vars
<1>4. QED
  BY <1>1, <1>2, <1>3 DEF Next

-----------------------------------------------------------------------------
(* The invariant *)

\* The invariant holds before the first request.
LEMMA InvInit == Init => Inv
<1> SUFFICES ASSUME Init PROVE Inv
  OBVIOUS
<1>1. /\ entry \in [src : {"none", "other", "pg"}, timed : BOOLEAN, ttl : Nat]
      /\ entry.src # "pg" /\ entry.timed = FALSE
  <2>1. CASE entry = NoEntry
    BY <2>1 DEF NoEntry
  <2>2. CASE entry = [src |-> "other", timed |-> FALSE, ttl |-> 0]
    BY <2>2
  <2>3. QED
    BY <2>1, <2>2 DEF Init
<1>2. life \in Nat /\ roundUp \in {0, 1}
  BY LifeAssumption DEF Init
<1>3. invalidFor \in 0..Horizon
  BY LifeAssumption DEF Init, Horizon, Ticks
<1>4. TypeOK
  BY <1>1, <1>2, <1>3 DEF Init, TypeOK, Places
<1>5. QED
  BY <1>1, <1>4 DEF Init, Inv, ValidKeyNeverRejected, UntimedEntryIsBeingExpired, ValidIsFresh,
     TimedExists, TtlCovers, ExpiryCovers, ReadingsAreOld

\* A lookup that finds no valid key is right, and stays so until validate() ends.
LEMMA RejectionStep ==
  ASSUME Inv, [Next]_vars, TypeOK'
  PROVE  ValidKeyNeverRejected'
<1>1. SUFFICES ASSUME NEW t \in Threads, pc'[t] = "rejected" PROVE ~Valid'
  BY DEF ValidKeyNeverRejected
<1>2. ~Valid
  BY <1>1 DEF Inv, TypeOK, ValidKeyNeverRejected, Next, Begin, Validate, CacheHit, CacheMiss,
     CacheFails, Lookup, LookupFails, Hmset, HmsetFails, ReadClock,
     Expire, ExpireFails, Stored, Finish, Revoke, Tick, LoseEntry, Restart, GoTo, vars
<1>3. QED
  BY <1>2, ValidNeverReturns DEF Inv

\* An entry without a TTL always has somebody who owes it an EXPIRE.
LEMMA UntimedStep ==
  ASSUME Inv, [Next]_vars, TypeOK'
  PROVE  UntimedEntryIsBeingExpired'
<1> USE DEF Inv, TypeOK, UntimedEntryIsBeingExpired, ExpireOwed, GoTo, key, history
<1>1. ASSUME NEW t \in Threads,
             Begin(t) \/ CacheHit(t) \/ CacheMiss(t) \/ CacheFails(t) \/ Lookup(t)
               \/ LookupFails(t) \/ ReadClock(t) \/ Finish(t)
      PROVE  UntimedEntryIsBeingExpired'
  BY <1>1 DEF Begin, CacheHit, CacheMiss, CacheFails, Lookup, LookupFails, ReadClock, Finish
<1>2. ASSUME NEW t \in Threads, Hmset(t) PROVE UntimedEntryIsBeingExpired'
  BY <1>2 DEF Hmset
<1>3. ASSUME NEW t \in Threads, HmsetFails(t) PROVE UntimedEntryIsBeingExpired'
  BY <1>3 DEF HmsetFails, Marked
<1>4. ASSUME NEW t \in Threads, Expire(t) PROVE UntimedEntryIsBeingExpired'
  BY <1>4 DEF Expire, RunExpire, Stored
<1>5. ASSUME NEW t \in Threads, ExpireFails(t) PROVE UntimedEntryIsBeingExpired'
  BY <1>5 DEF ExpireFails, RunExpire, Stored
<1>6. CASE Tick \/ LoseEntry
  BY <1>6 DEF Tick, LoseEntry, NoEntry
<1>7. CASE Revoke \/ Restart \/ UNCHANGED vars
  BY <1>7 DEF Revoke, Restart, vars
<1>8. QED
  BY <1>1, <1>2, <1>3, <1>4, <1>5, <1>6, <1>7 DEF Next, Validate

\* Commands on the entry keep the bounds on its TTL, because one that touches it
\* after the key became invalid is remembered as a stale store.
LEMMA StoreStep ==
  ASSUME Inv, TypeOK', NEW t \in Threads, Begin(t) \/ Validate(t)
  PROVE  ValidIsFresh' /\ TimedExists' /\ TtlCovers' /\ ExpiryCovers'
<1>1. UNCHANGED <<key, invalidFor>> /\ (Valid' <=> Valid)
  BY DEF Begin, Validate, CacheHit, CacheMiss, CacheFails, Lookup, LookupFails, Hmset, HmsetFails,
     ReadClock, Expire, ExpireFails, Stored, Finish, key, history, Valid
<1>2. ValidIsFresh'
  BY <1>1 DEF Inv, ValidIsFresh
<1>3. CASE UNCHANGED <<entry, staleStore, lag>>
  BY <1>1, <1>2, <1>3 DEF Inv, TimedExists, TtlCovers, ExpiryCovers, key, Horizon
<1>4. CASE entry' = Marked /\ staleStore' = (staleStore \/ ~Valid) /\ lag' = lag
  <2>1. entry'.timed = entry.timed /\ entry'.ttl = entry.ttl /\ entry'.src = "pg"
    BY <1>4 DEF Marked, Inv, TypeOK
  <2>2. ~staleStore' => ~staleStore /\ Valid
    BY <1>4 DEF Inv, TypeOK
  <2>3. QED
    BY <1>1, <1>2, <1>4, <2>1, <2>2 DEF Inv, TimedExists, TtlCovers, ExpiryCovers, key
<1>5. CASE RunExpire(t) /\ entry.src # "none" /\ pc[t] = "expire"
  <2>1. entry'.ttl = Ticks(CacheTtlFor(read[t])) /\ entry'.src # "none"
    BY <1>5 DEF RunExpire, Inv, TypeOK
  <2>2. ~staleStore' => Valid
    BY <1>5 DEF RunExpire, Inv, TypeOK
  <2>3. Valid /\ expires => life > 0
    BY DEF Valid
  <2>4. read[t] \in Nat /\ life \in Nat /\ read[t] >= life /\ lag' = read[t] - life
    BY <1>5 DEF RunExpire, Inv, TypeOK, ReadingsAreOld
  <2>5. /\ Ticks(CacheTtlFor(read[t])) \in 1..Horizon
        /\ expires /\ read[t] > 0 => Ticks(CacheTtlFor(read[t])) <= read[t] + 1
    BY <2>4, CacheTtlForBounds DEF Inv
  <2>6. QED
    BY <1>1, <1>2, <2>1, <2>2, <2>3, <2>4, <2>5 DEF Inv, TimedExists, TtlCovers, ExpiryCovers, key,
       TypeOK
<1>6. QED
  BY <1>3, <1>4, <1>5 DEF Begin, Validate, CacheHit, CacheMiss, CacheFails, Lookup, LookupFails,
     Hmset, HmsetFails, ReadClock, Expire, ExpireFails, RunExpire, Stored, Finish, history

\* Time takes as much off the TTL as it adds to the time the key is invalid.
LEMMA TickStep ==
  ASSUME Inv, TypeOK', Tick
  PROVE  ValidIsFresh' /\ TimedExists' /\ TtlCovers' /\ ExpiryCovers'
<1>1. Valid' => Valid
  BY ValidNeverReturns DEF Inv, Next
<1>2. ValidIsFresh'
  BY <1>1 DEF Inv, ValidIsFresh, Tick
<1>3. entry'.timed => /\ entry.timed /\ entry'.ttl = entry.ttl - 1 /\ entry'.src = entry.src
                      /\ entry.ttl \in 1..Horizon
  BY DEF Inv, TypeOK, Tick, NoEntry, Horizon
<1>4. entry'.timed /\ ~staleStore' => ~staleStore
  BY <1>3 DEF Tick, Inv, TypeOK, TimedExists
<1>5. TimedExists'
  BY <1>3 DEF Inv, TimedExists
<1>6. life \in Nat /\ life' = CountDown(life) /\ UNCHANGED <<active, expires>>
  BY DEF Inv, TypeOK, Tick
<1>7. invalidFor \in 0..Horizon /\ Horizon \in Nat /\ (Valid => invalidFor = 0)
  BY LifeAssumption DEF Inv, TypeOK, ValidIsFresh, Horizon, Ticks
<1>8. invalidFor' = IF ~Valid /\ invalidFor < Horizon THEN invalidFor + 1 ELSE invalidFor
  BY DEF Tick
<1>9. TtlCovers'
  <2>1. SUFFICES ASSUME entry'.timed, ~staleStore', ~Valid' PROVE invalidFor' + entry'.ttl <= Horizon
    BY DEF TtlCovers, Horizon
  <2>2. CASE Valid
    BY <1>3, <1>7, <1>8, <2>1, <2>2
  <2>3. CASE ~Valid
    <3>1. invalidFor + entry.ttl <= Horizon
      BY <1>3, <1>4, <2>1, <2>3 DEF Inv, TtlCovers
    <3>2. QED
      BY <1>3, <1>7, <1>8, <2>1, <3>1
  <2>4. QED
    BY <2>2, <2>3
<1>10. ExpiryCovers'
  <2>1. SUFFICES ASSUME entry'.timed, ~staleStore', expires'
                 PROVE  /\ life' > 0 => entry'.ttl <= life' + lag' + 1
                        /\ life' = 0 /\ active' => invalidFor' + entry'.ttl <= lag' + 1
    BY DEF ExpiryCovers
  <2>2. /\ life > 0 => entry.ttl <= life + lag + 1
        /\ life = 0 /\ active => invalidFor + entry.ttl <= lag + 1
        /\ lag' = lag /\ lag \in Nat
    <3>1. entry'.src # "none"
      BY <1>5, <2>1 DEF TimedExists
    <3>2. QED
      BY <1>3, <1>4, <1>6, <2>1, <3>1 DEF Inv, TypeOK, ExpiryCovers, Tick
  <2>3. CASE life > 0
    <3>1. /\ life' = life - 1 /\ entry'.ttl = entry.ttl - 1 /\ entry.ttl <= life + lag + 1
          /\ entry.ttl \in Nat
      BY <1>3, <1>6, <2>1, <2>2, <2>3 DEF CountDown
    <3>2. active' => Valid
      BY <1>6, <2>3 DEF Valid
    <3>3. active' => invalidFor' = 0
      BY <1>7, <1>8, <3>2
    <3>4. QED
      BY <1>6, <2>2, <2>3, <3>1, <3>3
  <2>4. CASE life = 0
    <3>1. life' = 0 /\ entry'.ttl = entry.ttl - 1 /\ entry.ttl \in Nat
      BY <1>3, <1>6, <2>1, <2>4 DEF CountDown
    <3>2. invalidFor' <= invalidFor + 1 /\ invalidFor' \in Nat
      BY <1>7, <1>8
    <3>3. QED
      BY <1>6, <1>7, <2>2, <2>4, <3>1, <3>2
  <2>5. QED
    BY <1>6, <2>3, <2>4
<1>11. QED
  BY <1>2, <1>5, <1>9, <1>10

\* Every step preserves the invariant.
LEMMA InvStep == Inv /\ [Next]_vars => Inv'
<1> SUFFICES ASSUME Inv, [Next]_vars PROVE Inv'
  OBVIOUS
<1>1. TypeOK'
  BY TypeStep DEF Inv
<1>2. ValidKeyNeverRejected' /\ UntimedEntryIsBeingExpired' /\ ReadingsAreOld'
  BY <1>1, RejectionStep, UntimedStep, ReadingStep DEF Inv
<1>3. ValidIsFresh' /\ TimedExists' /\ TtlCovers' /\ ExpiryCovers'
  <2>1. CASE \E t \in Threads : Begin(t) \/ Validate(t)
    BY <1>1, <2>1, StoreStep
  <2>2. CASE Tick
    BY <1>1, <2>2, TickStep
  <2>3. CASE Revoke
    <3>1. /\ active /\ ~active' /\ ~Valid'
          /\ UNCHANGED <<expires, life, entry, invalidFor, staleStore, lag>>
      BY <2>3 DEF Revoke, Valid, history
    <3>2. Valid => invalidFor = 0
      BY DEF Inv, ValidIsFresh
    <3>3. entry.timed => entry.ttl \in 1..Horizon
      BY DEF Inv, TypeOK, Horizon
    <3>4. QED
      BY <3>1, <3>2, <3>3 DEF Inv, TypeOK, ValidIsFresh, TimedExists, TtlCovers, ExpiryCovers, Horizon
  <2>4. CASE Restart \/ UNCHANGED vars
    BY <2>4 DEF Restart, vars, key, Inv, Valid, ValidIsFresh, TimedExists, TtlCovers, ExpiryCovers,
       Horizon
  <2>5. CASE LoseEntry
    BY <2>5 DEF LoseEntry, NoEntry, key, Inv, Valid, ValidIsFresh, TimedExists, TtlCovers, ExpiryCovers
  <2>6. QED
    BY <2>1, <2>2, <2>3, <2>4, <2>5 DEF Next
<1>4. QED
  BY <1>1, <1>2, <1>3 DEF Inv

-----------------------------------------------------------------------------
(* Theorems *)

\* The invariant holds in every reachable state.
THEOREM KeyInvariant == Spec => []Inv
  BY InvInit, InvStep, PTL DEF Spec

\* Type correctness of ApiKeyCache; a timed entry has between a tick and kCacheTtl
\* left, whatever cache_ttl_for was given.
THEOREM TypeCorrect == Spec => []TypeOK
<1>1. Inv => TypeOK
  BY DEF Inv
<1>2. QED
  BY <1>1, KeyInvariant, PTL

\* validate() never turns down a key that is valid in PostgreSQL.
THEOREM NoWrongRejection == Spec => []ValidKeyNeverRejected
<1>1. Inv => ValidKeyNeverRejected
  BY DEF Inv
<1>2. QED
  BY <1>1, KeyInvariant, PTL

\* An entry without a TTL has its EXPIRE on the way, or lost it to a failure.
THEOREM UntimedOnlyUntilExpire == Spec => []UntimedEntryIsBeingExpired
<1>1. Inv => UntimedEntryIsBeingExpired
  BY DEF Inv
<1>2. QED
  BY <1>1, KeyInvariant, PTL

\* A key that became invalid is out of the cache after kCacheTtl, unless its
\* EXPIRE failed or a store overlapped the change.
THEOREM ForgottenWithinTtl == Spec => []InvalidKeyForgottenWithinTtl
<1>1. Inv => InvalidKeyForgottenWithinTtl
  <2> SUFFICES ASSUME Inv, ~Valid, invalidFor >= Horizon, entry.src = "pg", ~unguarded, ~staleStore
               PROVE  StoreUnderWay
    BY DEF InvalidKeyForgottenWithinTtl
  <2>1. ~entry.timed
    BY LifeAssumption DEF Inv, TypeOK, TtlCovers, Horizon, Ticks
  <2>2. QED
    BY <2>1 DEF Inv, UntimedEntryIsBeingExpired, ExpireOwed, StoreUnderWay
<1>2. QED
  BY <1>1, KeyInvariant, PTL

\* The cache outlives a key's expiry by less than a second and the age of the
\* clock reading that its TTL was computed from, with the same exceptions, for
\* every TTL, every fraction of a second in expires_at and every delay of EXPIRE.
THEOREM OverrunBounded == Spec => []ExpiryOverrunBounded
<1>1. Inv => ExpiryOverrunBounded
  <2> SUFFICES ASSUME Inv, active, ~Valid, invalidFor >= Ticks(1) + lag, entry.src = "pg", ~unguarded,
                      ~staleStore
               PROVE  StoreUnderWay
    BY DEF ExpiryOverrunBounded
  <2>1. expires /\ life = 0
    BY DEF Inv, TypeOK, Valid
  <2>2. ~entry.timed
    BY <2>1, LifeAssumption DEF Inv, TypeOK, ExpiryCovers, Horizon, Ticks
  <2>3. QED
    BY <2>2 DEF Inv, UntimedEntryIsBeingExpired, ExpireOwed, StoreUnderWay
<1>2. QED
  BY <1>1, KeyInvariant, PTL

-----------------------------------------------------------------------------
(* Invalid keys are forgotten *)

Storing(t) == pc[t] \in {"hmset", "clock", "expire"}

\* The key is invalid and no store that began before is still under way.
Quiet == ~Valid /\ ~StoreUnderWay

\* The states after a store's command is dropped or the clock is read, and after
\* time passes.
Dropped(t) == IF pc[t] = "clock"
              THEN <<key, entry, [pc EXCEPT ![t] = "expire"], [read EXCEPT ![t] = life], history>>
              ELSE <<key, entry, [pc EXCEPT ![t] = "accepted"],
                     IF pc[t] = "expire" THEN [read EXCEPT ![t] = 0] ELSE read,
                     <<invalidFor, unguarded \/ (pc[t] = "expire" /\ ~entry.timed), staleStore, lag>>>>
Aged == LET e == IF entry.ttl > 1 THEN [entry EXCEPT !.ttl = @ - 1] ELSE NoEntry
        IN  <<<<active, expires, CountDown(life), roundUp>>, e, pc, read,
              <<IF ~Valid /\ invalidFor < Horizon THEN invalidFor + 1 ELSE invalidFor,
                unguarded, staleStore /\ e.src # "none", IF e.src = "none" THEN 0 ELSE lag>>>>
State == <<key, entry, pc, read, history>>

\* A store can go on whatever Redis does, if only by failing, and an entry that
\* has a TTL can age.
THEOREM StoresCanGoOn ==
  ASSUME TypeOK, NEW t \in Threads
  PROVE  /\ Storing(t) /\ State' = Dropped(t) => <<Validate(t)>>_vars
         /\ entry.timed /\ State' = Aged => <<Tick>>_vars
<1>1. ASSUME Storing(t), State' = Dropped(t) PROVE <<Validate(t)>>_vars
  <2>1. pc'[t] # pc[t]
    BY <1>1 DEF Storing, Dropped, TypeOK, State
  <2>2. CASE pc[t] = "hmset"
    <3>1. HmsetFails(t)
      BY <1>1, <2>2 DEF Dropped, State, key, history, HmsetFails, GoTo, TypeOK
    <3>2. QED
      BY <2>1, <3>1 DEF Validate, vars
  <2>3. CASE pc[t] = "clock"
    <3>1. ReadClock(t)
      BY <1>1, <2>3 DEF Dropped, State, key, history, ReadClock, GoTo
    <3>2. QED
      BY <2>1, <3>1 DEF Validate, vars
  <2>4. CASE pc[t] = "expire"
    <3>1. ExpireFails(t)
      BY <1>1, <2>4 DEF Dropped, State, key, history, ExpireFails, Stored, GoTo, TypeOK
    <3>2. QED
      BY <2>1, <3>1 DEF Validate, vars
  <2>5. QED
    BY <1>1, <2>2, <2>3, <2>4 DEF Storing
<1>2. ASSUME entry.timed, State' = Aged PROVE <<Tick>>_vars
  <2>1. Tick
    BY <1>2 DEF Aged, State, key, history, Tick
  <2>2. entry' # entry
    BY <1>2 DEF Aged, State, TypeOK, NoEntry
  <2>3. QED
    BY <2>1, <2>2 DEF vars
<1>3. QED
  BY <1>1, <1>2

\* Once the key is invalid no store begins, and the one a thread is in only goes
\* forward.
LEMMA StoringStep ==
  ASSUME TypeOK, [Next]_vars, ~Valid, NEW t \in Threads
  PROVE  /\ ~Valid'
         /\ ~Storing(t) => ~Storing(t)'
         /\ pc[t] = "expire" => pc'[t] = "expire" \/ ~Storing(t)'
         /\ pc[t] = "clock" => pc'[t] \in {"clock", "expire"} \/ ~Storing(t)'
         /\ pc[t] = "hmset" => pc'[t] \in {"hmset", "clock"} \/ ~Storing(t)'
<1>1. ~Valid'
  BY ValidNeverReturns
<1>2. ASSUME NEW u \in Threads, Begin(u) \/ Validate(u), Storing(t)'
      PROVE  /\ Storing(t)
             /\ pc[t] = "expire" => pc'[t] = "expire"
             /\ pc[t] = "clock" => pc'[t] \in {"clock", "expire"}
             /\ pc[t] = "hmset" => pc'[t] \in {"hmset", "clock"}
  BY <1>2 DEF Storing, TypeOK, GoTo, Begin, Validate, CacheHit, CacheMiss, CacheFails, Lookup,
     LookupFails, Hmset, HmsetFails, ReadClock, Expire, ExpireFails, Stored, Finish
<1>3. CASE Revoke \/ Tick \/ LoseEntry \/ Restart \/ UNCHANGED vars
  BY <1>1, <1>3 DEF Storing, Revoke, Tick, LoseEntry, Restart, vars
<1>4. QED
  BY <1>1, <1>2, <1>3 DEF Next, Storing

\* Stores of an invalid key end: a thread that is in one when the key becomes
\* invalid leaves it, and none begins again.
THEOREM StoresEnd ==
  ASSUME NEW t \in Threads
  PROVE  Spec /\ WF_vars(Validate(t)) /\ [](Storing(t) => ENABLED <<Validate(t)>>_vars)
         => (~Valid ~> []~Storing(t))
<1> DEFINE H == pc[t] = "hmset"
           C == pc[t] = "clock"
           E == pc[t] = "expire"
           S == Storing(t)
           V == Valid
<1>1. Inv /\ [Next]_vars =>
        /\ ~V => ~V'
        /\ ~V /\ ~S => ~S'
        /\ ~V /\ E => E' \/ ~S'
        /\ ~V /\ C => C' \/ E' \/ ~S'
        /\ ~V /\ H => H' \/ C' \/ ~S'
  BY StoringStep DEF Inv, Storing
<1>2. /\ Inv /\ H /\ <<Validate(t)>>_vars => ~H'
      /\ Inv /\ C /\ <<Validate(t)>>_vars => ~C'
      /\ Inv /\ E /\ <<Validate(t)>>_vars => ~E'
  BY DEF Inv, TypeOK, GoTo, Validate, CacheHit, CacheMiss, CacheFails, Lookup, LookupFails, Hmset,
     HmsetFails, ReadClock, Expire, ExpireFails, Stored, Finish
<1>3. S <=> H \/ C \/ E
  BY DEF Storing
<1> HIDE DEF H, C, E, S, V
<1>4. Spec /\ WF_vars(Validate(t)) /\ [](S => ENABLED <<Validate(t)>>_vars) => (~V ~> []~S)
  BY <1>1, <1>2, <1>3, KeyInvariant, PTL DEF Spec
<1>5. QED
  BY <1>4, PTL DEF S, V

\* What a step can do to the entry of an invalid key that nobody is storing:
\* only the clock changes it, or Redis loses it.
LEMMA QuietStep ==
  ASSUME TypeOK, [Next]_vars, Quiet
  PROVE  Quiet' /\ (entry' = entry \/ Tick \/ LoseEntry) /\ (unguarded => unguarded')
<1>1. Quiet'
  <2>1. ~Valid'
    BY ValidNeverReturns DEF Quiet
  <2>2. ASSUME NEW t \in Threads PROVE ~Storing(t)'
    <3>1. ~Storing(t) /\ ~Valid
      BY DEF Quiet, StoreUnderWay, Storing
    <3>2. QED
      BY <3>1, StoringStep
  <2>3. QED
    BY <2>1, <2>2 DEF Quiet, StoreUnderWay, Storing
<1>2. ASSUME NEW u \in Threads, Begin(u) \/ Validate(u)
      PROVE  entry' = entry /\ unguarded' = unguarded
  <2>1. ~Storing(u)
    BY DEF Quiet, StoreUnderWay, Storing
  <2>2. QED
    BY <1>2, <2>1 DEF Storing, history, Begin, Validate, CacheHit, CacheMiss, CacheFails, Lookup,
       LookupFails, Hmset, HmsetFails, ReadClock,
     Expire, ExpireFails, Stored, Finish
<1>3. (Revoke \/ UNCHANGED vars) => entry' = entry /\ unguarded' = unguarded
  BY DEF Revoke, vars, history
<1>4. (Tick \/ LoseEntry) => unguarded' = unguarded
  BY DEF Tick, LoseEntry
<1>5. Restart => entry' = entry /\ (unguarded => unguarded')
  BY DEF Restart
<1>6. QED
  BY <1>1, <1>2, <1>3, <1>4, <1>5 DEF Next

\* The entry of an invalid key runs out: its TTL goes down tick by tick, for
\* every TTL, unless Redis loses it before, and at the end the hash is gone.
THEOREM EntryRunsOut ==
  ASSUME NEW n \in Nat \ {0}
  PROVE  Spec /\ WF_vars(Tick) /\ [](entry.timed => ENABLED <<Tick>>_vars)
         => /\ (Quiet /\ entry.timed /\ entry.ttl = n + 1)
                  ~> (Quiet /\ ((entry.timed /\ entry.ttl = n) \/ entry.src = "none"))
            /\ (Quiet /\ entry.timed /\ entry.ttl = 1) ~> (Quiet /\ entry.src = "none")
<1> DEFINE T == entry.timed
           P == Quiet /\ entry.timed /\ entry.ttl = n + 1
           Q == Quiet /\ ((entry.timed /\ entry.ttl = n) \/ entry.src = "none")
           L == Quiet /\ entry.timed /\ entry.ttl = 1
           G == Quiet /\ entry.src = "none"
<1>1. ASSUME Inv, [Next]_vars, P, Tick PROVE Q'
  <2>1. Quiet'
    BY <1>1, QuietStep DEF Inv
  <2>2. entry' = [entry EXCEPT !.ttl = @ - 1]
    BY <1>1 DEF Tick
  <2>3. QED
    BY <1>1, <2>1, <2>2 DEF Inv, TypeOK
<1>2. ASSUME Inv, [Next]_vars, L, Tick PROVE G'
  <2>1. Quiet'
    BY <1>2, QuietStep DEF Inv
  <2>2. QED
    BY <1>2, <2>1 DEF Tick, NoEntry
<1>3. ASSUME Inv, [Next]_vars, Quiet, entry' = entry PROVE (P => P') /\ (L => L')
  <2>1. Quiet'
    BY <1>3, QuietStep DEF Inv
  <2>2. QED
    BY <1>3, <2>1
<1>4. ASSUME Inv, [Next]_vars, Quiet, LoseEntry PROVE Q' /\ G'
  <2>1. Quiet' /\ entry'.src = "none"
    BY <1>4, QuietStep DEF Inv, LoseEntry, NoEntry
  <2>2. QED
    BY <2>1
<1>5. Inv /\ [Next]_vars =>
        /\ P => P' \/ Q'
        /\ L => L' \/ G'
        /\ P /\ <<Tick>>_vars => Q'
        /\ L /\ <<Tick>>_vars => G'
  <2>1. Inv /\ [Next]_vars /\ Quiet => entry' = entry \/ Tick \/ LoseEntry
    BY QuietStep DEF Inv
  <2>2. QED
    BY <1>1, <1>2, <1>3, <1>4, <2>1
<1>6. (P => T) /\ (L => T)
  OBVIOUS
<1> HIDE DEF P, Q, L, G, T
<1>7. Spec /\ WF_vars(Tick) /\ [](T => ENABLED <<Tick>>_vars) => (P ~> Q) /\ (L ~> G)
  BY <1>5, <1>6, KeyInvariant, PTL DEF Spec
<1>8. QED
  BY <1>7, PTL DEF P, Q, L, G, T

\* InvalidKeyForgotten from the two things that take time: if the stores under
\* way end when the key has become invalid (StoresEnd, for each thread) and a
\* timed entry runs out (EntryRunsOut, tick by tick), then an invalid key is
\* forgotten for good, or its EXPIRE was lost.
THEOREM InvalidKeysAreForgotten ==
  /\ Spec
  /\ ~Valid ~> Quiet
  /\ (Quiet /\ entry.timed) ~> entry.src # "pg"
  => InvalidKeyForgotten
<1> DEFINE V == Valid
           R == Quiet
           T == entry.timed
           N == entry.src # "pg"
           U == unguarded
<1>1. ASSUME Inv, [Next]_vars, Quiet, entry.src # "pg" PROVE entry'.src # "pg"
  <2>1. entry' = entry \/ Tick \/ LoseEntry
    BY <1>1, QuietStep DEF Inv
  <2>2. Tick \/ LoseEntry => entry' \in {entry, NoEntry} \/ entry'.src = entry.src
    BY <1>1 DEF Tick, LoseEntry, Inv, TypeOK
  <2>3. QED
    BY <1>1, <2>1, <2>2 DEF NoEntry
<1>2. Inv /\ [Next]_vars =>
        /\ R => R'
        /\ R /\ U => U'
        /\ R /\ N => N'
  BY <1>1, QuietStep DEF Inv
<1>3. Inv /\ R => ~V /\ (T \/ N \/ U)
  BY DEF Inv, Quiet, UntimedEntryIsBeingExpired, ExpireOwed, StoreUnderWay
<1>4. N <=> entry.src # "pg"
  OBVIOUS
<1> HIDE DEF V, R, T, N, U
<1>5. Spec /\ (~V ~> R) /\ (R /\ T ~> N) => <>[](V \/ U \/ N)
  BY <1>2, <1>3, KeyInvariant, PTL DEF Spec
<1>6. QED
  BY <1>5, PTL DEF V, R, T, N, U, InvalidKeyForgotten
=============================================================================
