---------------------------- MODULE ApiKeyCache -----------------------------
(***************************************************************************)
(* ApiKeyValidator::validate with the PostgreSQL lookup                    *)
(* (src/src/auth/api_key_validator.cpp, pg_api_key_lookup.cpp) for one API *)
(* key: threads that validate it, its row in api_keys, and the hash that   *)
(* caches it in Redis.                                                     *)
(*                                                                         *)
(* Time runs in half seconds, so that a key can expire between two whole   *)
(* seconds.  TTLs and the key's remaining life are counted down.  Redis    *)
(* and PostgreSQL may fail at any call, and Redis may lose the hash at any *)
(* time: it keeps nothing on disk and evicts keys (docker-compose.yml).    *)
(*                                                                         *)
(* Definitions named X_... are wrong versions of X that the properties are *)
(* shown to reject; no specification uses them.                            *)
(***************************************************************************)
EXTENDS Integers

CONSTANTS Threads,
          CacheTtl,   \* kCacheTtl, in seconds
          MaxLife     \* bound on the key's remaining life, in half seconds

ASSUME LifeAssumption == CacheTtl \in Nat \ {0} /\ MaxLife \in Nat

VARIABLES
  active,     \* api_keys.is_active
  expires,    \* api_keys.expires_at is not null
  life,       \* half seconds left until expires_at, 0 once it has passed
  roundUp,    \* half seconds that ::bigint adds to expires_at
  entry,      \* the Redis hash: its src field, whether it has a TTL, the TTL
  pc,         \* where each thread is
  read,       \* the life that cache_ttl_for read off the clock for the thread
  invalidFor, \* history: half seconds since the key became invalid, capped
  unguarded,  \* history: an entry was left without EXPIRE since the last one
  staleStore, \* history: the entry was stored or timed with the key invalid
  lag         \* history: how old that reading was when EXPIRE set the entry's TTL

vars == <<active, expires, life, roundUp, entry, pc, read, invalidFor, unguarded, staleStore, lag>>

Ticks(seconds) == 2 * seconds

\* "hmset" and "expire" are the two commands of store_in_cache, and "clock" is
\* cache_ttl_for between them; the last three are how validate() ends.
Places == {"idle", "cache", "lookup", "hmset", "clock", "expire",
           "accepted", "rejected", "unavailable"}

\* src is "pg" for an entry stored by the validator, "other" for one without
\* the marker, "none" when the hash does not exist.
NoEntry == [src |-> "none", timed |-> FALSE, ttl |-> 0]

\* The WHERE clause of the lookup.
Valid == active /\ (expires => life > 0)

Init == /\ active \in BOOLEAN
        /\ expires \in BOOLEAN
        /\ life \in IF expires THEN 0..MaxLife ELSE {0}
        /\ roundUp \in IF expires THEN {0, 1} ELSE {0}
        /\ entry \in {NoEntry, [src |-> "other", timed |-> FALSE, ttl |-> 0]}
        /\ pc = [t \in Threads |-> "idle"]
        /\ read = [t \in Threads |-> 0]
        /\ invalidFor = 0 /\ unguarded = FALSE /\ staleStore = FALSE /\ lag = 0

GoTo(t, p) == pc' = [pc EXCEPT ![t] = p]
key     == <<active, expires, life, roundUp>>
history == <<invalidFor, unguarded, staleStore, lag>>

-----------------------------------------------------------------------------
(* validate() *)

Begin(t) ==
  /\ pc[t] = "idle"
  /\ GoTo(t, "cache")
  /\ UNCHANGED <<key, entry, read, history>>

\* Wrong: a hit renews the TTL.
CacheHit_Renews(t) ==
  /\ pc[t] = "cache"
  /\ entry.src = "pg"
  /\ entry' = [entry EXCEPT !.timed = TRUE, !.ttl = Ticks(CacheTtl)]
  /\ GoTo(t, "accepted")
  /\ UNCHANGED <<key, read, history>>

\* from_cache() finds an entry that came from PostgreSQL.
CacheHit(t) ==
  /\ pc[t] = "cache"
  /\ entry.src = "pg"
  /\ GoTo(t, "accepted")
  /\ UNCHANGED <<key, entry, read, history>>

\* Wrong: an entry without the marker is taken for an invalid key.
CacheMiss_RejectsForeign(t) ==
  /\ pc[t] = "cache"
  /\ entry.src # "pg"
  /\ GoTo(t, IF entry.src = "other" THEN "rejected" ELSE "lookup")
  /\ UNCHANGED <<key, entry, read, history>>

\* There is no entry, or one without the marker.
CacheMiss(t) ==
  /\ pc[t] = "cache"
  /\ entry.src # "pg"
  /\ GoTo(t, "lookup")
  /\ UNCHANGED <<key, entry, read, history>>

\* Redis cannot be asked, on a pooled connection or on a fresh one.
CacheFails(t) ==
  /\ pc[t] = "cache"
  /\ GoTo(t, "lookup")
  /\ UNCHANGED <<key, entry, read, history>>

Lookup(t) ==
  /\ pc[t] = "lookup"
  /\ GoTo(t, IF Valid THEN "hmset" ELSE "rejected")
  /\ UNCHANGED <<key, entry, read, history>>

LookupFails(t) ==
  /\ pc[t] = "lookup"
  /\ GoTo(t, "unavailable")
  /\ UNCHANGED <<key, entry, read, history>>

\* HMSET writes the fields and leaves the TTL of an existing hash alone.
Marked == [entry EXCEPT !.src = "pg"]

\* Wrong: EXPIRE is forgotten.
Hmset_Only(t) ==
  /\ pc[t] = "hmset"
  /\ entry' = Marked
  /\ GoTo(t, "accepted")
  /\ staleStore' = (staleStore \/ ~Valid)
  /\ UNCHANGED <<key, read, invalidFor, unguarded, lag>>

Hmset(t) ==
  /\ pc[t] = "hmset"
  /\ entry' = Marked
  /\ GoTo(t, "clock")
  /\ staleStore' = (staleStore \/ ~Valid)
  /\ UNCHANGED <<key, read, invalidFor, unguarded, lag>>

\* HMSET throws, with or without having taken effect; the key is accepted.
HmsetFails(t) ==
  /\ pc[t] = "hmset"
  /\ GoTo(t, "accepted")
  /\ \/ UNCHANGED <<entry, history>>
     \/ /\ entry' = Marked
        /\ unguarded' = (unguarded \/ ~entry.timed)
        /\ staleStore' = (staleStore \/ ~Valid)
        /\ UNCHANGED <<invalidFor, lag>>
  /\ UNCHANGED <<key, read>>

\* cache_ttl_for, from the half seconds left: whole seconds, at most kCacheTtl,
\* at least one.
SecondsLeft(left) == (left + roundUp) \div 2

\* Wrong: the key's own expiry is ignored.
CacheTtlFor_IgnoresExpiry(left) == CacheTtl

CacheTtlFor(left) == LET ttl == IF expires /\ SecondsLeft(left) < CacheTtl
                                  THEN SecondsLeft(left) ELSE CacheTtl
                     IN  IF ttl < 1 THEN 1 ELSE ttl

\* cache_ttl_for reads the clock, before EXPIRE is sent.
ReadClock(t) ==
  /\ pc[t] = "clock"
  /\ read' = [read EXCEPT ![t] = life]
  /\ GoTo(t, "expire")
  /\ UNCHANGED <<key, entry, history>>

\* EXPIRE runs in Redis.  It has no effect on a hash that is gone.
RunExpire(t) ==
  IF entry.src = "none"
    THEN UNCHANGED <<entry, unguarded, staleStore, lag>>
    ELSE /\ entry' = [entry EXCEPT !.timed = TRUE, !.ttl = Ticks(CacheTtlFor(read[t]))]
         /\ unguarded' = FALSE
         /\ staleStore' = (staleStore \/ ~Valid)
         /\ lag' = read[t] - life

\* store_in_cache() ends.
Stored(t) == /\ GoTo(t, "accepted")
             /\ read' = [read EXCEPT ![t] = 0]
             /\ UNCHANGED <<key, invalidFor>>

Expire(t) ==
  /\ pc[t] = "expire"
  /\ RunExpire(t)
  /\ Stored(t)

\* EXPIRE throws, with or without having taken effect; the exception
\* is dropped and the key is accepted.
ExpireFails(t) ==
  /\ pc[t] = "expire"
  /\ \/ RunExpire(t)
     \/ /\ unguarded' = (unguarded \/ ~entry.timed)
        /\ UNCHANGED <<entry, staleStore, lag>>
  /\ Stored(t)

Finish(t) ==
  /\ pc[t] \in {"accepted", "rejected", "unavailable"}
  /\ GoTo(t, "idle")
  /\ UNCHANGED <<key, entry, read, history>>

-----------------------------------------------------------------------------
(* The key's row, the clock and the process *)

Revoke == /\ active
          /\ active' = FALSE
          /\ UNCHANGED <<expires, life, roundUp, entry, pc, read, history>>

CountDown(n) == IF n > 0 THEN n - 1 ELSE 0

\* How long an invalid key is followed: until its last entry must be gone.
Horizon == Ticks(CacheTtl)

Tick ==
  /\ life > 0 \/ entry.timed \/ (~Valid /\ invalidFor < Horizon)
  /\ life' = CountDown(life)
  /\ entry' = IF ~entry.timed THEN entry
              ELSE IF entry.ttl > 1 THEN [entry EXCEPT !.ttl = @ - 1] ELSE NoEntry
  /\ invalidFor' = IF ~Valid /\ invalidFor < Horizon THEN invalidFor + 1 ELSE invalidFor
  /\ staleStore' = (staleStore /\ entry'.src # "none")
  /\ lag' = IF entry'.src = "none" THEN 0 ELSE lag
  /\ UNCHANGED <<active, expires, roundUp, pc, read, unguarded>>

\* Redis evicts the hash, or restarts empty.
LoseEntry ==
  /\ entry.src # "none"
  /\ entry' = NoEntry
  /\ staleStore' = FALSE /\ lag' = 0
  /\ UNCHANGED <<key, pc, read, invalidFor, unguarded>>

\* A thread has stored the entry and not given it its TTL yet.
ExpireOwed == \E t \in Threads : pc[t] \in {"clock", "expire"}

\* The process dies and is started again.
Restart ==
  /\ \E t \in Threads : pc[t] # "idle"
  /\ pc' = [t \in Threads |-> "idle"]
  /\ read' = [t \in Threads |-> 0]
  /\ unguarded' = (unguarded \/ (~entry.timed /\ ExpireOwed))
  /\ UNCHANGED <<key, entry, invalidFor, staleStore, lag>>

-----------------------------------------------------------------------------

Validate(t) == \/ CacheHit(t) \/ CacheMiss(t) \/ CacheFails(t)
               \/ Lookup(t) \/ LookupFails(t)
               \/ Hmset(t) \/ HmsetFails(t) \/ ReadClock(t) \/ Expire(t) \/ ExpireFails(t)
               \/ Finish(t)

Next == \/ \E t \in Threads : Begin(t) \/ Validate(t)
        \/ Revoke \/ Tick \/ LoseEntry \/ Restart

Spec == Init /\ [][Next]_vars

\* A request under way goes on and time passes.
Fairness == (\A t \in Threads : WF_vars(Validate(t))) /\ WF_vars(Tick)

FairSpec == Spec /\ Fairness

-----------------------------------------------------------------------------

\* The types of the row, of the Redis hash and of the history.
TypeOK == /\ active \in BOOLEAN /\ expires \in BOOLEAN
          /\ life \in Nat /\ roundUp \in {0, 1}
          /\ entry \in [src : {"none", "other", "pg"}, timed : BOOLEAN, ttl : Nat]
          /\ entry.timed => entry.ttl \in 1..Ticks(CacheTtl)
          /\ pc \in [Threads -> Places]
          /\ read \in [Threads -> Nat]
          /\ invalidFor \in 0..Horizon /\ lag \in Nat
          /\ unguarded \in BOOLEAN /\ staleStore \in BOOLEAN

\* A key that is valid in PostgreSQL is never turned down: Redis failures, hand
\* written entries and races with other requests only lead to the lookup.
ValidKeyNeverRejected == \A t \in Threads : pc[t] = "rejected" => ~Valid

\* An entry of the validator without a TTL has its EXPIRE on the way, or lost
\* it to a failed command or a restart.
UntimedEntryIsBeingExpired ==
  (entry.src = "pg" /\ ~entry.timed)
     => unguarded \/ ExpireOwed

\* A store between whose lookup and whose EXPIRE the key may become invalid.
StoreUnderWay == \E t \in Threads : pc[t] \in {"hmset", "clock", "expire"}

\* kCacheTtl after a key was revoked or expired the cache does not know it any
\* more, unless its EXPIRE failed or it was stored after it became invalid.
InvalidKeyForgottenWithinTtl ==
  (~Valid /\ invalidFor >= Horizon)
     => entry.src # "pg" \/ unguarded \/ staleStore \/ StoreUnderWay

\* The cache outlives expires_at by less than a second (the floor of one second
\* in cache_ttl_for and the rounding of expires_at) and the time that passed from
\* its reading of the clock until EXPIRE ran in Redis, with the same exceptions.
\* ADR 0004 says "never past the key's own expiry", which the code does not keep.
ExpiryOverrunBounded ==
  (active /\ ~Valid /\ invalidFor >= Ticks(1) + lag)
     => entry.src # "pg" \/ unguarded \/ staleStore \/ StoreUnderWay

\* An invalid key whose entries all got their TTL is forgotten for good.
InvalidKeyForgotten == <>[](Valid \/ unguarded \/ entry.src # "pg")

\* "Revoking a key or letting it expire takes effect within that TTL, with no
\* Redis cleanup needed": an invalid key is forgotten for good.
InvalidKeyForgottenUnconditionally == <>[](Valid \/ entry.src # "pg")
=============================================================================
