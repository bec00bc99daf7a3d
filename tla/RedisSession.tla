---------------------------- MODULE RedisSession ----------------------------
(***************************************************************************)
(* The Redis connections of a server: RedisConnection                      *)
(* (src/src/db/redis_connection.cpp) with its handshake, the one session   *)
(* of CacheAside that is repaired under a backoff                          *)
(* (src/src/db/cache_aside.cpp), the pool of idle sessions of              *)
(* ApiKeyValidator (src/src/auth/api_key_validator.cpp) and the session    *)
(* each readiness check opens (src/src/gateway/readiness_handler.cpp).     *)
(*                                                                         *)
(* What the commands do is left to ResourceCache and ApiKeyCache; here a   *)
(* command is answered, refused with an error reply, or breaks the         *)
(* connection.                                                             *)
(*                                                                         *)
(* Definitions named X_... are wrong versions of X that the properties are *)
(* shown to reject; no specification uses them.                            *)
(***************************************************************************)
EXTENDS Integers, Sequences, FiniteSets

CONSTANTS
  Threads,         \* threads that validate API keys
  HasPassword,     \* config_.password is not empty
  HasDb,           \* config_.db is not 0
  MaxIdle,         \* kMaxIdleConnections
  Backoff,         \* kReconnectBackoff, in ticks
  ConnectTimeout,  \* connect_timeout_ms, in ticks
  MaxLeaks         \* bound on constructors that fail half-way

ASSUME ConfigAssumption == HasPassword \in BOOLEAN /\ HasDb \in BOOLEAN
ASSUME BoundAssumption  == /\ MaxIdle \in Nat /\ MaxLeaks \in Nat
                           /\ Backoff \in Nat \ {0} /\ ConnectTimeout \in Nat
ASSUME ThreadsAssumption == IsFiniteSet(Threads)

VARIABLES
  server,   \* "up", "slow" (any exchange may time out) or "down"
  grants,   \* the server accepts the configured password, database and keys
  cache,    \* redis_ of CacheAside
  wait,     \* ticks until next_reconnect_
  idle,     \* idle_ of ApiKeyValidator
  conn,     \* the connection each validating thread holds
  pc,       \* where each of them is
  task,     \* what for: "read", "retry" (of from_cache) or "store"
  open,     \* contexts allocated and not freed
  leaked,   \* contexts whose owner's constructor threw
  kept,     \* history: the server has granted everything so far
  began,    \* history: ticks since the last reconnect that failed began, capped
  trouble   \* history: the server failed or refused during this validation

vars == <<server, grants, cache, wait, idle, conn, pc, task, open, leaked,
          kept, began, trouble>>

-----------------------------------------------------------------------------
(* RedisConnection *)

\* ctx is the pointer and its err field, alive whether the server still has the
\* session, auth and own whether it is logged in and on the configured database.
Conns == [ctx : {"null", "ok", "err"}, alive : BOOLEAN, auth : BOOLEAN, own : BOOLEAN]

NoConn == [ctx |-> "null", alive |-> FALSE, auth |-> FALSE, own |-> FALSE]
Ready  == [ctx |-> "ok",   alive |-> TRUE,  auth |-> TRUE,  own |-> TRUE]

\* A session the server accepted and did not hear of again.
Raw == [ctx |-> "ok", alive |-> TRUE, auth |-> ~HasPassword, own |-> ~HasDb]

IsConnected(c) == c.ctx = "ok"

Broken(c) == [c EXCEPT !.ctx = "err"]

\* AUTH or SELECT fails: no reply sets err in the context, an error reply
\* leaves it as it is.
Unfinished(c) == (IF server = "slow" THEN {Broken(c)} ELSE {})
                 \cup (IF server # "down" /\ ~grants THEN {c} ELSE {})

\* reconnect() after the old context was freed: the connection it leaves and
\* whether it returned or threw.  A context that failed to connect is freed; one
\* that failed in authenticate() or select_db() is not.
Threw == {[c |-> c, ok |-> FALSE] : c \in
             (IF server # "up" THEN {NoConn} ELSE {})
             \cup (IF HasPassword THEN Unfinished(Raw) ELSE {})
             \cup (IF HasDb THEN Unfinished([Raw EXCEPT !.auth = TRUE]) ELSE {})}

\* Wrong: a missing reply to AUTH or SELECT is taken for success.
Reconnect_IgnoresNull ==
  Threw \cup (IF server # "down" /\ (grants \/ Raw = Ready) THEN {[c |-> Ready, ok |-> TRUE]} ELSE {})
        \cup (IF server = "slow" THEN {[c |-> Raw, ok |-> TRUE]} ELSE {})

Reconnect ==
  Threw \cup (IF server # "down" /\ (grants \/ Raw = Ready) THEN {[c |-> Ready, ok |-> TRUE]} ELSE {})

\* How a command on a connected context ends, and what becomes of it.  Access
\* that is withdrawn is refused to sessions that were logged in before, or not.
Command(c) ==
  (IF c.alive /\ server # "down" /\ c.auth THEN {[c |-> c, result |-> "answered"]} ELSE {})
  \cup (IF c.alive /\ server # "down" /\ ~(c.auth /\ grants) THEN {[c |-> c, result |-> "refused"]} ELSE {})
  \cup (IF ~c.alive \/ server # "up" THEN {[c |-> Broken(c), result |-> "broken"]} ELSE {})

\* The number of contexts behind c: none, or one.
Contexts(c) == IF c.ctx = "null" THEN 0 ELSE 1

\* Wrong: a context that is not connected any more is overwritten.
Freed_WhenConnected(c) == IF IsConnected(c) THEN 1 ELSE 0

\* The contexts that reconnect() frees before it makes a new one.
Freed(c) == Contexts(c)

\* The server's side and the process as main() leaves them when it serves.
Init == /\ server = "up" /\ grants = TRUE
        /\ cache = Ready /\ wait = 0
        /\ idle = IF MaxIdle > 0 THEN <<Ready>> ELSE <<>>
        /\ conn = [t \in Threads |-> NoConn]
        /\ pc = [t \in Threads |-> "out"]
        /\ task = [t \in Threads |-> "read"]
        /\ open = 1 + Len(idle) /\ leaked = 0
        /\ kept = TRUE /\ began = Backoff
        /\ trouble = [t \in Threads |-> FALSE]

environment == <<server, grants, kept>>
cacheSide   == <<cache, wait, began>>
keySide     == <<idle, conn, pc, task, trouble>>

-----------------------------------------------------------------------------
(* CacheAside: every call holds mutex_ from ensure_connected_locked() on *)

\* The connection is taken to be up and the call sends its command.
CacheCommand ==
  /\ IsConnected(cache)
  /\ \E r \in Command(cache) : cache' = r.c
  /\ UNCHANGED <<environment, wait, began, keySide, open, leaked>>

Least(m, n) == IF m < n THEN m ELSE n

\* Wrong: next_reconnect_ is left where it was.
NextReconnect_Never(d) == 0

\* next_reconnect_ counts from before the attempt, which took d ticks.
NextReconnect(d) == IF d < Backoff THEN Backoff - d ELSE 0

\* Wrong: only a context that broke is replaced, none that is missing.
Disconnected_Broken(c) == c.ctx = "err"

Disconnected(c) == ~IsConnected(c)

\* The connection is down and the backoff is over.  A call during the backoff
\* returns at once and changes nothing.
CacheReconnect ==
  /\ Disconnected(cache)
  /\ wait = 0
  /\ \E o \in Reconnect :
       /\ open' = open - Freed(cache) + Contexts(o.c)
       /\ \/ /\ o.ok
             /\ \E r \in Command(o.c) : cache' = r.c
             /\ UNCHANGED <<wait, began>>
          \/ /\ ~o.ok
             /\ cache' = o.c
             /\ \E d \in IF server = "up" THEN {0} ELSE 0..ConnectTimeout :
                  wait' = NextReconnect(d) /\ began' = Least(d, Backoff)
  /\ UNCHANGED <<environment, keySide, leaked>>

-----------------------------------------------------------------------------
(* ApiKeyValidator: from_cache() and store_in_cache() *)

At(t, p, k, c) == /\ pc' = [pc EXCEPT ![t] = p]
                  /\ task' = [task EXCEPT ![t] = k]
                  /\ conn' = [conn EXCEPT ![t] = c]

Undisturbed == server = "up" /\ grants

Begin(t) ==
  /\ pc[t] = "out"
  /\ At(t, "acquire", "read", NoConn)
  /\ trouble' = [trouble EXCEPT ![t] = ~Undisturbed]
  /\ UNCHANGED <<environment, cacheSide, idle, open, leaked>>

\* acquire() pops connections until one is connected; those before it in its
\* way are freed.
Acquire(t) ==
  /\ pc[t] = "acquire"
  /\ LET connected == {i \in DOMAIN idle : IsConnected(idle[i])}
     IN  IF connected = {}
           THEN /\ idle' = <<>>
                /\ open' = open - Len(idle) - Contexts(conn[t])
                /\ At(t, "connect", task[t], NoConn)
           ELSE \E i \in connected :
                  /\ \A j \in connected : j <= i
                  /\ idle' = SubSeq(idle, 1, i - 1)
                  /\ open' = open - (Len(idle) - i) - Contexts(conn[t])
                  /\ At(t, "command", task[t], idle[i])
  /\ UNCHANGED <<environment, cacheSide, trouble, leaked>>

\* After an exception: from_cache() is over and the lookup in PostgreSQL may be
\* followed by store_in_cache(), which drops exceptions.
GivesUp(t) == IF task[t] = "store" THEN At(t, "out", "read", NoConn)
              ELSE At(t, "missed", task[t], NoConn)

\* The constructor of RedisConnection.  A connection it replaces is freed, and
\* so is it when the constructor throws; the context of a constructor that threw
\* is not.
Connect(t) ==
  /\ pc[t] = "connect"
  /\ \E o \in Reconnect :
       \/ /\ o.ok
          /\ At(t, "command", task[t], o.c)
          /\ open' = open - Contexts(conn[t]) + 1
          /\ UNCHANGED leaked
       \/ /\ ~o.ok
          /\ leaked + Contexts(o.c) <= MaxLeaks
          /\ GivesUp(t)
          /\ open' = open - Contexts(conn[t]) + Contexts(o.c)
          /\ leaked' = leaked + Contexts(o.c)
  /\ UNCHANGED <<environment, cacheSide, idle, trouble>>

\* Wrong: the retry takes another idle connection.
RetryAt_Acquire == "acquire"

\* Where from_cache() goes on when the command broke its connection.
RetryAt == "connect"

\* hgetall(), or hmset() and expire().
Send(t) ==
  /\ pc[t] = "command"
  /\ \E r \in Command(conn[t]) :
       \/ /\ r.result = "answered"
          /\ At(t, "release", task[t], r.c)
          /\ UNCHANGED open
       \/ /\ r.result = "broken" /\ task[t] = "read"
          /\ At(t, RetryAt, "retry", r.c)
          /\ UNCHANGED open
       \/ /\ r.result = "refused" \/ (r.result = "broken" /\ task[t] # "read")
          /\ GivesUp(t)
          /\ open' = open - 1
  /\ UNCHANGED <<environment, cacheSide, idle, trouble, leaked>>

\* Wrong: idle_ is not bounded.
Pools_Always(c) == IsConnected(c)

\* Whether release() keeps the connection.
Pools(c) == IsConnected(c) /\ Len(idle) < MaxIdle

Release(t) ==
  /\ pc[t] = "release"
  /\ IF Pools(conn[t])
       THEN idle' = Append(idle, conn[t]) /\ UNCHANGED open
       ELSE open' = open - 1 /\ UNCHANGED idle
  /\ \/ At(t, "out", "read", NoConn)
     \/ task[t] # "store" /\ At(t, "acquire", "store", NoConn)
  /\ UNCHANGED <<environment, cacheSide, trouble, leaked>>

\* The lookup after a failed from_cache(), and store_in_cache() if it finds the
\* key.
Lookup(t) ==
  /\ pc[t] = "missed"
  /\ At(t, "out", "read", NoConn) \/ At(t, "acquire", "store", NoConn)
  /\ UNCHANGED <<environment, cacheSide, idle, trouble, open, leaked>>

-----------------------------------------------------------------------------
(* The readiness check, the server and the clock *)

\* The handler's own connection: closed again, unless its constructor threw.
ReadyCheck ==
  /\ \E o \in Reconnect :
       /\ ~o.ok /\ leaked + Contexts(o.c) <= MaxLeaks
       /\ open' = open + Contexts(o.c)
       /\ leaked' = leaked + Contexts(o.c)
  /\ UNCHANGED <<environment, cacheSide, keySide>>

Dead(c) == [c EXCEPT !.alive = FALSE]

Troubles == trouble' = [t \in Threads |-> trouble[t] \/ pc[t] # "out"]

\* The server goes away and forgets its sessions, becomes slow, or recovers.
ServerChanges ==
  /\ server' \in {"up", "slow", "down"} \ {server}
  /\ IF server' = "down"
       THEN /\ cache' = Dead(cache)
            /\ idle' = [i \in DOMAIN idle |-> Dead(idle[i])]
            /\ conn' = [t \in Threads |-> Dead(conn[t])]
       ELSE UNCHANGED <<cache, idle, conn>>
  /\ Troubles
  /\ UNCHANGED <<grants, kept, wait, began, pc, task, open, leaked>>

\* Passwords, databases or access rights are changed on the server.
PolicyChanges ==
  /\ grants' = ~grants
  /\ kept' = FALSE
  /\ Troubles
  /\ UNCHANGED <<server, cacheSide, idle, conn, pc, task, open, leaked>>

\* The server drops all sessions (CLIENT KILL, an idle timeout).
Kill ==
  /\ server # "down"
  /\ cache' = Dead(cache)
  /\ idle' = [i \in DOMAIN idle |-> Dead(idle[i])]
  /\ conn' = [t \in Threads |-> Dead(conn[t])]
  /\ trouble' = [t \in Threads |-> trouble[t] \/ task[t] # "read"]
  /\ UNCHANGED <<environment, wait, began, pc, task, open, leaked>>

Tick ==
  /\ wait > 0 \/ began < Backoff
  /\ wait' = IF wait > 0 THEN wait - 1 ELSE 0
  /\ began' = Least(began + 1, Backoff)
  /\ UNCHANGED <<environment, cache, keySide, open, leaked>>

-----------------------------------------------------------------------------

CacheCall == CacheCommand \/ CacheReconnect

Validate(t) == Acquire(t) \/ Connect(t) \/ Send(t) \/ Release(t) \/ Lookup(t)

Next == \/ CacheCall \/ ReadyCheck
        \/ \E t \in Threads : Begin(t) \/ Validate(t)
        \/ ServerChanges \/ PolicyChanges \/ Kill \/ Tick

Spec == Init /\ [][Next]_vars

\* Requests keep coming to the cache and time passes.
FairSpec == Spec /\ WF_vars(CacheCall) /\ WF_vars(Tick)

-----------------------------------------------------------------------------

\* Types, with the places of a validation and the bound on idle_.
TypeOK == /\ server \in {"up", "slow", "down"} /\ grants \in BOOLEAN /\ kept \in BOOLEAN
          /\ cache \in Conns /\ wait \in 0..Backoff
          /\ began \in 0..Backoff
          /\ idle \in Seq(Conns) /\ Len(idle) <= MaxIdle
          /\ conn \in [Threads -> Conns]
          /\ pc \in [Threads -> {"out", "acquire", "connect", "command", "release", "missed"}]
          /\ task \in [Threads -> {"read", "retry", "store"}]
          /\ open \in Nat /\ leaked \in 0..MaxLeaks
          /\ trouble \in [Threads -> BOOLEAN]

\* A session that looks connected, as far as this process can know.
Usable(c) == IsConnected(c) /\ c.auth /\ c.own

\* As long as the server grants what the configuration asks for, a connected
\* session of the cache is logged in and on its own database: a handshake cut
\* short by a timeout is never mistaken for a session.
CacheSessionIsReady == kept => (IsConnected(cache) => Usable(cache))

\* Sessions that validations use or leave in idle_ have been through the whole
\* handshake, whatever the server refused: a failed constructor hands out none.
KeySessionsAreReady ==
  /\ \A i \in DOMAIN idle : Usable(idle[i])
  /\ \A t \in Threads : pc[t] \in {"command", "release"} => Usable(conn[t])

\* Every context is the cache's, idle, held by a thread, or was lost by a
\* constructor that threw: none is lost on the way through acquire(), the retry
\* and release().
ContextsAccountedFor ==
  open = Contexts(cache) + Len(idle) + Cardinality({t \in Threads : conn[t].ctx # "null"}) + leaked

\* Idle sessions that the server dropped before a validation began cost it
\* nothing: it reaches PostgreSQL's lookup by an exception only if the server
\* failed or refused something in the meantime.
StaleSessionsAreReplaced == \A t \in Threads : pc[t] = "missed" => trouble[t]

\* After an attempt of the cache to reconnect that failed, the next begins no
\* sooner than kReconnectBackoff after that one began, however long it took.  An
\* attempt that succeeds starts no backoff: the session it leaves may break at
\* once, and the next call replaces it at once.
FailuresAreSpaced == (~IsConnected(cache) /\ wait = 0) => began >= Backoff

\* A session that a refused handshake left behind: it looks connected, the
\* server has it, and it is not logged in or on the wrong database.
HalfOpen(c) == IsConnected(c) /\ c.alive /\ ~Usable(c)

ServerStaysWell == <>[](server = "up" /\ grants)

\* Once the server stays well, the cache gets a session again and again, unless
\* it is left for good with what a refused handshake left behind.
CacheRecoversUnlessHalfOpen == ServerStaysWell => []<>Usable(cache) \/ <>[]HalfOpen(cache)

\* "caching must resume instead of staying silently disabled until the process
\* restarts"
CachingResumes == ServerStaysWell => []<>Usable(cache)
=============================================================================
