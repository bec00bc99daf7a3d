--------------------------- MODULE ResourceCache ----------------------------
(***************************************************************************)
(* ResourceService (src/src/resources/resource_service.cpp) reading and    *)
(* writing one resource through CacheAside (src/src/db/cache_aside.cpp).   *)
(*                                                                         *)
(* PostgreSQL holds the row.  Redis holds the cached entry, with a TTL,    *)
(* and the version key that guards fills, with a longer one.  A get() that *)
(* misses reads the version, then the row, then stores the row if the      *)
(* version is still the same; an update() or remove() commits and then     *)
(* advances the version and deletes the entry in one script.  Rows are     *)
(* numbered by the commit that wrote them.                                 *)
(*                                                                         *)
(* Every call of CacheAside runs under its mutex_.  A call may find Redis  *)
(* unreachable, may fail without effect, or may go unanswered: its command *)
(* then runs late, after the caller went on, or never.                     *)
(* Redis keeps nothing on disk and evicts keys when it runs out of memory  *)
(* (docker-compose.yml): a key may vanish at any time, and all of them do  *)
(* when the server dies.                                                   *)
(*                                                                         *)
(* Definitions named X_... are wrong versions of X that the properties are *)
(* shown to reject; no specification uses them.                            *)
(***************************************************************************)
EXTENDS Integers, FiniteSets

CONSTANTS Threads,      \* the worker threads of the process
          EntryTtl,     \* kResourceCacheTtlSeconds, in ticks
          VersionTtl,   \* CacheConfig::version_ttl_seconds, in ticks
          MaxWrites,    \* bound on the commits that change the row
          MaxLate       \* bound on the unanswered commands under way

ASSUME TtlAssumption == EntryTtl \in Nat \ {0} /\ VersionTtl \in Nat \ {0}
ASSUME BoundAssumption == MaxWrites \in Nat /\ MaxLate \in Nat

VARIABLES
  row,       \* the row in PostgreSQL: the number of its last commit
  gone,      \* that commit deleted the row
  entry,     \* the cached entry: the row it holds and its TTL, 0 if absent
  ver,       \* the version key, 0 if absent
  verTtl,    \* its TTL
  late,      \* unanswered commands that may still run
  redisUp,   \* Redis accepts connections
  link,      \* the connection: "up", "down", or "stale": the server it led to is
             \* gone and is_connected() still true
  backoff,   \* now < next_reconnect_
  pc,        \* where each thread is
  seen,      \* the version a get() read
  rev,       \* the row a get() or a commit of the thread has in hand
  floor,     \* history: fence when the thread's get() began
  fence,     \* history: row when an eviction last ran in Redis
  missed,    \* history: an eviction was given up since one last ran
  lapsed     \* history: the version key was lost (it expired, was evicted by Redis
             \* or went with the server) while a fill was under way

redis   == <<entry, ver, verTtl, late>>
conn    == <<redisUp, link, backoff>>
locals  == <<pc, seen, rev, floor>>
history == <<fence, missed, lapsed>>
vars    == <<row, gone, redis, conn, locals, history>>

Places == {"idle", "lookup", "exists", "version", "fetch", "fetchOnly", "put",
           "reply", "write", "evict"}

NoEntry == [rev |-> 0, ttl |-> 0]
Cached  == entry.ttl > 0

PutCommand(v, r) == [op |-> "put", ver |-> v, rev |-> r]
EvictCommand(r)  == [op |-> "evict", ver |-> 0, rev |-> r]
Commands == [op : {"put", "evict"}, ver : Nat, rev : Nat]

Init == /\ row = 0 /\ gone = FALSE
        /\ entry = NoEntry /\ ver = 0 /\ verTtl = 0 /\ late = {}
        /\ redisUp = TRUE /\ link = "up" /\ backoff = FALSE
        /\ pc = [t \in Threads |-> "idle"]
        /\ seen = [t \in Threads |-> 0]
        /\ rev = [t \in Threads |-> 0]
        /\ floor = [t \in Threads |-> 0]
        /\ fence = 0 /\ missed = FALSE /\ lapsed = FALSE

-----------------------------------------------------------------------------
(* A call of CacheAside, seen by its caller *)

\* CacheAside::mutex_ is free: get() alone issues two commands under it.
MutexFree == \A t \in Threads : pc[t] # "exists"

\* ensure_connected_locked() is true and the command is answered.
Answered == /\ redisUp
            /\ link = "up" \/ (link = "down" /\ ~backoff)
            /\ link' = "up"
            /\ UNCHANGED <<redisUp, backoff>>

\* ensure_connected_locked() is false: within the backoff, or the reconnect
\* fails and starts one.
Unreachable == /\ link = "down"
               /\ backoff \/ ~redisUp
               /\ backoff' = TRUE
               /\ UNCHANGED <<redisUp, link>>

\* The command fails: an error reply keeps the connection, an I/O error or a
\* timeout breaks it.  A stale connection breaks on its first use.
Broken == /\ link # "down" \/ (redisUp /\ ~backoff)
          /\ link' = "down" \/ (link' = "up" /\ link # "stale" /\ redisUp)
          /\ UNCHANGED <<redisUp, backoff>>

\* An unanswered command may have been delivered, but to no server that is gone.
Unanswered(c) == /\ Broken
                 /\ link # "stale"
                 /\ Cardinality(late) < MaxLate
                 /\ late' = late \cup {c}
                 /\ UNCHANGED <<entry, ver, verTtl>>

GoTo(t, p) == pc' = [pc EXCEPT ![t] = p]

\* The call returns to the handler and the thread takes the next request.
Done(t) == /\ GoTo(t, "idle")
           /\ seen' = [seen EXCEPT ![t] = 0]
           /\ rev' = [rev EXCEPT ![t] = 0]
           /\ floor' = [floor EXCEPT ![t] = 0]

-----------------------------------------------------------------------------
(* The scripts run by Redis *)

\* Wrong: the entry is stored whatever the version is.
RunPut_Unguarded(v, r) ==
  /\ entry' = [rev |-> r, ttl |-> EntryTtl]
  /\ UNCHANGED <<ver, verTtl>>

\* kPutIfVersion
RunPut(v, r) ==
  /\ entry' = IF v = ver THEN [rev |-> r, ttl |-> EntryTtl] ELSE entry
  /\ UNCHANGED <<ver, verTtl>>

\* Wrong: DEL without INCR.
RunEvict_DeletesOnly ==
  /\ entry' = NoEntry
  /\ fence' = row
  /\ missed' = FALSE
  /\ UNCHANGED <<ver, verTtl, lapsed>>

\* kInvalidateVersioned
RunEvict ==
  /\ ver' = ver + 1
  /\ verTtl' = VersionTtl
  /\ entry' = NoEntry
  /\ fence' = row
  /\ missed' = FALSE
  /\ UNCHANGED lapsed

-----------------------------------------------------------------------------
(* ResourceService::get *)

BeginGet(t) ==
  /\ pc[t] = "idle"
  /\ GoTo(t, "lookup")
  /\ floor' = [floor EXCEPT ![t] = fence]
  /\ UNCHANGED <<row, gone, redis, conn, seen, rev, history>>

\* Wrong: a hit starts the entry's TTL afresh.
LookupHit_Renews(t) ==
  /\ pc[t] = "lookup" /\ MutexFree
  /\ Answered
  /\ Cached
  /\ rev' = [rev EXCEPT ![t] = entry.rev]
  /\ entry' = [entry EXCEPT !.ttl = EntryTtl]
  /\ GoTo(t, "reply")
  /\ UNCHANGED <<row, gone, ver, verTtl, late, seen, floor, history>>

LookupHit(t) ==
  /\ pc[t] = "lookup" /\ MutexFree
  /\ Answered
  /\ Cached
  /\ rev' = [rev EXCEPT ![t] = entry.rev]
  /\ GoTo(t, "reply")
  /\ UNCHANGED <<row, gone, redis, seen, floor, history>>

\* GET came back empty: EXISTS is asked next, under the same lock.
LookupEmpty(t) ==
  /\ pc[t] = "lookup" /\ MutexFree
  /\ Answered
  /\ ~Cached
  /\ GoTo(t, "exists")
  /\ UNCHANGED <<row, gone, redis, seen, rev, floor, history>>

LookupFails(t) ==
  /\ pc[t] = "lookup" /\ MutexFree
  /\ Unreachable \/ Broken
  /\ GoTo(t, "version")
  /\ UNCHANGED <<row, gone, redis, seen, rev, floor, history>>

ExistsMiss(t) ==
  /\ pc[t] = "exists"
  /\ (Answered /\ ~Cached) \/ Broken
  /\ GoTo(t, "version")
  /\ UNCHANGED <<row, gone, redis, seen, rev, floor, history>>

\* An entry appeared between GET and EXISTS: get() returns the empty string,
\* which json::parse rejects, and the handler answers internal_error.
ExistsEmpty(t) ==
  /\ pc[t] = "exists"
  /\ Answered
  /\ Cached
  /\ Done(t)
  /\ UNCHANGED <<row, gone, redis, history>>

ReadVersion(t) ==
  /\ pc[t] = "version" /\ MutexFree
  /\ Answered
  /\ seen' = [seen EXCEPT ![t] = ver]
  /\ GoTo(t, "fetch")
  /\ UNCHANGED <<row, gone, redis, rev, floor, history>>

\* version() is nullopt: the row will be read but not stored.
VersionFails(t) ==
  /\ pc[t] = "version" /\ MutexFree
  /\ Unreachable \/ Broken
  /\ GoTo(t, "fetchOnly")
  /\ UNCHANGED <<row, gone, redis, seen, rev, floor, history>>

\* find_by_id; a deleted row is answered with ResourceNotFound.
Fetch(t) ==
  /\ pc[t] \in {"fetch", "fetchOnly"}
  /\ rev' = [rev EXCEPT ![t] = row]
  /\ GoTo(t, IF pc[t] = "fetch" /\ ~gone THEN "put" ELSE "reply")
  /\ UNCHANGED <<row, gone, redis, conn, seen, floor, history>>

FetchFails(t) ==
  /\ pc[t] \in {"fetch", "fetchOnly"}
  /\ Done(t)
  /\ UNCHANGED <<row, gone, redis, conn, history>>

\* Wrong: put_if_version() does not take mutex_.
PutIfVersion_Unlocked(t) ==
  /\ pc[t] = "put"
  /\ Answered
  /\ RunPut(seen[t], rev[t])
  /\ GoTo(t, "reply")
  /\ UNCHANGED <<row, gone, late, seen, rev, floor, history>>

PutIfVersion(t) ==
  /\ pc[t] = "put" /\ MutexFree
  /\ Answered
  /\ RunPut(seen[t], rev[t])
  /\ GoTo(t, "reply")
  /\ UNCHANGED <<row, gone, late, seen, rev, floor, history>>

PutFails(t) ==
  /\ pc[t] = "put" /\ MutexFree
  /\ Unreachable \/ Broken
  /\ GoTo(t, "reply")
  /\ UNCHANGED <<row, gone, redis, seen, rev, floor, history>>

PutUnanswered(t) ==
  /\ pc[t] = "put" /\ MutexFree
  /\ Unanswered(PutCommand(seen[t], rev[t]))
  /\ GoTo(t, "reply")
  /\ UNCHANGED <<row, gone, seen, rev, floor, history>>

Reply(t) ==
  /\ pc[t] = "reply"
  /\ Done(t)
  /\ UNCHANGED <<row, gone, redis, conn, history>>

-----------------------------------------------------------------------------
(* ResourceService::update and ResourceService::remove *)

BeginWrite(t) ==
  /\ pc[t] = "idle"
  /\ GoTo(t, "write")
  /\ UNCHANGED <<row, gone, redis, conn, seen, rev, floor, history>>

\* The UPDATE or DELETE commits.
Commit(t) ==
  /\ pc[t] = "write"
  /\ ~gone
  /\ row < MaxWrites
  /\ row' = row + 1
  /\ gone' \in BOOLEAN
  /\ rev' = [rev EXCEPT ![t] = row + 1]
  /\ GoTo(t, "evict")
  /\ UNCHANGED <<redis, conn, seen, floor, history>>

\* No such row, unique_violation or a database error: nothing is committed and
\* nothing is evicted.
WriteFails(t) ==
  /\ pc[t] = "write"
  /\ Done(t)
  /\ UNCHANGED <<row, gone, redis, conn, history>>

\* The connection dies under COMMIT: the write took place, txn.commit() throws
\* and the eviction is never tried.
CommitInDoubt(t) ==
  /\ pc[t] = "write"
  /\ ~gone
  /\ row < MaxWrites
  /\ row' = row + 1
  /\ gone' \in BOOLEAN
  /\ Done(t)
  /\ missed' = TRUE
  /\ UNCHANGED <<redis, conn, fence, lapsed>>

Evict(t) ==
  /\ pc[t] = "evict" /\ MutexFree
  /\ Answered
  /\ RunEvict
  /\ Done(t)
  /\ UNCHANGED <<row, gone, late>>

\* "stale until TTL" is logged and the write is answered as a success.
EvictFails(t) ==
  /\ pc[t] = "evict" /\ MutexFree
  /\ Unreachable \/ Broken
  /\ Done(t)
  /\ missed' = TRUE
  /\ UNCHANGED <<row, gone, redis, fence, lapsed>>

EvictUnanswered(t) ==
  /\ pc[t] = "evict" /\ MutexFree
  /\ Unanswered(EvictCommand(rev[t]))
  /\ Done(t)
  /\ UNCHANGED <<row, gone, history>>

-----------------------------------------------------------------------------
(* Redis, the clock and the process *)

RunLatePut(c) ==
  /\ redisUp
  /\ c.op = "put"
  /\ RunPut(c.ver, c.rev)
  /\ late' = late \ {c}
  /\ UNCHANGED <<row, gone, conn, locals, history>>

RunLateEvict(c) ==
  /\ redisUp
  /\ c.op = "evict"
  /\ RunEvict
  /\ late' = late \ {c}
  /\ UNCHANGED <<row, gone, conn, locals>>

DropLate(c) ==
  /\ late' = late \ {c}
  /\ missed' = (missed \/ c.op = "evict")
  /\ UNCHANGED <<row, gone, entry, ver, verTtl, conn, locals, fence, lapsed>>

\* Redis is out of reach: the network is down, or the server hangs.
RedisDown == /\ redisUp
             /\ redisUp' = FALSE
             /\ UNCHANGED <<row, gone, redis, link, backoff, locals, history>>

RedisBack == /\ ~redisUp
             /\ redisUp' = TRUE
             /\ UNCHANGED <<row, gone, redis, link, backoff, locals, history>>

\* A thread that has read the version and has not stored its row yet.
Fetching == \E t \in Threads : pc[t] \in {"fetch", "put"}

\* A fill under way, by a thread or by a command that will run late.
Filling == Fetching \/ \E c \in late : c.op = "put"

\* The server dies.  --save "" and --appendonly no: what it held is gone, the
\* commands it had not run with it, and the next one starts empty.
RedisDies ==
  /\ entry' = NoEntry /\ ver' = 0 /\ verTtl' = 0 /\ late' = {}
  /\ redisUp' = FALSE
  /\ link' = IF link = "up" THEN "stale" ELSE link
  /\ missed' = (missed \/ \E c \in late : c.op = "evict")
  /\ lapsed' = (lapsed \/ (verTtl > 0 /\ Fetching))
  /\ UNCHANGED <<row, gone, backoff, locals, fence>>

\* --maxmemory-policy allkeys-lru: Redis evicts the entry, or the version key.
RedisEvictsEntry ==
  /\ Cached
  /\ entry' = NoEntry
  /\ UNCHANGED <<row, gone, ver, verTtl, late, conn, locals, history>>

RedisEvictsVersion ==
  /\ verTtl > 0
  /\ ver' = 0 /\ verTtl' = 0
  /\ lapsed' = (lapsed \/ Filling)
  /\ UNCHANGED <<row, gone, entry, late, conn, locals, fence, missed>>

CountDown(n) == IF n > 0 THEN n - 1 ELSE 0

\* A second passes: TTLs run down and the reconnect backoff ends.
Tick ==
  /\ Cached \/ verTtl > 0 \/ backoff
  /\ entry' = IF entry.ttl > 1 THEN [entry EXCEPT !.ttl = @ - 1] ELSE NoEntry
  /\ verTtl' = CountDown(verTtl)
  /\ ver' = IF verTtl > 1 THEN ver ELSE 0
  /\ lapsed' = (lapsed \/ (verTtl = 1 /\ Filling))
  /\ backoff' = FALSE
  /\ UNCHANGED <<row, gone, late, redisUp, link, locals, fence, missed>>

\* The process dies and is started again, which takes a reachable Redis.
Restart ==
  /\ redisUp
  /\ \E t \in Threads : pc[t] # "idle"
  /\ pc' = [t \in Threads |-> "idle"]
  /\ seen' = [t \in Threads |-> 0]
  /\ rev' = [t \in Threads |-> 0]
  /\ floor' = [t \in Threads |-> 0]
  /\ link' = "up" /\ backoff' = FALSE
  /\ missed' = (missed \/ \E t \in Threads : pc[t] = "evict")
  /\ UNCHANGED <<row, gone, redis, redisUp, fence, lapsed>>

-----------------------------------------------------------------------------

Get(t) == \/ LookupHit(t) \/ LookupEmpty(t) \/ LookupFails(t)
          \/ ExistsMiss(t) \/ ExistsEmpty(t) \/ ReadVersion(t) \/ VersionFails(t)
          \/ Fetch(t) \/ FetchFails(t)
          \/ PutIfVersion(t) \/ PutFails(t) \/ PutUnanswered(t) \/ Reply(t)

Write(t) == \/ Commit(t) \/ WriteFails(t) \/ CommitInDoubt(t)
            \/ Evict(t) \/ EvictFails(t) \/ EvictUnanswered(t)

Late == \E c \in late : RunLatePut(c) \/ RunLateEvict(c) \/ DropLate(c)

Next == \/ \E t \in Threads : BeginGet(t) \/ BeginWrite(t) \/ Get(t) \/ Write(t)
        \/ Late
        \/ RedisDown \/ RedisBack \/ RedisDies \/ RedisEvictsEntry \/ RedisEvictsVersion
        \/ Tick \/ Restart

Spec == Init /\ [][Next]_vars

\* Requests under way keep going (a thread that finds mutex_ free again and
\* again gets it at last), time passes, and an unanswered command is run or
\* lost at last.  Nothing makes a request arrive or Redis fail, evict or return.
Fairness == /\ \A t \in Threads : SF_vars(Get(t) \/ Write(t))
            /\ WF_vars(Late)
            /\ WF_vars(Tick)

FairSpec == Spec /\ Fairness

-----------------------------------------------------------------------------

RowTypes     == row \in Nat /\ gone \in BOOLEAN
RedisTypes   == /\ entry \in [rev : Nat, ttl : 0..EntryTtl]
                /\ ver \in Nat /\ verTtl \in 0..VersionTtl
                /\ late \subseteq Commands
ConnTypes    == redisUp \in BOOLEAN /\ link \in {"up", "stale", "down"} /\ backoff \in BOOLEAN
LocalTypes   == /\ pc \in [Threads -> Places]
                /\ seen \in [Threads -> Nat]
                /\ rev \in [Threads -> Nat]
                /\ floor \in [Threads -> Nat]
HistoryTypes == fence \in Nat /\ missed \in BOOLEAN /\ lapsed \in BOOLEAN

\* The types of the row, of what Redis holds, of the connection, of the
\* threads' locals and of the history.
TypeOK == RowTypes /\ RedisTypes /\ ConnTypes /\ LocalTypes /\ HistoryTypes

\* An eviction that a committed write still owes.
EvictionPending == \/ \E t \in Threads : pc[t] = "evict"
                   \/ \E c \in late : c.op = "evict"

\* The cache holds a row older than PostgreSQL's only while the eviction of a
\* committed write is under way or was given up, or the version key was lost
\* under a fill: no interleaving of fills and writes, and no loss of an entry or
\* of the connection, leaves a stale entry that nobody owes an eviction.
StaleOnlyWhileEvictionOwed ==
  (Cached /\ entry.rev < row) => EvictionPending \/ missed \/ lapsed

\* A get() answers with a row at least as new as any whose eviction had run
\* when it began, even if later evictions failed, until the version key is lost
\* under a fill: that fill may then store the row it read before an eviction.
AnswersAreFresh ==
  \A t \in Threads : pc[t] = "reply" => lapsed \/ rev[t] >= floor[t]

\* Whatever evictions failed, commits went unanswered or versions were lost,
\* once no more commits happen the cache is right again for good: every entry
\* has a TTL.
EventuallyCoherent == <>[](Cached => entry.rev = row)

\* Between the GET and the EXISTS of CacheAside::get no other thread stores an
\* entry, which the get would take for an empty value: only a command that its
\* caller gave up on can come between.
LookupIsAtomic ==
  [][\A t \in Threads : (pc[t] = "exists" /\ ~Cached /\ Cached') => late' # late]_vars

\* "Taken before the read so a write that lands during it is detected": while
\* the version key set by an eviction is alive, the cache does not hold a row
\* read before that eviction.
WritesDuringFillsAreDetected == (Cached /\ ver > 0) => entry.rev >= fence

ReadPlaces == {"lookup", "exists", "version", "fetch", "fetchOnly", "put"}

ReadStatus(t) == IF pc[t] \in ReadPlaces THEN "reading"
                 ELSE IF pc[t] = "reply" THEN "answered" ELSE "idle"

ReadAnswer(t) == IF pc[t] = "reply" THEN rev[t] ELSE 0

Contract == INSTANCE FreshReads WITH
              committed <- row,
              status <- [t \in Threads |-> ReadStatus(t)],
              answer <- [t \in Threads |-> ReadAnswer(t)]

\* ResourceService and CacheAside implement the contract of FreshReads.
ImplementsContract == Contract!Spec
=============================================================================
