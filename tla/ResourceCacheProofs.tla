------------------------ MODULE ResourceCacheProofs -------------------------
(***************************************************************************)
(* Proofs about ResourceCache, for every number of threads, writes and     *)
(* late commands and for all TTLs.                                         *)
(***************************************************************************)
EXTENDS ResourceCache, TLAPS

\* No row in hand, in the cache or in a late command is newer than the row in
\* PostgreSQL, and no fence is.
NothingFromTheFuture ==
  /\ fence <= row
  /\ entry.rev <= row
  /\ \A t \in Threads : floor[t] <= fence /\ rev[t] <= row
  /\ \A c \in late : c.rev <= row

\* A version that is gone reads as 0.
AbsentVersionIsZero == verTtl = 0 => ver = 0

\* A read that has its row has one no older than its floor.
ReadsAreFresh ==
  \A t \in Threads : /\ pc[t] = "put" => rev[t] >= floor[t]
                     /\ pc[t] = "reply" => lapsed \/ rev[t] >= floor[t]

\* The versions fills hold are not ahead of the version key, and a fill that
\* holds the current one has a row no older than the fence.
FillsAreGuarded ==
  /\ \A t \in Threads :
       /\ pc[t] \in {"fetch", "put"} => seen[t] <= ver
       /\ pc[t] = "put" /\ seen[t] = ver => rev[t] >= fence
  /\ \A c \in late :
       c.op = "put" => c.ver <= ver /\ (c.ver = ver => c.rev >= fence)

\* The cache is no older than the last eviction that ran.
EntryIsFresh == Cached => entry.rev >= fence

\* A row newer than the fence has its eviction pending, or given up.
EvictionsAccountedFor == fence < row => EvictionPending \/ missed

\* The inductive invariant; without a lapse of the version key, fills are
\* guarded and the entry is fresh.
Inv == /\ TypeOK
       /\ NothingFromTheFuture
       /\ AbsentVersionIsZero
       /\ ReadsAreFresh
       /\ ~lapsed => FillsAreGuarded /\ EntryIsFresh
       /\ EvictionsAccountedFor

-----------------------------------------------------------------------------

\* An empty cache and idle threads satisfy the invariant.
LEMMA InvInit == Init => Inv
<1> SUFFICES ASSUME Init PROVE Inv
  OBVIOUS
<1>1. RowTypes /\ ConnTypes /\ HistoryTypes
  BY DEF Init, RowTypes, ConnTypes, HistoryTypes
<1>2. RedisTypes /\ LocalTypes
  BY TtlAssumption DEF Init, RedisTypes, LocalTypes, NoEntry, Places
<1>3. NothingFromTheFuture /\ AbsentVersionIsZero /\ ReadsAreFresh
  BY DEF Init, NoEntry, NothingFromTheFuture, AbsentVersionIsZero, ReadsAreFresh
<1>4. FillsAreGuarded /\ EntryIsFresh /\ EvictionsAccountedFor
  BY DEF Init, NoEntry, FillsAreGuarded, EntryIsFresh, Cached, EvictionsAccountedFor
<1>5. QED
  BY <1>1, <1>2, <1>3, <1>4 DEF Inv, TypeOK

-----------------------------------------------------------------------------
(* Types *)

\* However a call ends, the connection keeps its types.
LEMMA ConnStep ==
  ASSUME ConnTypes, Answered \/ Unreachable \/ Broken
  PROVE  ConnTypes'
  BY DEF ConnTypes, Answered, Unreachable, Broken

\* A thread that moves on keeps the types of the locals.
LEMMA GoToStep ==
  ASSUME LocalTypes, NEW t \in Threads, NEW p \in Places, GoTo(t, p)
  PROVE  pc' \in [Threads -> Places]
  BY DEF LocalTypes, GoTo

\* So does one that has finished its request.
LEMMA DoneStep ==
  ASSUME LocalTypes, NEW t \in Threads, Done(t)
  PROVE  LocalTypes'
  BY DEF LocalTypes, Done, GoTo, Places

\* kPutIfVersion keeps the types of what Redis holds.
LEMMA RunPutStep ==
  ASSUME RedisTypes, NEW v \in Nat, NEW r \in Nat, RunPut(v, r), late' \subseteq Commands
  PROVE  RedisTypes'
  BY TtlAssumption DEF RedisTypes, RunPut

\* kInvalidateVersioned does, and of the history.
LEMMA RunEvictStep ==
  ASSUME RowTypes, RedisTypes, HistoryTypes, RunEvict, late' \subseteq Commands
  PROVE  RedisTypes' /\ HistoryTypes'
<1>1. RedisTypes'
  BY TtlAssumption DEF RedisTypes, RunEvict, NoEntry
<1>2. HistoryTypes'
  BY DEF RowTypes, HistoryTypes, RunEvict
<1>3. QED
  BY <1>1, <1>2

\* Every step keeps the types.
LEMMA TypeStep == TypeOK /\ [Next]_vars => TypeOK'
<1> SUFFICES ASSUME TypeOK, [Next]_vars PROVE TypeOK'
  OBVIOUS
<1> USE DEF TypeOK
<1>1. RowTypes'
  <2>1. UNCHANGED <<row, gone>> \/ \E t \in Threads : Commit(t) \/ CommitInDoubt(t)
    BY DEF Next, Get, Write, Late, vars, BeginGet, LookupHit, LookupEmpty, LookupFails,
       ExistsMiss, ExistsEmpty, ReadVersion, VersionFails, Fetch, FetchFails, PutIfVersion,
       PutFails, PutUnanswered, Reply, BeginWrite, WriteFails, Evict, EvictFails,
       EvictUnanswered, RunLatePut, RunLateEvict, DropLate, RedisDown, RedisBack, RedisDies,
       RedisEvictsEntry, RedisEvictsVersion, Tick, Restart
  <2>2. QED
    BY <2>1 DEF RowTypes, Commit, CommitInDoubt
<1>2. ConnTypes'
  <2>1. \/ UNCHANGED conn \/ Answered \/ Unreachable \/ Broken
        \/ RedisDown \/ RedisBack \/ RedisDies \/ Tick \/ Restart
    BY DEF Next, Get, Write, Late, vars, BeginGet, LookupHit, LookupEmpty, LookupFails,
       ExistsMiss, ExistsEmpty, ReadVersion, VersionFails, Fetch, FetchFails, PutIfVersion,
       PutFails, PutUnanswered, Reply, BeginWrite, Commit, WriteFails, CommitInDoubt, Evict,
       EvictFails, EvictUnanswered, RunLatePut, RunLateEvict, DropLate, Unanswered,
       RedisEvictsEntry, RedisEvictsVersion
  <2>2. QED
    BY <2>1, ConnStep DEF ConnTypes, conn, RedisDown, RedisBack, RedisDies, RedisEvictsEntry,
       RedisEvictsVersion, Tick, Restart
<1>3. RedisTypes'
  <2>1. ASSUME UNCHANGED redis PROVE RedisTypes'
    BY <2>1 DEF redis, RedisTypes
  <2>2. ASSUME NEW t \in Threads, PutIfVersion(t) \/ Evict(t) PROVE RedisTypes'
    <3>1. late' \subseteq Commands /\ seen[t] \in Nat /\ rev[t] \in Nat
      BY <2>2 DEF PutIfVersion, Evict, RedisTypes, LocalTypes
    <3>2. QED
      BY <2>2, <3>1, RunPutStep, RunEvictStep DEF PutIfVersion, Evict
  <2>3. ASSUME NEW t \in Threads, PutUnanswered(t) \/ EvictUnanswered(t) PROVE RedisTypes'
    BY <2>3 DEF PutUnanswered, EvictUnanswered, Unanswered, PutCommand, EvictCommand, Commands,
       RedisTypes, LocalTypes
  <2>4. ASSUME NEW c \in late, RunLatePut(c) \/ RunLateEvict(c) \/ DropLate(c)
        PROVE  RedisTypes'
    <3>1. late' \subseteq Commands /\ c.ver \in Nat /\ c.rev \in Nat
      BY <2>4 DEF RunLatePut, RunLateEvict, DropLate, RedisTypes, Commands
    <3>2. CASE DropLate(c)
      BY <3>1, <3>2 DEF DropLate, RedisTypes
    <3>3. QED
      BY <2>4, <3>1, <3>2, RunPutStep, RunEvictStep DEF RunLatePut, RunLateEvict
  <2>5. ASSUME Tick \/ RedisDies \/ RedisEvictsEntry \/ RedisEvictsVersion PROVE RedisTypes'
    BY <2>5, TtlAssumption DEF Tick, CountDown, NoEntry, RedisTypes, RedisDies, RedisEvictsEntry,
       RedisEvictsVersion
  <2>6. QED
    BY <2>1, <2>2, <2>3, <2>4, <2>5
    DEF Next, Get, Write, Late, vars, BeginGet, LookupHit, LookupEmpty, LookupFails,
       ExistsMiss, ExistsEmpty, ReadVersion, VersionFails, Fetch, FetchFails,
       PutFails, Reply, BeginWrite, Commit, WriteFails, CommitInDoubt, EvictFails,
       RedisDown, RedisBack, RedisDies, RedisEvictsEntry, RedisEvictsVersion, Restart
<1>4. LocalTypes'
  <2>1. ASSUME UNCHANGED locals PROVE LocalTypes'
    BY <2>1 DEF locals, LocalTypes
  <2>2. ASSUME NEW t \in Threads,
               \/ BeginGet(t) \/ LookupHit(t) \/ LookupEmpty(t) \/ LookupFails(t)
               \/ ExistsMiss(t) \/ ReadVersion(t) \/ VersionFails(t) \/ Fetch(t)
               \/ PutIfVersion(t) \/ PutFails(t) \/ PutUnanswered(t)
               \/ BeginWrite(t) \/ Commit(t)
        PROVE  LocalTypes'
    <3>1. \E p \in Places : GoTo(t, p)
      BY <2>2 DEF Places, BeginGet, LookupHit, LookupEmpty, LookupFails, ExistsMiss,
         ReadVersion, VersionFails, Fetch, PutIfVersion, PutFails, PutUnanswered, BeginWrite,
         Commit
    <3>2. pc' \in [Threads -> Places]
      BY <3>1, GoToStep
    <3>3. /\ seen' \in [Threads -> Nat]
          /\ rev' \in [Threads -> Nat]
          /\ floor' \in [Threads -> Nat]
      BY <2>2 DEF BeginGet, LookupHit, LookupEmpty, LookupFails, ExistsMiss,
         ReadVersion, VersionFails, Fetch, PutIfVersion, PutFails, PutUnanswered, BeginWrite,
         Commit, LocalTypes, RowTypes, RedisTypes, HistoryTypes
    <3>4. QED
      BY <3>2, <3>3 DEF LocalTypes
  <2>3. ASSUME NEW t \in Threads, Done(t) PROVE LocalTypes'
    BY <2>3, DoneStep
  <2>4. ASSUME Restart PROVE LocalTypes'
    BY <2>4 DEF Restart, LocalTypes, Places
  <2>5. QED
    BY <2>1, <2>2, <2>3, <2>4
    DEF Next, Get, Write, Late, vars, ExistsEmpty, FetchFails, Reply, WriteFails,
       CommitInDoubt, Evict, EvictFails, EvictUnanswered, RunLatePut, RunLateEvict, DropLate,
       RedisDown, RedisBack, RedisDies, RedisEvictsEntry, RedisEvictsVersion, Tick
<1>5. HistoryTypes'
  <2>1. ASSUME UNCHANGED history PROVE HistoryTypes'
    BY <2>1 DEF history, HistoryTypes
  <2>2. ASSUME RunEvict PROVE HistoryTypes'
    BY <2>2 DEF RunEvict, RowTypes, HistoryTypes
  <2>3. ASSUME UNCHANGED <<fence, lapsed>>, missed' \in BOOLEAN PROVE HistoryTypes'
    BY <2>3 DEF HistoryTypes
  <2>4. ASSUME UNCHANGED <<fence, missed>>, lapsed' \in BOOLEAN PROVE HistoryTypes'
    BY <2>4 DEF HistoryTypes
  <2>5. ASSUME RedisDies PROVE HistoryTypes'
    BY <2>5 DEF RedisDies, HistoryTypes
  <2>6. QED
    BY <2>1, <2>2, <2>3, <2>4, <2>5
    DEF Next, Get, Write, Late, vars, BeginGet, LookupHit, LookupEmpty, LookupFails,
       ExistsMiss, ExistsEmpty, ReadVersion, VersionFails, Fetch, FetchFails, PutIfVersion,
       PutFails, PutUnanswered, Reply, BeginWrite, Commit, WriteFails, CommitInDoubt, Evict,
       EvictFails, EvictUnanswered, RunLatePut, RunLateEvict, DropLate, RedisDown, RedisBack,
       RedisEvictsEntry, RedisEvictsVersion, Tick, Restart
<1>6. QED
  BY <1>1, <1>2, <1>3, <1>4, <1>5

-----------------------------------------------------------------------------
(* The parts of the invariant *)

\* No step brings a row into hand or cache that was not committed.
LEMMA FutureStep == Inv /\ [Next]_vars => NothingFromTheFuture'
<1> SUFFICES ASSUME Inv, [Next]_vars PROVE NothingFromTheFuture'
  OBVIOUS
<1> USE DEF Inv, TypeOK
<1>1. ASSUME UNCHANGED <<row, entry, late, fence>>,
             \A u \in Threads : /\ floor'[u] \in {floor[u], 0, fence}
                                /\ rev'[u] \in {rev[u], 0, row, entry.rev}
      PROVE  NothingFromTheFuture'
  BY <1>1 DEF NothingFromTheFuture, RowTypes, RedisTypes, HistoryTypes, LocalTypes
<1>2. ASSUME NEW t \in Threads,
             \/ BeginGet(t) \/ LookupHit(t) \/ LookupEmpty(t) \/ LookupFails(t)
             \/ ExistsMiss(t) \/ ReadVersion(t) \/ VersionFails(t) \/ Fetch(t)
             \/ PutFails(t) \/ BeginWrite(t) \/ ExistsEmpty(t) \/ FetchFails(t)
             \/ Reply(t) \/ WriteFails(t) \/ EvictFails(t)
      PROVE  NothingFromTheFuture'
  <2>1. UNCHANGED <<row, entry, late, fence>>
    BY <1>2 DEF redis, history, BeginGet, LookupHit, LookupEmpty, LookupFails, ExistsMiss,
       ReadVersion, VersionFails, Fetch, PutFails, BeginWrite, ExistsEmpty, FetchFails,
       Reply, WriteFails, EvictFails
  <2>2. \A u \in Threads : floor'[u] \in {floor[u], 0, fence}
    BY <1>2 DEF LocalTypes, Done, BeginGet, LookupHit, LookupEmpty, LookupFails, ExistsMiss,
       ReadVersion, VersionFails, Fetch, PutFails, BeginWrite, ExistsEmpty, FetchFails,
       Reply, WriteFails, EvictFails
  <2>3. \A u \in Threads : rev'[u] \in {rev[u], 0, row, entry.rev}
    BY <1>2 DEF LocalTypes, Done, BeginGet, LookupHit, LookupEmpty, LookupFails, ExistsMiss,
       ReadVersion, VersionFails, Fetch, PutFails, BeginWrite, ExistsEmpty, FetchFails,
       Reply, WriteFails, EvictFails
  <2>4. QED
    BY <1>1, <2>1, <2>2, <2>3
<1>3. ASSUME NEW t \in Threads, Commit(t) \/ CommitInDoubt(t) PROVE NothingFromTheFuture'
  BY <1>3 DEF NothingFromTheFuture, RowTypes, RedisTypes, HistoryTypes, LocalTypes, Commands,
     redis, history, Done, Commit, CommitInDoubt
<1>4. ASSUME NEW t \in Threads,
             PutIfVersion(t) \/ PutUnanswered(t) \/ Evict(t) \/ EvictUnanswered(t)
      PROVE  NothingFromTheFuture'
  BY <1>4 DEF NothingFromTheFuture, RowTypes, RedisTypes, HistoryTypes, LocalTypes, Commands,
     redis, conn, history, GoTo, Done, RunPut, RunEvict, NoEntry, Unanswered,
     PutCommand, EvictCommand, PutIfVersion, PutUnanswered, Evict, EvictUnanswered
<1>5. ASSUME NEW c \in late, RunLatePut(c) \/ RunLateEvict(c) \/ DropLate(c)
      PROVE  NothingFromTheFuture'
  <2>1. UNCHANGED <<row, rev, floor>> /\ late' \subseteq late
    BY <1>5 DEF locals, RunLatePut, RunLateEvict, DropLate
  <2>2. c.rev <= row /\ c.rev \in Nat
    BY DEF NothingFromTheFuture, RedisTypes, Commands
  <2>3. entry'.rev \in {entry.rev, 0, c.rev} /\ fence' \in {fence, row}
    BY <1>5 DEF RunPut, RunEvict, NoEntry, RunLatePut, RunLateEvict, DropLate, history
  <2>4. QED
    BY <2>1, <2>2, <2>3
       DEF NothingFromTheFuture, RowTypes, RedisTypes, HistoryTypes, LocalTypes, Commands
<1>6. ASSUME Tick \/ RedisDies \/ RedisEvictsEntry \/ RedisEvictsVersion
      PROVE  NothingFromTheFuture'
  BY <1>6 DEF NothingFromTheFuture, RowTypes, RedisTypes, HistoryTypes, LocalTypes, Commands,
     locals, history, NoEntry, Tick, RedisDies, RedisEvictsEntry, RedisEvictsVersion
<1>7. ASSUME RedisDown \/ RedisBack \/ Restart \/ UNCHANGED vars PROVE NothingFromTheFuture'
  BY <1>7 DEF NothingFromTheFuture, RowTypes, RedisTypes, HistoryTypes, LocalTypes,
     redis, locals, history, vars, RedisDown, RedisBack, RedisDies, RedisEvictsEntry,
     RedisEvictsVersion, Restart
<1>8. QED
  BY <1>2, <1>3, <1>4, <1>5, <1>6, <1>7 DEF Next, Get, Write, Late

\* A version key that expires reads as 0 again.
LEMMA AbsentStep == Inv /\ [Next]_vars => AbsentVersionIsZero'
<1> SUFFICES ASSUME Inv, [Next]_vars PROVE AbsentVersionIsZero'
  OBVIOUS
<1>1. UNCHANGED <<ver, verTtl>> \/ RunEvict \/ Tick \/ (ver' = 0 /\ verTtl' = 0)
  BY DEF Next, Get, Write, Late, vars, redis, BeginGet, LookupHit, LookupEmpty, LookupFails,
     ExistsMiss, ExistsEmpty, ReadVersion, VersionFails, Fetch, FetchFails, PutIfVersion,
     PutFails, PutUnanswered, Reply, BeginWrite, Commit, WriteFails, CommitInDoubt, Evict,
     EvictFails, EvictUnanswered, RunLatePut, RunLateEvict, DropLate, RedisDown, RedisBack,
     RedisDies, RedisEvictsEntry, RedisEvictsVersion,
     Restart, Unanswered, RunPut
<1>2. QED
  BY <1>1, TtlAssumption DEF AbsentVersionIsZero, RunEvict, Tick, CountDown, Inv, TypeOK, RedisTypes

\* Every way to obtain a row gives one no older than the floor of the read.
LEMMA ReadsStep == Inv /\ TypeOK' /\ [Next]_vars => ReadsAreFresh'
<1> SUFFICES ASSUME Inv, TypeOK', [Next]_vars PROVE ReadsAreFresh'
  OBVIOUS
<1> USE DEF Inv, TypeOK
<1>0. lapsed => lapsed'
  BY DEF Next, Get, Write, Late, vars, history, BeginGet, LookupHit, LookupEmpty, LookupFails,
     ExistsMiss, ExistsEmpty, ReadVersion, VersionFails, Fetch, FetchFails, PutIfVersion,
     PutFails, PutUnanswered, Reply, BeginWrite, Commit, WriteFails, CommitInDoubt, Evict,
     EvictFails, EvictUnanswered, RunLatePut, RunLateEvict, DropLate, RedisDown, RedisBack,
     RedisDies, RedisEvictsEntry, RedisEvictsVersion,
     Tick, Restart, RunEvict
<1>1. ASSUME NEW t \in Threads,
             \/ UNCHANGED <<pc[t], rev[t], floor[t]>>
             \/ pc'[t] \notin {"put", "reply"}
             \/ pc[t] = "put" /\ UNCHANGED <<rev[t], floor[t]>>
             \/ rev'[t] = row /\ floor'[t] = floor[t]
             \/ rev'[t] = entry.rev /\ floor'[t] = floor[t] /\ Cached /\ pc'[t] = "reply"
      PROVE  /\ pc'[t] = "put" => rev'[t] >= floor'[t]
             /\ pc'[t] = "reply" => lapsed' \/ rev'[t] >= floor'[t]
  <2>1. row >= floor[t]
    BY DEF NothingFromTheFuture, RowTypes, HistoryTypes, LocalTypes
  <2>2. Cached => lapsed \/ entry.rev >= floor[t]
    BY DEF NothingFromTheFuture, EntryIsFresh, RedisTypes, HistoryTypes, LocalTypes
  <2>3. QED
    BY <1>0, <1>1, <2>1, <2>2 DEF ReadsAreFresh
<1>2. ASSUME NEW t \in Threads, NEW u \in Threads,
             BeginGet(u) \/ BeginWrite(u) \/ Get(u) \/ Write(u)
      PROVE  \/ UNCHANGED <<pc[t], rev[t], floor[t]>>
             \/ pc'[t] \notin {"put", "reply"}
             \/ pc[t] = "put" /\ UNCHANGED <<rev[t], floor[t]>>
             \/ rev'[t] = row /\ floor'[t] = floor[t]
             \/ rev'[t] = entry.rev /\ floor'[t] = floor[t] /\ Cached /\ pc'[t] = "reply"
  BY <1>2 DEF LocalTypes, GoTo, Done, Get, Write, BeginGet, LookupHit, LookupEmpty, LookupFails,
     ExistsMiss, ExistsEmpty, ReadVersion, VersionFails, Fetch, FetchFails, PutIfVersion,
     PutFails, PutUnanswered, Reply, BeginWrite, Commit, WriteFails, CommitInDoubt, Evict,
     EvictFails, EvictUnanswered
<1>3. ASSUME UNCHANGED locals \/ Restart, NEW t \in Threads
      PROVE  \/ UNCHANGED <<pc[t], rev[t], floor[t]>>
             \/ pc'[t] \notin {"put", "reply"}
  BY <1>3 DEF locals, Restart
<1>4. QED
  BY <1>1, <1>2, <1>3 DEF ReadsAreFresh, Next, vars, Late, RunLatePut, RunLateEvict, DropLate,
     RedisDown, RedisBack, RedisDies, RedisEvictsEntry, RedisEvictsVersion, Tick

\* Without a lapse, every put and eviction leaves an entry no older than the fence.
LEMMA EntryStep == Inv /\ [Next]_vars /\ ~lapsed' => ~lapsed /\ EntryIsFresh'
<1> SUFFICES ASSUME Inv, [Next]_vars, ~lapsed' PROVE ~lapsed /\ EntryIsFresh'
  OBVIOUS
<1> USE DEF Inv, TypeOK
<1>0. ~lapsed
  BY DEF Next, Get, Write, Late, vars, history, BeginGet, LookupHit, LookupEmpty, LookupFails,
     ExistsMiss, ExistsEmpty, ReadVersion, VersionFails, Fetch, FetchFails, PutIfVersion,
     PutFails, PutUnanswered, Reply, BeginWrite, Commit, WriteFails, CommitInDoubt, Evict,
     EvictFails, EvictUnanswered, RunLatePut, RunLateEvict, DropLate, RedisDown, RedisBack,
     RedisDies, RedisEvictsEntry, RedisEvictsVersion,
     Tick, Restart, RunEvict
<1>1. ASSUME UNCHANGED <<entry, fence>> PROVE EntryIsFresh'
  BY <1>0, <1>1 DEF EntryIsFresh, Cached
<1>2. ASSUME RunEvict PROVE EntryIsFresh'
  BY <1>2 DEF RunEvict, NoEntry, EntryIsFresh, Cached
<1>3. ASSUME Tick \/ (entry' = NoEntry /\ UNCHANGED fence) PROVE EntryIsFresh'
  BY <1>0, <1>3 DEF Tick, NoEntry, EntryIsFresh, Cached, RedisTypes
<1>4. ASSUME NEW v, NEW r, RunPut(v, r), v = ver => r >= fence, fence' = fence
      PROVE  EntryIsFresh'
  BY <1>0, <1>4 DEF RunPut, EntryIsFresh, Cached
<1>5. ASSUME NEW t \in Threads, PutIfVersion(t) PROVE EntryIsFresh'
  BY <1>0, <1>4, <1>5 DEF PutIfVersion, FillsAreGuarded, history
<1>6. ASSUME NEW c \in late, RunLatePut(c) PROVE EntryIsFresh'
  BY <1>0, <1>4, <1>6 DEF RunLatePut, FillsAreGuarded, history
<1>7. QED
  BY <1>0, <1>1, <1>2, <1>3, <1>5, <1>6
  DEF Next, Get, Write, Late, vars, redis, history, BeginGet, LookupHit, LookupEmpty,
     LookupFails, ExistsMiss, ExistsEmpty, ReadVersion, VersionFails, Fetch, FetchFails,
     PutFails, PutUnanswered, Reply, BeginWrite, Commit, WriteFails, CommitInDoubt, Evict,
     EvictFails, EvictUnanswered, RunLateEvict, DropLate, RedisDown, RedisBack, RedisDies,
     RedisEvictsEntry, RedisEvictsVersion, Restart,
     Unanswered

\* Without a lapse, an eviction outdates every fill under way, and a row read after
\* it is no older than the fence.
LEMMA FillsStep == Inv /\ TypeOK' /\ [Next]_vars /\ ~lapsed' => FillsAreGuarded'
<1> SUFFICES ASSUME Inv, TypeOK', [Next]_vars, ~lapsed' PROVE FillsAreGuarded'
  OBVIOUS
<1> USE DEF Inv, TypeOK
<1>0. ~lapsed /\ FillsAreGuarded
  BY EntryStep
\* The fills of the threads and the fills that run late, one by one.
<1> DEFINE Guarded(v, r) == v <= ver /\ (v = ver => r >= fence)
           Guarded2(v, r) == v <= ver' /\ (v = ver' => r >= fence')
<1>1. ASSUME NEW v \in Nat, NEW r \in Nat, Guarded(v, r),
             UNCHANGED <<ver, fence>> \/ RunEvict
      PROVE  Guarded2(v, r)
  BY <1>1 DEF RunEvict, RedisTypes, RowTypes, HistoryTypes
<1>2. ASSUME NEW t \in Threads, UNCHANGED <<ver, fence>> \/ RunEvict,
             \/ UNCHANGED <<pc[t], seen[t], rev[t]>>
             \/ pc'[t] \notin {"fetch", "put"}
             \/ pc'[t] = "fetch" /\ seen'[t] = ver'
             \/ pc[t] = "fetch" /\ pc'[t] = "put" /\ seen'[t] = seen[t] /\ rev'[t] = row /\ fence' = fence
      PROVE  /\ pc'[t] \in {"fetch", "put"} => seen'[t] <= ver'
             /\ pc'[t] = "put" /\ seen'[t] = ver' => rev'[t] >= fence'
  BY <1>0, <1>2 DEF FillsAreGuarded, RunEvict, NothingFromTheFuture, RedisTypes, RowTypes,
     HistoryTypes, LocalTypes
<1>3. ASSUME NEW c \in late, UNCHANGED <<ver, fence>> \/ RunEvict, c.op = "put"
      PROVE  Guarded2(c.ver, c.rev)
  <2>1. c.ver \in Nat /\ c.rev \in Nat /\ Guarded(c.ver, c.rev)
    BY <1>0, <1>3 DEF FillsAreGuarded, RedisTypes, Commands
  <2>2. QED
    BY <1>1, <1>3, <2>1
<1>4. ASSUME NEW u \in Threads, BeginGet(u) \/ BeginWrite(u) \/ Get(u) \/ Write(u)
      PROVE  UNCHANGED <<ver, fence>> \/ RunEvict
  BY <1>4 DEF redis, history, Get, Write, BeginGet, LookupHit, LookupEmpty, LookupFails,
     ExistsMiss, ExistsEmpty, ReadVersion, VersionFails, Fetch, FetchFails, PutIfVersion,
     PutFails, PutUnanswered, Reply, BeginWrite, Commit, WriteFails, CommitInDoubt, Evict,
     EvictFails, EvictUnanswered, Unanswered, RunPut
<1>5. ASSUME NEW t \in Threads, NEW u \in Threads,
             BeginGet(u) \/ BeginWrite(u) \/ Get(u) \/ Write(u)
      PROVE  \/ UNCHANGED <<pc[t], seen[t], rev[t]>>
             \/ pc'[t] \notin {"fetch", "put"}
             \/ pc'[t] = "fetch" /\ seen'[t] = ver'
             \/ pc[t] = "fetch" /\ pc'[t] = "put" /\ seen'[t] = seen[t] /\ rev'[t] = row /\ fence' = fence
  BY <1>5 DEF LocalTypes, redis, history, GoTo, Done, Get, Write, BeginGet, LookupHit, LookupEmpty,
     LookupFails, ExistsMiss, ExistsEmpty, ReadVersion, VersionFails, Fetch, FetchFails, PutIfVersion,
     PutFails, PutUnanswered, Reply, BeginWrite, Commit, WriteFails, CommitInDoubt, Evict,
     EvictFails, EvictUnanswered
<1>6. ASSUME NEW u \in Threads, BeginGet(u) \/ BeginWrite(u) \/ Get(u) \/ Write(u),
             NEW c \in late', c.op = "put"
      PROVE  Guarded2(c.ver, c.rev)
  <2>1. CASE c \in late
    BY <1>3, <1>4, <1>6, <2>1
  <2>2. CASE c \notin late
    <3>1. PutUnanswered(u) /\ c = PutCommand(seen[u], rev[u])
      BY <1>6, <2>2 DEF redis, Get, Write, BeginGet, LookupHit, LookupEmpty,
        LookupFails, ExistsMiss, ExistsEmpty, ReadVersion, VersionFails, Fetch, FetchFails,
        PutIfVersion, PutFails, PutUnanswered, Reply, BeginWrite, Commit, WriteFails,
        CommitInDoubt, Evict, EvictFails, EvictUnanswered, Unanswered, EvictCommand
    <3>2. Guarded(seen[u], rev[u]) /\ UNCHANGED <<ver, fence>>
      BY <1>0, <3>1 DEF PutUnanswered, Unanswered, history, FillsAreGuarded
    <3>3. QED
      BY <3>1, <3>2 DEF PutCommand
  <2>3. QED
    BY <2>1, <2>2
<1>7. ASSUME NEW u \in Threads, BeginGet(u) \/ BeginWrite(u) \/ Get(u) \/ Write(u)
      PROVE  FillsAreGuarded'
  BY <1>2, <1>4, <1>5, <1>6, <1>7 DEF FillsAreGuarded
<1>8. ASSUME NEW c \in late, RunLatePut(c) \/ RunLateEvict(c) \/ DropLate(c)
      PROVE  FillsAreGuarded'
  <2>1. /\ UNCHANGED <<ver, fence>> \/ RunEvict
        /\ late' \subseteq late /\ UNCHANGED <<pc, seen, rev>>
    BY <1>8 DEF RunLatePut, RunLateEvict, DropLate, RunPut, locals, history
  <2>2. QED
    BY <1>2, <1>3, <2>1 DEF FillsAreGuarded
<1>9. ASSUME Tick PROVE FillsAreGuarded'
  <2>1. CASE verTtl = 1
    BY <1>9, <2>1 DEF Tick, Filling, Fetching, FillsAreGuarded, locals
  <2>2. CASE verTtl # 1
    <3>1. UNCHANGED <<ver, fence, late, pc, seen, rev>>
      BY <1>9, <2>2 DEF Tick, AbsentVersionIsZero, RedisTypes, locals
    <3>2. QED
      BY <1>0, <3>1 DEF FillsAreGuarded
  <2>3. QED
    BY <2>1, <2>2
<1>10. ASSUME RedisDown \/ RedisBack \/ RedisEvictsEntry \/ Restart \/ UNCHANGED vars
       PROVE  FillsAreGuarded'
  BY <1>0, <1>10 DEF FillsAreGuarded, RedisDown, RedisBack, RedisEvictsEntry, Restart, vars,
     redis, locals, history
<1>11. ASSUME RedisEvictsVersion PROVE FillsAreGuarded'
  BY <1>11 DEF RedisEvictsVersion, Filling, Fetching, FillsAreGuarded, locals
<1>12. ASSUME RedisDies PROVE FillsAreGuarded'
  <2>1. late' = {} /\ UNCHANGED <<fence, pc, seen, rev>>
    BY <1>12 DEF RedisDies, locals
  <2>2. CASE verTtl = 0
    <3>1. ver' = ver
      BY <1>12, <2>2 DEF RedisDies, AbsentVersionIsZero
    <3>2. QED
      BY <1>0, <2>1, <3>1 DEF FillsAreGuarded
  <2>3. CASE ~Fetching
    BY <2>1, <2>3 DEF Fetching, FillsAreGuarded
  <2>4. ~(verTtl > 0 /\ Fetching)
    BY <1>12, Zenon DEF RedisDies
  <2>5. QED
    BY <2>2, <2>3, <2>4 DEF RedisTypes
<1>13. QED
  BY <1>7, <1>8, <1>9, <1>10, <1>11, <1>12 DEF Next, Late

\* A commit leaves its eviction pending, and one that is given up is remembered.
LEMMA EvictionsStep == Inv /\ [Next]_vars => EvictionsAccountedFor'
<1> SUFFICES ASSUME Inv, [Next]_vars PROVE EvictionsAccountedFor'
  OBVIOUS
<1> USE DEF Inv, TypeOK
<1>1. ASSUME RunEvict, row' = row PROVE EvictionsAccountedFor'
  BY <1>1 DEF RunEvict, EvictionsAccountedFor, RowTypes
<1>2. ASSUME missed' PROVE EvictionsAccountedFor'
  BY <1>2 DEF EvictionsAccountedFor
<1>3. ASSUME EvictionPending' PROVE EvictionsAccountedFor'
  BY <1>3 DEF EvictionsAccountedFor
<1>4. ASSUME UNCHANGED <<row, fence, missed>>, late \subseteq late',
             \A t \in Threads : pc[t] = "evict" => pc'[t] = "evict"
      PROVE  EvictionsAccountedFor'
  BY <1>4 DEF EvictionsAccountedFor, EvictionPending
<1>5. ASSUME NEW u \in Threads, BeginGet(u) \/ BeginWrite(u) \/ Get(u) \/ WriteFails(u)
      PROVE  EvictionsAccountedFor'
  <2>1. UNCHANGED <<row, fence, missed>> /\ late \subseteq late'
    BY <1>5 DEF redis, history, Get, BeginGet, LookupHit, LookupEmpty, LookupFails,
       ExistsMiss, ExistsEmpty, ReadVersion, VersionFails, Fetch, FetchFails, PutIfVersion,
       PutFails, PutUnanswered, Reply, BeginWrite, WriteFails, Unanswered
  <2>2. \A t \in Threads : pc[t] = "evict" => pc'[t] = "evict"
    BY <1>5 DEF LocalTypes, GoTo, Done, Get, BeginGet, LookupHit, LookupEmpty, LookupFails,
       ExistsMiss, ExistsEmpty, ReadVersion, VersionFails, Fetch, FetchFails, PutIfVersion,
       PutFails, PutUnanswered, Reply, BeginWrite, WriteFails
  <2>3. QED
    BY <1>4, <2>1, <2>2
<1>6. ASSUME NEW u \in Threads, Commit(u) PROVE EvictionPending'
  BY <1>6 DEF Commit, GoTo, EvictionPending, LocalTypes
<1>7. ASSUME NEW u \in Threads, EvictUnanswered(u) PROVE EvictionPending'
  <2>1. EvictCommand(rev[u]) \in late'
    BY <1>7 DEF EvictUnanswered, Unanswered
  <2>2. EvictCommand(rev[u]).op = "evict"
    BY DEF EvictCommand
  <2>3. QED
    BY <2>1, <2>2 DEF EvictionPending
<1>8. ASSUME NEW u \in Threads, Write(u) PROVE EvictionsAccountedFor'
  BY <1>1, <1>2, <1>3, <1>5, <1>6, <1>7, <1>8 DEF Write, CommitInDoubt, Evict, EvictFails
<1>9. ASSUME NEW c \in late, RunLatePut(c) \/ RunLateEvict(c) \/ DropLate(c)
      PROVE  EvictionsAccountedFor'
  <2>1. CASE RunLateEvict(c)
    BY <1>1, <2>1 DEF RunLateEvict
  <2>2. CASE c.op = "evict" /\ DropLate(c)
    BY <1>2, <2>2 DEF DropLate
  <2>3. CASE c.op # "evict" /\ ~RunLateEvict(c)
    <3>0. missed => missed'
      BY <1>9, <2>3, Zenon DEF RunLatePut, DropLate, history
    <3>1. UNCHANGED <<row, fence, pc>> /\ late' = late \ {c} /\ (missed => missed')
      BY <1>9, <2>3, <3>0 DEF RunLatePut, DropLate, locals, history
    <3>2. EvictionPending => EvictionPending'
      BY <2>3, <3>1 DEF EvictionPending
    <3>3. QED
      BY <3>1, <3>2 DEF EvictionsAccountedFor
  <2>4. QED
    <3>1. DropLate(c) \/ RunLatePut(c) \/ RunLateEvict(c)
      BY <1>9
    <3>2. RunLatePut(c) => c.op # "evict"
      BY DEF RunLatePut
    <3>3. QED
      BY <2>1, <2>2, <2>3, <3>1, <3>2
<1>10. ASSUME Restart PROVE EvictionsAccountedFor'
  BY <1>10 DEF Restart, EvictionsAccountedFor, EvictionPending, redis
<1>11. ASSUME \/ RedisDown \/ RedisBack \/ RedisEvictsEntry \/ RedisEvictsVersion
              \/ Tick \/ UNCHANGED vars
       PROVE  EvictionsAccountedFor'
  BY <1>4, <1>11 DEF RedisDown, RedisBack, RedisEvictsEntry, RedisEvictsVersion, Tick, vars,
     redis, locals, history
<1>12. ASSUME RedisDies PROVE EvictionsAccountedFor'
  <2>1. UNCHANGED <<row, fence, pc>>
    BY <1>12 DEF RedisDies, locals
  <2>2. EvictionPending => missed' \/ EvictionPending'
    BY <1>12, <2>1 DEF RedisDies, EvictionPending
  <2>3. missed => missed'
    BY <1>12, Zenon DEF RedisDies
  <2>4. QED
    BY <2>1, <2>2, <2>3 DEF EvictionsAccountedFor
<1>13. QED
  BY <1>5, <1>8, <1>9, <1>10, <1>11, <1>12 DEF Next, Late

\* The inductive invariant holds in every reachable state.
THEOREM CacheInvariant == Spec => []Inv
<1>1. Inv /\ [Next]_vars => Inv'
  BY TypeStep, FutureStep, AbsentStep, ReadsStep, EntryStep, FillsStep, EvictionsStep DEF Inv
<1>2. QED
  BY <1>1, InvInit, PTL DEF Spec

\* Type correctness of ResourceCache for all constants.
THEOREM TypeCorrect == Spec => []TypeOK
  BY CacheInvariant, PTL DEF Inv

\* No interleaving of fills, writes, failures and restarts leaves a stale entry
\* that nobody owes an eviction, unless the version key was lost under a fill:
\* expired, evicted by Redis or gone with the server.
THEOREM NoUnaccountedStaleness == Spec => []StaleOnlyWhileEvictionOwed
<1>1. Inv => StaleOnlyWhileEvictionOwed
  <2> SUFFICES ASSUME Inv, Cached, entry.rev < row, ~lapsed
               PROVE  EvictionPending \/ missed
    BY DEF StaleOnlyWhileEvictionOwed
  <2>1. fence < row
    BY DEF Inv, TypeOK, RowTypes, RedisTypes, HistoryTypes, EntryIsFresh
  <2>2. QED
    BY <2>1 DEF Inv, EvictionsAccountedFor
<1>2. QED
  BY <1>1, CacheInvariant, PTL

\* A get() never answers with a row older than one whose eviction had run when
\* it began, unless the version key was lost under a fill since the start.
THEOREM FreshAnswers == Spec => []AnswersAreFresh
<1>1. Inv => AnswersAreFresh
  BY DEF Inv, ReadsAreFresh, AnswersAreFresh
<1>2. QED
  BY <1>1, CacheInvariant, PTL

-----------------------------------------------------------------------------
(* The contract *)

\* Only a get() under way has a floor.
FloorOfReads ==
  \A t \in Threads : pc[t] \in {"idle", "write", "evict"} => floor[t] = 0

\* Only a read that is under way has a floor.
LEMMA FloorInvariant == Spec => []FloorOfReads
<1>1. Init => FloorOfReads
  BY DEF Init, FloorOfReads
<1>2. ASSUME TypeOK, FloorOfReads, [Next]_vars PROVE FloorOfReads'
  <2>1. ASSUME NEW u \in Threads, BeginGet(u) \/ BeginWrite(u) \/ Get(u) \/ Write(u)
        PROVE  FloorOfReads'
    BY <1>2, <2>1 DEF TypeOK, LocalTypes, FloorOfReads, GoTo, Done, Get, Write, BeginGet,
       LookupHit, LookupEmpty, LookupFails, ExistsMiss, ExistsEmpty, ReadVersion, VersionFails,
       Fetch, FetchFails, PutIfVersion, PutFails, PutUnanswered, Reply, BeginWrite, Commit,
       WriteFails, CommitInDoubt, Evict, EvictFails, EvictUnanswered
  <2>2. ASSUME UNCHANGED locals \/ Restart PROVE FloorOfReads'
    BY <1>2, <2>2 DEF FloorOfReads, locals, Restart
  <2>3. QED
    BY <1>2, <2>1, <2>2 DEF Next, Late, vars, RunLatePut, RunLateEvict, DropLate, RedisDown,
       RedisBack, RedisDies, RedisEvictsEntry, RedisEvictsVersion, Tick
<1>3. QED
  BY <1>1, <1>2, TypeCorrect, PTL DEF Spec

\* A step that changes neither the row, the fence nor what the reads show is a
\* step the contract does not see.
LEMMA Unseen ==
  ASSUME UNCHANGED <<row, fence, lapsed, floor>>,
         \A t \in Threads : UNCHANGED <<ReadStatus(t), ReadAnswer(t)>>
  PROVE  UNCHANGED Contract!vars
  BY DEF Contract!vars

\* The initial states are initial states of the contract.
LEMMA ContractInit == Init => Contract!Init
  BY DEF Init, Contract!Init, ReadStatus, ReadAnswer, ReadPlaces

\* A read that obtains a fresh row is an Answer of the contract.
LEMMA ContractAnswer ==
  ASSUME Inv, NEW u \in Threads, ReadStatus(u) = "reading", pc' = [pc EXCEPT ![u] = "reply"],
         NEW r \in Nat, r <= row, lapsed \/ r >= floor[u], rev' = [rev EXCEPT ![u] = r],
         UNCHANGED <<row, fence, lapsed, floor>>
  PROVE  Contract!Answer(u)
<1>1. \A t \in Threads : ReadStatus(t)' = IF t = u THEN "answered" ELSE ReadStatus(t)
  BY DEF ReadStatus, ReadPlaces, Inv, TypeOK, LocalTypes
<1>2. \A t \in Threads : ReadAnswer(t)' = IF t = u THEN r ELSE ReadAnswer(t)
  BY DEF ReadAnswer, Inv, TypeOK, LocalTypes
<1>3. r \in Contract!Fresh(u)
  BY DEF Contract!Fresh, Inv, TypeOK, RowTypes
<1>4. QED
  BY <1>1, <1>2, <1>3 DEF Contract!Answer

\* A read that ends is a Finish of the contract.
LEMMA ContractFinish ==
  ASSUME Inv, NEW u \in Threads, ReadStatus(u) # "idle", Done(u),
         UNCHANGED <<row, fence, lapsed>>
  PROVE  Contract!Finish(u)
<1>1. \A t \in Threads : ReadStatus(t)' = IF t = u THEN "idle" ELSE ReadStatus(t)
  BY DEF ReadStatus, ReadPlaces, Done, GoTo, Inv, TypeOK, LocalTypes
<1>2. \A t \in Threads : ReadAnswer(t)' = IF t = u THEN 0 ELSE ReadAnswer(t)
  BY DEF ReadAnswer, Done, GoTo, Inv, TypeOK, LocalTypes
<1>3. QED
  BY <1>1, <1>2 DEF Contract!Finish, Done

\* Every write step of a thread leaves the reads as they are.
LEMMA WritersDoNotRead ==
  ASSUME Inv, FloorOfReads, NEW u \in Threads, BeginWrite(u) \/ Write(u)
  PROVE  floor' = floor /\ \A t \in Threads : UNCHANGED <<ReadStatus(t), ReadAnswer(t)>>
<1> USE DEF Inv, TypeOK, LocalTypes
<1>1. /\ pc[u] \in {"idle", "write", "evict"}
      /\ \E p \in {"idle", "write", "evict"} : pc' = [pc EXCEPT ![u] = p]
      /\ floor' = floor \/ floor' = [floor EXCEPT ![u] = 0]
      /\ \A t \in Threads : t # u => rev'[t] = rev[t]
  BY DEF BeginWrite, Write, Commit, WriteFails, CommitInDoubt, Evict, EvictFails, EvictUnanswered,
     Done, GoTo
<1>2. floor' = floor
  BY <1>1 DEF FloorOfReads
<1>3. QED
  BY <1>1, <1>2 DEF ReadStatus, ReadAnswer, ReadPlaces

\* Every step of a get() is a step of the contract, or none.
LEMMA ContractGet ==
  ASSUME Inv, NEW u \in Threads, Get(u)
  PROVE  Contract!Answer(u) \/ Contract!Finish(u) \/ UNCHANGED Contract!vars
<1> USE DEF Inv, TypeOK
<1>1. ASSUME LookupHit(u) PROVE Contract!Answer(u)
  <2>1. ReadStatus(u) = "reading" /\ pc' = [pc EXCEPT ![u] = "reply"]
    BY <1>1 DEF LookupHit, GoTo, ReadStatus, ReadPlaces
  <2>2. entry.rev \in Nat /\ entry.rev <= row /\ (lapsed \/ entry.rev >= floor[u])
    BY <1>1 DEF LookupHit, RedisTypes, HistoryTypes, LocalTypes, NothingFromTheFuture, EntryIsFresh
  <2>3. rev' = [rev EXCEPT ![u] = entry.rev] /\ UNCHANGED <<row, fence, lapsed, floor>>
    BY <1>1 DEF LookupHit, history
  <2>4. QED
    BY <2>1, <2>2, <2>3, ContractAnswer
<1>2. ASSUME PutIfVersion(u) \/ PutFails(u) \/ PutUnanswered(u) PROVE Contract!Answer(u)
  <2>1. ReadStatus(u) = "reading" /\ pc' = [pc EXCEPT ![u] = "reply"] /\ pc[u] = "put"
    BY <1>2 DEF PutIfVersion, PutFails, PutUnanswered, GoTo, ReadStatus, ReadPlaces
  <2>2. rev[u] \in Nat /\ rev[u] <= row /\ rev[u] >= floor[u]
    BY <2>1 DEF LocalTypes, NothingFromTheFuture, ReadsAreFresh
  <2>3. rev' = [rev EXCEPT ![u] = rev[u]] /\ UNCHANGED <<row, fence, lapsed, floor>>
    BY <1>2 DEF PutIfVersion, PutFails, PutUnanswered, history, LocalTypes
  <2>4. QED
    BY <2>1, <2>2, <2>3, ContractAnswer
<1>3. ASSUME Fetch(u) PROVE Contract!Answer(u) \/ UNCHANGED Contract!vars
  <2>1. UNCHANGED <<row, fence, lapsed, floor>> /\ rev' = [rev EXCEPT ![u] = row]
    BY <1>3 DEF Fetch, history
  <2>2. CASE pc' = [pc EXCEPT ![u] = "reply"]
    <3>1. ReadStatus(u) = "reading"
      BY <1>3 DEF Fetch, ReadStatus, ReadPlaces
    <3>2. row \in Nat /\ row <= row /\ row >= floor[u]
      BY DEF RowTypes, HistoryTypes, LocalTypes, NothingFromTheFuture
    <3>3. QED
      BY <2>1, <2>2, <3>1, <3>2, ContractAnswer
  <2>3. CASE pc' = [pc EXCEPT ![u] = "put"]
    <3>1. \A t \in Threads : UNCHANGED <<ReadStatus(t), ReadAnswer(t)>>
      BY <1>3, <2>1, <2>3 DEF Fetch, ReadStatus, ReadAnswer, ReadPlaces, LocalTypes
    <3>2. QED
      BY <2>1, <3>1, Unseen
  <2>4. QED
    BY <1>3, <2>2, <2>3 DEF Fetch, GoTo
<1>4. ASSUME ExistsEmpty(u) \/ FetchFails(u) \/ Reply(u) PROVE Contract!Finish(u)
  <2>1. ReadStatus(u) # "idle"
    BY <1>4 DEF ExistsEmpty, FetchFails, Reply, ReadStatus, ReadPlaces
  <2>2. QED
    BY <1>4, <2>1, ContractFinish DEF ExistsEmpty, FetchFails, Reply, history
<1>5. ASSUME \/ LookupEmpty(u) \/ LookupFails(u) \/ ExistsMiss(u)
             \/ ReadVersion(u) \/ VersionFails(u)
      PROVE  UNCHANGED Contract!vars
  <2>1. \A t \in Threads : UNCHANGED <<ReadStatus(t), ReadAnswer(t)>>
    BY <1>5 DEF LookupEmpty, LookupFails, ExistsMiss, ReadVersion, VersionFails, GoTo,
       ReadStatus, ReadAnswer, ReadPlaces, LocalTypes
  <2>2. UNCHANGED <<row, fence, lapsed, floor>>
    BY <1>5 DEF LookupEmpty, LookupFails, ExistsMiss, ReadVersion, VersionFails, history
  <2>3. QED
    BY <2>1, <2>2, Unseen
<1>6. QED
  BY <1>1, <1>2, <1>3, <1>4, <1>5 DEF Get

\* Every step of the system is a step of the contract, or none.
LEMMA ContractStep ==
  Inv /\ FloorOfReads /\ [Next]_vars => [Contract!Next]_Contract!vars
<1> SUFFICES ASSUME Inv, FloorOfReads, [Next]_vars
             PROVE  Contract!Next \/ UNCHANGED Contract!vars
  OBVIOUS
<1> USE DEF Inv, TypeOK
<1>1. ASSUME NEW u \in Threads, BeginGet(u) PROVE Contract!Begin(u)
  <2>1. \A t \in Threads : ReadStatus(t)' = IF t = u THEN "reading" ELSE ReadStatus(t)
    BY <1>1 DEF BeginGet, GoTo, ReadStatus, ReadPlaces, LocalTypes
  <2>2. \A t \in Threads : ReadAnswer(t)' = ReadAnswer(t)
    BY <1>1 DEF BeginGet, GoTo, ReadAnswer, LocalTypes
  <2>3. ReadStatus(u) = "idle"
    BY <1>1 DEF BeginGet, ReadStatus, ReadPlaces
  <2>4. QED
    BY <1>1, <2>1, <2>2, <2>3 DEF BeginGet, history, Contract!Begin
<1>2. ASSUME NEW u \in Threads, BeginWrite(u) \/ Write(u)
      PROVE  Contract!Write \/ Contract!RaiseFence \/ UNCHANGED Contract!vars
  <2>1. floor' = floor /\ \A t \in Threads : UNCHANGED <<ReadStatus(t), ReadAnswer(t)>>
    BY <1>2, WritersDoNotRead
  <2>2. \/ row' = row + 1 /\ UNCHANGED <<fence, lapsed>>
        \/ fence' = row /\ UNCHANGED <<row, lapsed>>
        \/ UNCHANGED <<row, fence, lapsed>>
    BY <1>2 DEF BeginWrite, Write, Commit, WriteFails, CommitInDoubt, Evict, EvictFails,
       EvictUnanswered, RunEvict, history
  <2>3. QED
    BY <2>1, <2>2, Unseen DEF Contract!Write, Contract!RaiseFence
<1>3. ASSUME UNCHANGED locals PROVE \A t \in Threads : UNCHANGED <<ReadStatus(t), ReadAnswer(t)>>
  BY <1>3 DEF locals, ReadStatus, ReadAnswer
<1>4. ASSUME NEW c \in late, RunLatePut(c) \/ RunLateEvict(c) \/ DropLate(c)
      PROVE  Contract!RaiseFence \/ UNCHANGED Contract!vars
  <2>1. /\ UNCHANGED locals
        /\ \/ fence' = row /\ UNCHANGED <<row, lapsed>>
           \/ UNCHANGED <<row, fence, lapsed>>
    BY <1>4 DEF RunLatePut, RunLateEvict, DropLate, RunEvict, history
  <2>2. QED
    BY <1>3, <2>1, Unseen DEF Contract!RaiseFence, locals
<1>5. ASSUME Tick \/ RedisDies \/ RedisEvictsVersion
      PROVE  Contract!Lapse \/ UNCHANGED Contract!vars
  <2>1. UNCHANGED locals /\ UNCHANGED <<row, fence>>
    BY <1>5 DEF Tick, RedisDies, RedisEvictsVersion
  <2>2. lapsed' = TRUE \/ lapsed' = lapsed
    BY <1>5, Zenon DEF Tick, RedisDies, RedisEvictsVersion, HistoryTypes
  <2>3. QED
    BY <1>3, <2>1, <2>2, Unseen DEF Contract!Lapse, locals
<1>6. ASSUME Restart PROVE Contract!Restart
  BY <1>6 DEF Restart, Contract!Restart, ReadStatus, ReadAnswer, ReadPlaces
<1>7. ASSUME RedisDown \/ RedisBack \/ RedisEvictsEntry \/ UNCHANGED vars
      PROVE  UNCHANGED Contract!vars
  <2>1. UNCHANGED locals /\ UNCHANGED <<row, fence, lapsed>>
    BY <1>7 DEF RedisDown, RedisBack, RedisDies, RedisEvictsEntry, RedisEvictsVersion, vars, history
  <2>2. QED
    BY <1>3, <2>1, Unseen DEF locals
<1>8. QED
  BY <1>1, <1>2, <1>4, <1>5, <1>6, <1>7, ContractGet DEF Next, Late, Contract!Next

\* ResourceService with CacheAside refines the contract of FreshReads, for all
\* constants.
THEOREM Refinement == Spec => ImplementsContract
<1>1. QED
  BY ContractInit, ContractStep, CacheInvariant, FloorInvariant, PTL
     DEF Spec, ImplementsContract, Contract!Spec

-----------------------------------------------------------------------------
(* GET and EXISTS of one lookup *)

\* What an entry appears by: put_if_version() of a thread that holds mutex_, or
\* a command that its caller gave up on.
LEMMA EntryAppears ==
  ASSUME TypeOK, [Next]_vars, ~Cached, Cached'
  PROVE  \/ \E u \in Threads : PutIfVersion(u)
         \/ \E c \in late : late' = late \ {c}
<1> USE DEF Cached
<1>1. entry' # entry
  OBVIOUS
<1>2. entry' # NoEntry
  BY DEF NoEntry
<1>3. ASSUME NEW u \in Threads,
             BeginGet(u) \/ BeginWrite(u) \/ Get(u) \/ Write(u), ~PutIfVersion(u)
      PROVE  FALSE
  <2>1. CASE BeginGet(u) \/ BeginWrite(u)
    BY <1>1, <2>1 DEF BeginGet, BeginWrite, redis
  <2>2. CASE Get(u)
    <3>1. CASE PutUnanswered(u)
      BY <1>1, <3>1 DEF PutUnanswered, Unanswered
    <3>2. CASE ~PutUnanswered(u)
      BY <1>1, <1>3, <2>2, <3>2 DEF Get, LookupHit, LookupEmpty, LookupFails, ExistsMiss,
         ExistsEmpty, ReadVersion, VersionFails, Fetch, FetchFails, PutFails, Reply, redis
    <3>3. QED
      BY <3>1, <3>2
  <2>3. CASE Write(u)
    BY <1>1, <1>2, <2>3 DEF Write, Commit, WriteFails, CommitInDoubt, Evict, EvictFails,
       EvictUnanswered, Unanswered, RunEvict, redis
  <2>4. QED
    BY <1>3, <2>1, <2>2, <2>3
<1>4. ASSUME Tick \/ RedisDies \/ RedisEvictsEntry PROVE FALSE
  <2>1. entry \in [rev : Nat, ttl : 0..EntryTtl]
    BY DEF TypeOK, RedisTypes
  <2>2. ~(entry.ttl > 1)
    BY <2>1, TtlAssumption
  <2>3. QED
    BY <1>2, <1>4, <2>2 DEF Tick, RedisDies, RedisEvictsEntry
<1>5. ASSUME RedisDown \/ RedisBack \/ RedisEvictsVersion \/ Restart \/ UNCHANGED vars PROVE FALSE
  BY <1>1, <1>5 DEF RedisDown, RedisBack, RedisDies, RedisEvictsEntry, RedisEvictsVersion,
     Restart, vars, redis
<1>6. ASSUME Late PROVE \E c \in late : late' = late \ {c}
  BY <1>6 DEF Late, RunLatePut, RunLateEvict, DropLate
<1>7. QED
  BY <1>3, <1>4, <1>5, <1>6 DEF Next

\* The two commands of CacheAside::get() are atomic for every thread that uses
\* the cache: only an unanswered command can store an entry between them.
THEOREM LookupAtomic == Spec => LookupIsAtomic
<1>1. ASSUME TypeOK, [Next]_vars, NEW t \in Threads, pc[t] = "exists", ~Cached, Cached'
      PROVE  late' # late
  <2>1. ASSUME NEW u \in Threads, PutIfVersion(u) PROVE FALSE
    BY <1>1, <2>1 DEF PutIfVersion, MutexFree
  <2>2. PICK c \in late : late' = late \ {c}
    BY <1>1, <2>1, EntryAppears
  <2>3. QED
    BY <2>2
<1>2. TypeOK /\ [Next]_vars =>
        [\A t \in Threads : (pc[t] = "exists" /\ ~Cached /\ Cached') => late' # late]_vars
  BY <1>1
<1>3. QED
  BY <1>2, TypeCorrect, PTL DEF Spec, LookupIsAtomic

-----------------------------------------------------------------------------
(* The cache is right again *)

\* No fill that a thread or an unanswered command is about to store carries a
\* row other than PostgreSQL's.
Current == /\ \A t \in Threads : pc[t] = "put" => rev[t] = row
           /\ \A c \in late : c.op = "put" => c.rev = row

Coherent == Cached => entry.rev = row

\* Between commits, fills that start carry the current row, and the entry only
\* changes to that row, goes, or ages.
LEMMA CurrentStep ==
  ASSUME TypeOK, Current, [Next]_vars, row' = row
  PROVE  /\ Current'
         /\ \/ entry' \in {entry, NoEntry, [rev |-> row, ttl |-> EntryTtl]}
            \/ Tick
<1> DEFINE Same == entry' \in {entry, NoEntry, [rev |-> row, ttl |-> EntryTtl]}
<1> USE DEF TypeOK, LocalTypes, Current
<1>1. ASSUME NEW t \in Threads,
             \/ LookupHit(t) \/ LookupEmpty(t) \/ LookupFails(t) \/ ExistsMiss(t)
             \/ ReadVersion(t) \/ VersionFails(t) \/ PutFails(t) \/ BeginGet(t) \/ BeginWrite(t)
      PROVE  Current' /\ Same
  BY <1>1 DEF LookupHit, LookupEmpty, LookupFails, ExistsMiss, ReadVersion, VersionFails, PutFails,
              BeginGet, BeginWrite, GoTo, redis
<1>2. ASSUME NEW t \in Threads, ExistsEmpty(t) \/ FetchFails(t) \/ Reply(t) \/ WriteFails(t) \/ EvictFails(t)
      PROVE  Current' /\ Same
  BY <1>2 DEF ExistsEmpty, FetchFails, Reply, WriteFails, EvictFails, Done, GoTo, redis
<1>3. ASSUME NEW t \in Threads, Fetch(t) PROVE Current' /\ Same
  BY <1>3 DEF Fetch, GoTo, redis
<1>4. ASSUME NEW t \in Threads, PutIfVersion(t) PROVE Current' /\ Same
  BY <1>4 DEF PutIfVersion, RunPut, GoTo
<1>5. ASSUME NEW t \in Threads, PutUnanswered(t) PROVE Current' /\ Same
  BY <1>5 DEF PutUnanswered, Unanswered, PutCommand, GoTo
<1>6. ASSUME NEW t \in Threads, Commit(t) \/ CommitInDoubt(t) PROVE FALSE
  BY <1>6 DEF Commit, CommitInDoubt, RowTypes
<1>7. ASSUME NEW t \in Threads, Evict(t) PROVE Current' /\ Same
  BY <1>7 DEF Evict, RunEvict, Done, GoTo
<1>8. ASSUME NEW t \in Threads, EvictUnanswered(t) PROVE Current' /\ Same
  BY <1>8 DEF EvictUnanswered, Unanswered, EvictCommand, Done, GoTo
<1>9. CASE Late
  <2>1. PICK c \in late : RunLatePut(c) \/ RunLateEvict(c) \/ DropLate(c)
    BY <1>9 DEF Late
  <2>2. late' = late \ {c} /\ UNCHANGED locals
    BY <2>1 DEF RunLatePut, RunLateEvict, DropLate
  <2>3. Same
    BY <2>1 DEF RunLatePut, RunPut, RunLateEvict, RunEvict, DropLate
  <2>4. QED
    BY <2>2, <2>3 DEF locals
<1>10. CASE \/ RedisDown \/ RedisBack \/ RedisDies \/ RedisEvictsEntry \/ RedisEvictsVersion
            \/ Tick \/ Restart \/ UNCHANGED vars
  BY <1>10 DEF RedisDown, RedisBack, RedisDies, RedisEvictsEntry, RedisEvictsVersion, Tick,
     Restart, redis, locals, vars
<1>11. QED
  BY <1>1, <1>2, <1>3, <1>4, <1>5, <1>6, <1>7, <1>8, <1>9, <1>10 DEF Next, Get, Write

\* None of that makes a coherent cache incoherent.
LEMMA CoherentStep ==
  ASSUME TypeOK, Current, Coherent, [Next]_vars, row' = row
  PROVE  Coherent'
<1>1. CASE Tick
  <2>1. entry' = NoEntry \/ (entry'.rev = entry.rev /\ entry.ttl > 1)
    BY <1>1 DEF Tick, NoEntry, TypeOK, RedisTypes
  <2>2. QED
    BY <2>1 DEF Coherent, Cached, NoEntry, TypeOK, RedisTypes
<1>2. CASE entry' \in {entry, NoEntry, [rev |-> row, ttl |-> EntryTtl]}
  BY <1>2 DEF Coherent, Cached, NoEntry
<1>3. QED
  BY <1>1, <1>2, CurrentStep

\* Coherence lasts: between commits a cache that holds the current row, with no
\* older fill under way, holds no other until the next commit, whatever
\* fails, expires or is run late.
THEOREM CoherenceLasts ==
  Spec /\ [][row' = row]_row => [](Current /\ Coherent => [](Current /\ Coherent))
<1>1. TypeOK /\ (Current /\ Coherent) /\ [Next]_vars /\ [row' = row]_row => (Current /\ Coherent)'
  BY CurrentStep, CoherentStep
<1>2. QED
  BY <1>1, TypeCorrect, PTL DEF Spec

\* The states after a lookup or a fill gives up on Redis, after an unanswered
\* command is lost, and after a second has passed.
GaveUp(t) == <<row, gone, redis,
               IF link # "down" THEN <<redisUp, "down", backoff>>
               ELSE IF backoff \/ ~redisUp THEN <<redisUp, link, TRUE>> ELSE conn,
               <<[pc EXCEPT ![t] = IF pc[t] = "put" THEN "reply" ELSE "version"], seen, rev, floor>>,
               history>>
Lost(c)   == <<row, gone, <<entry, ver, verTtl, late \ {c}>>, conn, locals,
               <<fence, missed \/ c.op = "evict", lapsed>>>>
Aged      == <<row, gone,
               <<IF entry.ttl > 1 THEN [entry EXCEPT !.ttl = @ - 1] ELSE NoEntry,
                 IF verTtl > 1 THEN ver ELSE 0, CountDown(verTtl), late>>,
               <<redisUp, link, FALSE>>, locals,
               <<fence, missed, lapsed \/ (verTtl = 1 /\ Filling)>>>>

\* A lookup that holds mutex_ does so on a connection that counts as up, and is
\* alone.
LookupsHoldTheLock ==
  \A t \in Threads : pc[t] = "exists" =>
     link # "down" /\ \A u \in Threads : pc[u] = "exists" => u = t

\* Whatever became of Redis, a fill that gets mutex_ and a lookup that holds it
\* can go on, an unanswered command can end, and an entry can age.
THEOREM CallsCanGoOn ==
  ASSUME TypeOK, LookupsHoldTheLock, NEW t \in Threads
  PROVE  /\ /\ (pc[t] = "put" /\ MutexFree) \/ pc[t] = "exists"
            /\ vars' = GaveUp(t)
            => <<Get(t) \/ Write(t)>>_vars
         /\ \A c \in late : vars' = Lost(c) => <<Late>>_vars
         /\ Cached /\ vars' = Aged => <<Tick>>_vars
<1>1. ASSUME pc[t] = "put", MutexFree, vars' = GaveUp(t) PROVE <<Get(t) \/ Write(t)>>_vars
  <2>1. /\ UNCHANGED <<row, gone, redis, seen, rev, floor, history>>
        /\ pc' = [pc EXCEPT ![t] = "reply"]
        /\ conn' = IF link # "down" THEN <<redisUp, "down", backoff>>
                   ELSE IF backoff \/ ~redisUp THEN <<redisUp, link, TRUE>> ELSE conn
    BY <1>1 DEF GaveUp, vars, locals
  <2>2. Unreachable \/ Broken
    BY <2>1 DEF conn, Unreachable, Broken, TypeOK, ConnTypes
  <2>3. PutFails(t) /\ pc'[t] # pc[t]
    BY <1>1, <2>1, <2>2 DEF PutFails, GoTo, TypeOK, LocalTypes
  <2>4. QED
    BY <2>3 DEF Get, vars, locals
<1>2. ASSUME pc[t] = "exists", vars' = GaveUp(t) PROVE <<Get(t) \/ Write(t)>>_vars
  <2>1. /\ UNCHANGED <<row, gone, redis, seen, rev, floor, history>>
        /\ pc' = [pc EXCEPT ![t] = "version"]
        /\ conn' = <<redisUp, "down", backoff>>
    BY <1>2 DEF GaveUp, vars, locals, LookupsHoldTheLock
  <2>2. Broken
    BY <1>2, <2>1 DEF conn, Broken, LookupsHoldTheLock
  <2>3. ExistsMiss(t) /\ pc'[t] # pc[t]
    BY <1>2, <2>1, <2>2 DEF ExistsMiss, GoTo, TypeOK, LocalTypes
  <2>4. QED
    BY <2>3 DEF Get, vars, locals
<1>3. ASSUME NEW c \in late, vars' = Lost(c) PROVE <<Late>>_vars
  <2>1. DropLate(c) /\ late' # late
    BY <1>3 DEF Lost, vars, DropLate, redis, history
  <2>2. QED
    BY <2>1 DEF Late, vars, redis
<1>4. ASSUME Cached, vars' = Aged PROVE <<Tick>>_vars
  <2>1. /\ entry' = IF entry.ttl > 1 THEN [entry EXCEPT !.ttl = @ - 1] ELSE NoEntry
        /\ verTtl' = CountDown(verTtl) /\ ver' = IF verTtl > 1 THEN ver ELSE 0
        /\ lapsed' = (lapsed \/ (verTtl = 1 /\ Filling))
        /\ backoff' = FALSE
        /\ UNCHANGED <<row, gone, late, redisUp, link, locals, fence, missed>>
    BY <1>4 DEF Aged, vars, redis, conn, history
  <2>2. Tick
    BY <1>4, <2>1 DEF Tick
  <2>3. entry' # entry
    BY <1>4, <2>1 DEF Cached, NoEntry, TypeOK, RedisTypes
  <2>4. QED
    BY <2>2, <2>3 DEF vars, redis
<1>5. QED
  BY <1>1, <1>2, <1>3, <1>4

\* While a lookup is between its GET and its EXISTS nobody else issues a command:
\* the connection stays up for it, and it is the only lookup there.
LEMMA LockStep ==
  ASSUME TypeOK, LookupsHoldTheLock, [Next]_vars
  PROVE  /\ LookupsHoldTheLock'
         /\ \A t \in Threads : pc[t] = "exists" => pc'[t] = "exists" \/ MutexFree'
<1> DEFINE Goal == /\ LookupsHoldTheLock'
                   /\ \A t \in Threads : pc[t] = "exists" => pc'[t] = "exists" \/ MutexFree'
<1> USE DEF TypeOK, LocalTypes, LookupsHoldTheLock, MutexFree
<1>1. ASSUME NEW t \in Threads,
             BeginGet(t) \/ BeginWrite(t) \/ Fetch(t) \/ FetchFails(t) \/ Reply(t)
               \/ Commit(t) \/ WriteFails(t) \/ CommitInDoubt(t)
      PROVE  Goal
  <2>1. UNCHANGED link /\ pc[t] # "exists"
    BY <1>1 DEF BeginGet, BeginWrite, Fetch, FetchFails, Reply, Commit, WriteFails, CommitInDoubt, conn
  <2>2. PICK p \in Places \ {"exists"} : pc' = [pc EXCEPT ![t] = p]
    BY <1>1 DEF BeginGet, BeginWrite, Fetch, FetchFails, Reply, Commit, WriteFails, CommitInDoubt, GoTo,
                Done, Places
  <2>3. QED
    BY <2>1, <2>2
<1>2. ASSUME NEW t \in Threads, LookupEmpty(t) PROVE Goal
  BY <1>2 DEF LookupEmpty, Answered, GoTo
<1>3. ASSUME NEW t \in Threads,
             \/ LookupHit(t) \/ LookupFails(t) \/ ReadVersion(t) \/ VersionFails(t)
             \/ PutIfVersion(t) \/ PutFails(t) \/ PutUnanswered(t)
             \/ Evict(t) \/ EvictFails(t) \/ EvictUnanswered(t)
      PROVE  Goal
  <2>1. MutexFree /\ \E p \in Places \ {"exists"} : pc' = [pc EXCEPT ![t] = p]
    BY <1>3 DEF LookupHit, LookupFails, ReadVersion, VersionFails, PutIfVersion, PutFails, PutUnanswered,
                Evict, EvictFails, EvictUnanswered, GoTo, Done, Places
  <2>2. QED
    BY <2>1
<1>4. ASSUME NEW t \in Threads, ExistsMiss(t) \/ ExistsEmpty(t) PROVE Goal
  <2>1. pc[t] = "exists" /\ \E p \in Places \ {"exists"} : pc' = [pc EXCEPT ![t] = p]
    BY <1>4 DEF ExistsMiss, ExistsEmpty, GoTo, Done, Places
  <2>2. QED
    BY <2>1
<1>5. CASE \/ Late \/ RedisDown \/ RedisBack \/ RedisDies \/ RedisEvictsEntry
           \/ RedisEvictsVersion \/ Tick \/ Restart \/ UNCHANGED vars
  BY <1>5 DEF Late, RunLatePut, RunLateEvict, DropLate, RedisDown, RedisBack, RedisDies,
     RedisEvictsEntry, RedisEvictsVersion, Tick, Restart,
              conn, locals, vars
<1>6. QED
  BY <1>1, <1>2, <1>3, <1>4, <1>5 DEF Next, Get, Write

\* The two commands of CacheAside::get() run on one connection, and for one
\* thread at a time.
THEOREM LookupsExclusive == Spec => []LookupsHoldTheLock
<1>1. Init => LookupsHoldTheLock
  BY DEF Init, LookupsHoldTheLock
<1>2. TypeOK /\ LookupsHoldTheLock /\ [Next]_vars => LookupsHoldTheLock'
  BY LockStep
<1>3. QED
  BY <1>1, <1>2, TypeCorrect, PTL DEF Spec

\* mutex_ of CacheAside is given up: a lookup that is kept scheduled leaves the
\* place between GET and EXISTS, and nobody else is there.
THEOREM LockIsReleased ==
  ASSUME NEW t \in Threads
  PROVE  /\ Spec /\ SF_vars(Get(t) \/ Write(t))
         /\ [](pc[t] = "exists" => ENABLED <<Get(t) \/ Write(t)>>_vars)
         => (pc[t] = "exists" ~> MutexFree)
<1> DEFINE E == pc[t] = "exists"
           A == Get(t) \/ Write(t)
<1>1. TypeOK /\ LookupsHoldTheLock /\ E /\ [Next]_vars => E' \/ MutexFree'
  BY LockStep
<1>2. TypeOK /\ E /\ <<A>>_vars => ~E'
  BY DEF TypeOK, LocalTypes, Get, Write, LookupHit, LookupEmpty, LookupFails, ExistsMiss, ExistsEmpty,
         ReadVersion, VersionFails, Fetch, FetchFails, PutIfVersion, PutFails, PutUnanswered, Reply,
         Commit, WriteFails, CommitInDoubt, Evict, EvictFails, EvictUnanswered, GoTo, Done
<1> HIDE DEF E, A
<1>3. Spec /\ SF_vars(A) /\ [](E => ENABLED <<A>>_vars) => (E ~> MutexFree)
  BY <1>1, <1>2, TypeCorrect, LookupsExclusive, PTL DEF Spec
<1>4. QED
  BY <1>3, PTL DEF E, A

\* A fill with an old row in hand ends: between commits, a thread that has one
\* stores it or gives it up, although other threads may take mutex_ each time it
\* is free, and has none after that.
THEOREM StaleFillsEnd ==
  ASSUME NEW t \in Threads
  PROVE  /\ Spec /\ SF_vars(Get(t) \/ Write(t)) /\ [][row' = row]_row
         /\ [](pc[t] = "put" /\ MutexFree => ENABLED <<Get(t) \/ Write(t)>>_vars)
         /\ []<>MutexFree
         => <>[](pc[t] = "put" => rev[t] = row)
<1> DEFINE P == pc[t] = "put"
           S == pc[t] = "put" /\ rev[t] # row
           C == pc[t] = "put" => rev[t] = row
           A == Get(t) \/ Write(t)
           M == MutexFree
<1>1. ASSUME TypeOK, [Next]_vars, row' = row, C PROVE C'
  <2> USE DEF TypeOK, LocalTypes
  <2>1. ASSUME NEW u \in Threads, Fetch(u) PROVE C'
    BY <1>1, <2>1 DEF Fetch, GoTo
  <2>2. ASSUME NEW u \in Threads, BeginGet(u) \/ BeginWrite(u) \/ (Get(u) /\ ~Fetch(u)) PROVE C'
    BY <1>1, <2>2 DEF BeginGet, BeginWrite, Get, LookupHit, LookupEmpty, LookupFails, ExistsMiss,
       ExistsEmpty, ReadVersion, VersionFails, FetchFails, PutIfVersion, PutFails, PutUnanswered, Reply,
       GoTo, Done
  <2>3. ASSUME NEW u \in Threads, Write(u) PROVE C'
    BY <1>1, <2>3 DEF RowTypes, Write, Commit, WriteFails, CommitInDoubt, Evict, EvictFails, EvictUnanswered,
       GoTo, Done
  <2>4. CASE \/ Late \/ RedisDown \/ RedisBack \/ RedisDies \/ RedisEvictsEntry
             \/ RedisEvictsVersion \/ Tick \/ Restart \/ UNCHANGED vars
    BY <1>1, <2>4 DEF Late, RunLatePut, RunLateEvict, DropLate, RedisDown, RedisBack, RedisDies,
       RedisEvictsEntry, RedisEvictsVersion, Tick, Restart,
       locals, vars
  <2>5. QED
    BY <1>1, <2>1, <2>2, <2>3, <2>4 DEF Next
<1>2. TypeOK /\ S /\ <<A>>_vars => C'
  BY DEF TypeOK, LocalTypes, Get, Write, LookupHit, LookupEmpty, LookupFails, ExistsMiss, ExistsEmpty,
         ReadVersion, VersionFails, Fetch, FetchFails, PutIfVersion, PutFails, PutUnanswered, Reply,
         Commit, WriteFails, CommitInDoubt, Evict, EvictFails, EvictUnanswered, GoTo, Done
<1>3. TypeOK /\ C /\ [Next]_vars /\ [row' = row]_row => C'
  BY <1>1
<1>4. (S => P) /\ (S <=> ~C)
  OBVIOUS
<1> HIDE DEF P, S, C, A, M
<1>5. /\ Spec /\ SF_vars(A) /\ [][row' = row]_row
      /\ [](P /\ M => ENABLED <<A>>_vars) /\ []<>M
      => <>[]C
  BY <1>2, <1>3, <1>4, TypeCorrect, PTL DEF Spec
<1>6. QED
  BY <1>5, PTL DEF P, C, A, M

\* An unanswered command ends when no other keeps taking its place: it is run,
\* or lost.
THEOREM LastLateCommandEnds ==
  ASSUME NEW c \in Commands
  PROVE  /\ Spec /\ WF_vars(Late)
         /\ [](late # {} => ENABLED <<Late>>_vars)
         /\ [](c \in late => late = {c})
         => (c \in late ~> c \notin late)
<1> DEFINE I == c \in late
           N == c \notin late
           O == late = {c}
           L == late # {}
<1>1. O /\ <<Late>>_vars => N'
  BY DEF Late, RunLatePut, RunLateEvict, DropLate
<1>2. (O => L) /\ (N <=> ~I)
  OBVIOUS
<1> HIDE DEF I, N, O, L
<1>3. Spec /\ WF_vars(Late) /\ [](L => ENABLED <<Late>>_vars) /\ [](I => O) => (I ~> N)
  BY <1>1, <1>2, PTL
<1>4. QED
  BY <1>3, PTL DEF I, N, O, L

\* An entry that holds an old row runs out: between commits, with no older fill
\* under way, its TTL goes down tick by tick and is never renewed, for every
\* TTL, until the entry is gone or replaced by the current row.
THEOREM StaleEntryRunsOut ==
  ASSUME NEW n \in Nat \ {0}
  PROVE  Spec /\ WF_vars(Tick) /\ [][row' = row]_row /\ [](Cached => ENABLED <<Tick>>_vars)
         => /\ (Current /\ ~Coherent /\ entry.ttl = n + 1)
                 ~> (Current /\ (Coherent \/ entry.ttl = n))
            /\ (Current /\ ~Coherent /\ entry.ttl = 1) ~> (Current /\ Coherent)
<1> DEFINE P == Current /\ ~Coherent /\ entry.ttl = n + 1
           Q == Current /\ (Coherent \/ entry.ttl = n)
           F == Current /\ ~Coherent /\ entry.ttl = 1
           G == Current /\ Coherent
           B == Cached
<1>1. ASSUME TypeOK, [Next]_vars, row' = row, Current, ~Coherent, ~Tick
      PROVE  Current' /\ (Coherent' \/ entry' = entry)
  <2>1. Current' /\ entry' \in {entry, NoEntry, [rev |-> row, ttl |-> EntryTtl]}
    BY <1>1, CurrentStep
  <2>2. QED
    BY <1>1, <2>1 DEF Coherent, Cached, NoEntry
<1>2. ASSUME TypeOK, row' = row, Current, ~Coherent, Tick
      PROVE  /\ Current'
             /\ entry.ttl = n + 1 => entry'.ttl = n
             /\ entry.ttl = 1 => Coherent'
  <2>1. Current'
    BY <1>2, CurrentStep DEF Next
  <2>2. entry' = IF entry.ttl > 1 THEN [entry EXCEPT !.ttl = @ - 1] ELSE NoEntry
    BY <1>2 DEF Tick
  <2>3. QED
    BY <1>2, <2>1, <2>2 DEF TypeOK, RedisTypes, Coherent, Cached, NoEntry
<1>3. TypeOK /\ [Next]_vars /\ [row' = row]_row =>
        /\ P => P' \/ Q'
        /\ F => F' \/ G'
        /\ P /\ <<Tick>>_vars => Q'
        /\ F /\ <<Tick>>_vars => G'
  <2>1. ASSUME TypeOK, [Next]_vars, row' = row
        PROVE  /\ P => P' \/ Q'
               /\ F => F' \/ G'
               /\ P /\ Tick => Q'
               /\ F /\ Tick => G'
    <3>1. CASE Tick
      BY <2>1, <3>1, <1>2
    <3>2. CASE ~Tick /\ Current /\ ~Coherent
      <4>1. Current' /\ (Coherent' \/ entry' = entry)
        BY <2>1, <3>2, <1>1
      <4>2. QED
        BY <3>2, <4>1
    <3>3. QED
      BY <3>1, <3>2
  <2>2. QED
    BY <2>1
<1>4. (P => B) /\ (F => B)
  BY DEF Cached
<1> HIDE DEF P, Q, F, G, B
<1>5. Spec /\ WF_vars(Tick) /\ [][row' = row]_row /\ [](B => ENABLED <<Tick>>_vars)
        => (P ~> Q) /\ (F ~> G)
  BY <1>3, <1>4, TypeCorrect, PTL DEF Spec
<1>6. QED
  BY <1>5, PTL DEF P, Q, F, G, B

\* EventuallyCoherent from what it takes: when commits have ceased, and the fills
\* with older rows and the older entry come to an end (StaleFillsEnd,
\* LastLateCommandEnds and StaleEntryRunsOut, each for one of them), the cache is
\* right for good, whatever evictions were lost.
THEOREM CoherentAtLast ==
  Spec /\ <>[][row' = row]_row /\ []<>Current /\ []<>Coherent => EventuallyCoherent
<1> DEFINE C == Current
           H == Coherent
<1>1. TypeOK /\ C /\ [Next]_vars /\ [row' = row]_row => C'
  BY CurrentStep
<1>2. TypeOK /\ C /\ H /\ [Next]_vars /\ [row' = row]_row => H'
  BY CoherentStep
<1>3. H <=> (Cached => entry.rev = row)
  BY DEF Coherent
<1> HIDE DEF C, H
<1>4. Spec /\ <>[][row' = row]_row /\ []<>C /\ []<>H => <>[]H
  BY <1>1, <1>2, TypeCorrect, PTL DEF Spec
<1>5. QED
  BY <1>3, <1>4, PTL DEF C, H, EventuallyCoherent
=============================================================================
