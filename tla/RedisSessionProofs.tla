------------------------ MODULE RedisSessionProofs --------------------------
(***************************************************************************)
(* Proofs about RedisSession, for any number of validating threads, any    *)
(* configuration of password and database, and any bounds.                 *)
(***************************************************************************)
EXTENDS RedisSession, FiniteSetTheorems, TLAPS

\* The threads whose connection has a context.
Connected == {t \in Threads : conn[t].ctx # "null"}

\* Types, without the count of contexts.
Types == /\ server \in {"up", "slow", "down"} /\ grants \in BOOLEAN /\ kept \in BOOLEAN
         /\ cache \in Conns /\ wait \in 0..Backoff /\ began \in 0..Backoff
         /\ idle \in Seq(Conns) /\ Len(idle) <= MaxIdle
         /\ conn \in [Threads -> Conns]
         /\ pc \in [Threads -> {"out", "acquire", "connect", "command", "release", "missed"}]
         /\ task \in [Threads -> {"read", "retry", "store"}]
         /\ leaked \in 0..MaxLeaks
         /\ trouble \in [Threads -> BOOLEAN]

\* A thread that is not on its way to or in a command holds no context, and a
\* retry never looks for an idle session.
PlacesFit ==
  /\ \A t \in Threads : pc[t] \in {"out", "missed"} => conn[t].ctx = "null"
  /\ \A t \in Threads : pc[t] = "acquire" => task[t] # "retry"

\* A validation that nothing disturbed meets a server that is well, and its retry
\* uses a session that the server has.
UndisturbedIsWell ==
  \A t \in Threads : (pc[t] # "out" /\ ~trouble[t]) =>
    /\ server = "up" /\ grants /\ pc[t] # "missed"
    /\ (task[t] = "retry" /\ pc[t] = "command") => conn[t].alive

\* What the cache's session and its backoff keep.
CacheInv == /\ kept => grants
            /\ CacheSessionIsReady
            /\ wait + began >= Backoff

Inv == /\ Types /\ PlacesFit /\ KeySessionsAreReady /\ UndisturbedIsWell
       /\ CacheInv /\ ContextsAccountedFor

-----------------------------------------------------------------------------
(* Outcomes of the connection's calls *)

\* reconnect() returns with a session that went through the whole handshake; if
\* it throws, what it leaves is connected only if the server refused something,
\* and it does not throw at a server that is well.
LEMMA ReconnectCases ==
  ASSUME NEW o \in Reconnect
  PROVE  /\ o.c \in Conns /\ o.ok \in BOOLEAN
         /\ o.ok => o.c = Ready
         /\ (~o.ok /\ o.c.ctx = "ok") => ~grants
         /\ (server = "up" /\ grants) => o.ok
<1>1. NoConn \in Conns /\ Raw \in Conns /\ Ready \in Conns /\ [Raw EXCEPT !.auth = TRUE] \in Conns
  BY ConfigAssumption DEF NoConn, Raw, Ready, Conns
<1>2. \A c \in Conns : Broken(c) \in Conns /\ Broken(c).ctx = "err"
  BY DEF Broken, Conns
<1>3. \A c \in Conns : \A d \in Unfinished(c) :
        /\ d \in Conns /\ (d.ctx = "ok" => ~grants) /\ ~(server = "up" /\ grants)
  BY <1>2 DEF Unfinished
<1>4. CASE o = [c |-> Ready, ok |-> TRUE]
  BY <1>1, <1>4
<1>5. CASE o \in Threw
  <2>1. PICK c \in (IF server # "up" THEN {NoConn} ELSE {})
                   \cup (IF HasPassword THEN Unfinished(Raw) ELSE {})
                   \cup (IF HasDb THEN Unfinished([Raw EXCEPT !.auth = TRUE]) ELSE {}) :
          o = [c |-> c, ok |-> FALSE]
    BY <1>5 DEF Threw
  <2>2. /\ c \in Conns /\ (c.ctx = "ok" => ~grants) /\ ~(server = "up" /\ grants)
    <3>1. CASE server # "up" /\ c = NoConn
      BY <1>1, <3>1 DEF NoConn
    <3>2. CASE c \in Unfinished(Raw) \/ c \in Unfinished([Raw EXCEPT !.auth = TRUE])
      BY <1>1, <1>3, <3>2
    <3>3. QED
      BY <2>1, <3>1, <3>2
  <2>3. QED
    BY <2>1, <2>2
<1>6. QED
  BY <1>4, <1>5 DEF Reconnect

\* A command leaves its connection as it was or breaks it; it is refused only
\* without login or access and breaks only a session that is dead or a server
\* that is not well.
LEMMA CommandCases ==
  ASSUME NEW c \in Conns, NEW r \in Command(c)
  PROVE  /\ r.c \in Conns
         /\ \/ r.c = c /\ r.result \in {"answered", "refused"}
            \/ r.c = Broken(c) /\ r.c.ctx = "err" /\ r.result = "broken"
         /\ r.result = "refused" => ~(c.auth /\ grants)
         /\ r.result = "broken" => ~c.alive \/ server # "up"
<1>1. Broken(c) \in Conns /\ Broken(c).ctx = "err"
  BY DEF Broken, Conns
<1>2. \/ r = [c |-> c, result |-> "answered"]
      \/ r = [c |-> c, result |-> "refused"] /\ ~(c.auth /\ grants)
      \/ r = [c |-> Broken(c), result |-> "broken"] /\ (~c.alive \/ server # "up")
  BY DEF Command
<1>3. QED
  BY <1>1, <1>2

-----------------------------------------------------------------------------
(* Counting contexts *)

\* A thread that exchanges its connection for c changes the number of threads
\* with a context by as much.
LEMMA CountMoves ==
  ASSUME conn \in [Threads -> Conns], NEW t \in Threads, NEW c \in Conns,
         conn' = [conn EXCEPT ![t] = c]
  PROVE  /\ Cardinality(Connected) \in Nat /\ Cardinality(Connected') \in Nat
         /\ Cardinality(Connected') = Cardinality(Connected) - Contexts(conn[t]) + Contexts(c)
<1>1. IsFiniteSet(Connected) /\ IsFiniteSet(Connected')
  <2>1. Connected \subseteq Threads /\ Connected' \subseteq Threads
    BY DEF Connected
  <2>2. QED
    BY <2>1, ThreadsAssumption, FS_Subset
<1>2. Cardinality(Connected) \in Nat /\ Cardinality(Connected') \in Nat
  BY <1>1, FS_CardinalityType
<1>3. /\ t \in Connected <=> conn[t].ctx # "null"
      /\ t \in Connected' <=> c.ctx # "null"
      /\ \A u \in Threads \ {t} : u \in Connected' <=> u \in Connected
      /\ Connected \subseteq Threads /\ Connected' \subseteq Threads
  BY DEF Connected
<1>4. CASE t \in Connected <=> t \in Connected'
  <2>1. Connected' = Connected
    BY <1>3, <1>4
  <2>2. Contexts(conn[t]) = Contexts(c) /\ Contexts(c) \in {0, 1}
    BY <1>3, <1>4 DEF Contexts
  <2>3. QED
    BY <1>2, <2>1, <2>2
<1>5. CASE t \in Connected /\ t \notin Connected'
  <2>1. Connected' = Connected \ {t}
    BY <1>3, <1>5
  <2>2. Cardinality(Connected') = Cardinality(Connected) - 1
    BY <1>1, <1>5, <2>1, FS_RemoveElement
  <2>3. Contexts(conn[t]) = 1 /\ Contexts(c) = 0
    BY <1>3, <1>5 DEF Contexts
  <2>4. QED
    BY <1>2, <2>2, <2>3
<1>6. CASE t \notin Connected /\ t \in Connected'
  <2>1. Connected' = Connected \cup {t}
    BY <1>3, <1>6
  <2>2. Cardinality(Connected') = Cardinality(Connected) + 1
    BY <1>1, <1>6, <2>1, FS_AddElement
  <2>3. Contexts(conn[t]) = 0 /\ Contexts(c) = 1
    BY <1>3, <1>6 DEF Contexts
  <2>4. QED
    BY <1>2, <2>2, <2>3
<1>7. QED
  BY <1>4, <1>5, <1>6

\* The count is a number, whatever the threads hold.
LEMMA CountIsNat == Cardinality(Connected) \in Nat
<1>1. Connected \subseteq Threads
  BY DEF Connected
<1>2. QED
  BY <1>1, ThreadsAssumption, FS_Subset, FS_CardinalityType

\* A session that the server dropped looks as it did.
LEMMA DeadLooksTheSame ==
  ASSUME NEW c \in Conns
  PROVE  /\ Dead(c) \in Conns /\ Dead(c).ctx = c.ctx /\ Dead(c).auth = c.auth
         /\ Dead(c).own = c.own
BY DEF Dead, Conns

-----------------------------------------------------------------------------
(* Steps of validating threads *)

\* What every step of a thread does: it moves one thread to p with connection c,
\* and idle_ and the count of contexts move accordingly.
LEMMA ThreadMoves ==
  ASSUME Inv, NEW t \in Threads, NEW p, NEW k, NEW c \in Conns, NEW b \in BOOLEAN,
         p \in {"out", "acquire", "connect", "command", "release", "missed"},
         k \in {"read", "retry", "store"},
         At(t, p, k, c),
         trouble' = [trouble EXCEPT ![t] = b],
         UNCHANGED <<environment, cacheSide>>,
         idle' \in Seq(Conns), Len(idle') <= MaxIdle,
         \A i \in DOMAIN idle' : Usable(idle'[i]),
         p \in {"out", "missed"} => c.ctx = "null",
         p = "acquire" => k # "retry",
         p \in {"command", "release"} => Usable(c),
         (p # "out" /\ ~b) => /\ server = "up" /\ grants /\ p # "missed"
                              /\ (k = "retry" /\ p = "command") => c.alive,
         leaked' \in 0..MaxLeaks,
         open' = open + Contexts(c) - Contexts(conn[t]) + Len(idle') - Len(idle)
                 + leaked' - leaked
  PROVE  Inv'
<1>1. /\ pc' = [pc EXCEPT ![t] = p] /\ task' = [task EXCEPT ![t] = k]
      /\ conn' = [conn EXCEPT ![t] = c]
  BY DEF At
<1>2. /\ server' = server /\ grants' = grants /\ kept' = kept
      /\ cache' = cache /\ wait' = wait /\ began' = began
  BY DEF environment, cacheSide
<1>3. Types'
  BY <1>1, <1>2 DEF Inv, Types
<1>4. PlacesFit'
  BY <1>1 DEF Inv, PlacesFit, Types
<1>5. KeySessionsAreReady'
  BY <1>1 DEF Inv, KeySessionsAreReady, Types
<1>6. UndisturbedIsWell'
  BY <1>1, <1>2 DEF Inv, UndisturbedIsWell, Types
<1>7. CacheInv'
  BY <1>2 DEF Inv, CacheInv, CacheSessionIsReady, IsConnected, Usable
<1>8. ContextsAccountedFor'
  <2>1. /\ Cardinality(Connected) \in Nat /\ Cardinality(Connected') \in Nat
        /\ Cardinality(Connected') = Cardinality(Connected) - Contexts(conn[t]) + Contexts(c)
    BY <1>1, CountMoves DEF Inv, Types
  <2>2. /\ Contexts(c) \in Nat /\ Contexts(conn[t]) \in Nat /\ Contexts(cache) \in Nat
        /\ Contexts(cache') = Contexts(cache)
    BY <1>2 DEF Contexts
  <2>3. open = Contexts(cache) + Len(idle) + Cardinality(Connected) + leaked
    BY DEF Inv, ContextsAccountedFor, Connected
  <2>4. Len(idle) \in Nat /\ Len(idle') \in Nat /\ leaked \in Nat /\ leaked' \in Nat
    BY BoundAssumption DEF Inv, Types
  <2>5. open' = Contexts(cache') + Len(idle') + Cardinality(Connected') + leaked'
    <3>1. open \in Int
      BY <2>1, <2>2, <2>3, <2>4
    <3>2. open + Contexts(c) - Contexts(conn[t]) + Len(idle') - Len(idle) + leaked' - leaked
            = Contexts(cache) + Len(idle') + Cardinality(Connected') + leaked'
      <4> DEFINE h == Contexts(cache)  x == Contexts(conn[t])  y == Contexts(c)
                 i == Len(idle)  i2 == Len(idle')
                 n == Cardinality(Connected)  n2 == Cardinality(Connected')
      <4>1. /\ h \in Int /\ x \in Int /\ y \in Int /\ i \in Int /\ i2 \in Int
            /\ n \in Int /\ n2 \in Int /\ leaked \in Int /\ leaked' \in Int
        BY <2>1, <2>2, <2>4
      <4>2. open = h + i + n + leaked /\ n2 = n - x + y
        BY <2>1, <2>3
      <4> HIDE DEF h, x, y, i, i2, n, n2
      <4>3. open + y - x + i2 - i + leaked' - leaked = h + i2 + n2 + leaked'
        BY <3>1, <4>1, <4>2
      <4>4. QED
        BY <4>3 DEF h, x, y, i, i2, n2
    <3>3. QED
      BY <2>2, <3>2, Zenon
  <2>6. QED
    BY <2>5 DEF ContextsAccountedFor, Connected, Contexts
<1>9. QED
  BY <1>3, <1>4, <1>5, <1>6, <1>7, <1>8 DEF Inv

\* Facts about a thread and idle_ that the cases below start from.
LEMMA ThreadFacts ==
  ASSUME Inv, NEW t \in Threads
  PROVE  /\ conn[t] \in Conns /\ Contexts(conn[t]) \in {0, 1}
         /\ NoConn \in Conns /\ Ready \in Conns /\ Contexts(NoConn) = 0 /\ Contexts(Ready) = 1
         /\ NoConn.ctx = "null" /\ Usable(Ready) /\ Ready.alive
         /\ trouble[t] \in BOOLEAN /\ trouble = [trouble EXCEPT ![t] = trouble[t]]
         /\ task[t] \in {"read", "retry", "store"}
         /\ idle \in Seq(Conns) /\ Len(idle) \in Nat /\ Len(idle) <= MaxIdle
         /\ \A i \in DOMAIN idle : Usable(idle[i])
         /\ open \in Nat /\ leaked \in Nat /\ leaked \in 0..MaxLeaks
         /\ \A c \in Conns : Contexts(c) \in {0, 1}
         /\ \A c \in Conns : IsConnected(c) => Contexts(c) = 1
<1>1. open \in Nat
  <2>1. open = Contexts(cache) + Len(idle) + Cardinality(Connected) + leaked
    BY DEF Inv, ContextsAccountedFor, Connected
  <2>2. Contexts(cache) \in Nat /\ Len(idle) \in Nat /\ leaked \in Nat
    BY BoundAssumption DEF Inv, Types, Contexts
  <2>3. QED
    BY <2>1, <2>2, CountIsNat
<1>2. QED
  BY <1>1, BoundAssumption
     DEF Inv, Types, KeySessionsAreReady, Contexts, NoConn, Ready, Conns, Usable, IsConnected

\* validate() begins.
LEMMA BeginKeeps ==
  ASSUME Inv, NEW t \in Threads, Begin(t)
  PROVE  Inv'
<1>1. /\ At(t, "acquire", "read", NoConn)
      /\ trouble' = [trouble EXCEPT ![t] = ~Undisturbed]
      /\ UNCHANGED <<environment, cacheSide>> /\ idle' = idle /\ open' = open /\ leaked' = leaked
  BY DEF Begin
<1>2. Contexts(conn[t]) = 0
  BY DEF Begin, Inv, PlacesFit, Contexts
<1>3. DEFINE b == ~Undisturbed
<1>4. b \in BOOLEAN /\ (~b => server = "up" /\ grants)
  BY DEF Undisturbed
<1>5. open' = open + Contexts(NoConn) - Contexts(conn[t]) + Len(idle') - Len(idle) + leaked' - leaked
  BY <1>1, <1>2, ThreadFacts
<1>6. QED
  <2>1. trouble' = [trouble EXCEPT ![t] = b]
    BY <1>1
  <2> HIDE DEF b
  <2>2. QED
    BY <1>1, <1>4, <1>5, <2>1, ThreadFacts, ThreadMoves

\* acquire().
LEMMA AcquireKeeps ==
  ASSUME Inv, NEW t \in Threads, Acquire(t)
  PROVE  Inv'
<1> DEFINE connected == {i \in DOMAIN idle : IsConnected(idle[i])}
<1>1. /\ UNCHANGED <<environment, cacheSide>> /\ trouble' = trouble /\ leaked' = leaked
      /\ pc[t] = "acquire" /\ task[t] # "retry"
  BY DEF Acquire, Inv, PlacesFit
<1>2. DOMAIN idle = 1..Len(idle)
  BY ThreadFacts
<1>3. CASE connected = {}
  <2>1. /\ idle' = <<>> /\ open' = open - Len(idle) - Contexts(conn[t])
        /\ At(t, "connect", task[t], NoConn)
    BY <1>3 DEF Acquire
  <2>2. /\ idle' \in Seq(Conns) /\ Len(idle') = 0 /\ Len(idle') <= MaxIdle
        /\ \A i \in DOMAIN idle' : Usable(idle'[i])
    BY <2>1, BoundAssumption
  <2>3. open' = open + Contexts(NoConn) - Contexts(conn[t]) + Len(idle') - Len(idle) + leaked' - leaked
    BY <1>1, <2>1, <2>2, ThreadFacts
  <2>4. ~trouble[t] => server = "up" /\ grants
    BY <1>1 DEF Inv, UndisturbedIsWell
  <2>5. QED
    BY <1>1, <2>1, <2>2, <2>3, <2>4, ThreadFacts, ThreadMoves
<1>4. CASE connected # {}
  <2>1. PICK i \in connected :
          /\ idle' = SubSeq(idle, 1, i - 1)
          /\ open' = open - (Len(idle) - i) - Contexts(conn[t])
          /\ At(t, "command", task[t], idle[i])
    BY <1>4 DEF Acquire
  <2>2. i \in 1..Len(idle) /\ idle[i] \in Conns /\ Usable(idle[i]) /\ Contexts(idle[i]) = 1
    BY <1>2, ThreadFacts
  <2>3. /\ idle' \in Seq(Conns) /\ Len(idle') = i - 1 /\ Len(idle') <= MaxIdle
        /\ \A j \in 1..(i - 1) : idle'[j] = idle[j]
    <3>1. \A j \in 1..(i - 1) : idle[j] \in Conns
      BY <2>2, ThreadFacts
    <3>2. idle' = [j \in 1..(i - 1) |-> idle[j]]
      BY <2>1, <2>2, ThreadFacts
    <3>3. QED
      <4>1. i - 1 \in Nat /\ i - 1 <= Len(idle) /\ Len(idle) <= MaxIdle /\ MaxIdle \in Nat
            /\ Len(idle) \in Nat
        BY <2>2, BoundAssumption, ThreadFacts
      <4>2. idle' \in Seq(Conns) /\ Len(idle') = i - 1
        BY <3>1, <3>2, <4>1
      <4>3. \A j \in 1..(i - 1) : idle'[j] = idle[j]
        BY <3>2
      <4>4. QED
        BY <4>1, <4>2, <4>3
  <2>4. \A j \in DOMAIN idle' : Usable(idle'[j])
    BY <1>2, <2>2, <2>3, ThreadFacts
  <2>5. open' = open + Contexts(idle[i]) - Contexts(conn[t]) + Len(idle') - Len(idle) + leaked' - leaked
    <3>1. /\ open \in Int /\ Len(idle) \in Int /\ i \in Int /\ Contexts(conn[t]) \in Int
          /\ leaked \in Int
      BY <2>2, ThreadFacts
    <3>2. /\ open' = open - (Len(idle) - i) - Contexts(conn[t]) /\ leaked' = leaked
          /\ Contexts(idle[i]) = 1 /\ Len(idle') = i - 1
      BY <1>1, <2>1, <2>2, <2>3
    <3>3. QED
      BY <3>1, <3>2
  <2>6. ~trouble[t] => server = "up" /\ grants
    BY <1>1 DEF Inv, UndisturbedIsWell
  <2>7. QED
    BY <1>1, <2>1, <2>2, <2>3, <2>4, <2>5, <2>6, ThreadFacts, ThreadMoves
<1>5. QED
  BY <1>3, <1>4

\* Giving up, whatever for: the thread ends without a connection, and an
\* exception costs a validation its cache only when it was disturbed.
LEMMA GivesUpKeeps ==
  ASSUME Inv, NEW t \in Threads, GivesUp(t), task[t] = "store" \/ trouble[t],
         UNCHANGED <<environment, cacheSide, idle, trouble>>,
         leaked' \in 0..MaxLeaks,
         open' = open - Contexts(conn[t]) + leaked' - leaked
  PROVE  Inv'
<1>1. open' = open + Contexts(NoConn) - Contexts(conn[t]) + Len(idle') - Len(idle) + leaked' - leaked
  BY BoundAssumption, ThreadFacts
<1>2. trouble' = [trouble EXCEPT ![t] = trouble[t]] /\ UNCHANGED <<environment, cacheSide>>
  BY ThreadFacts
<1>3. CASE task[t] = "store"
  <2>1. At(t, "out", "read", NoConn)
    BY <1>3 DEF GivesUp
  <2>2. QED
    BY <1>1, <1>2, <2>1, ThreadFacts, ThreadMoves
<1>4. CASE task[t] # "store"
  <2>1. At(t, "missed", task[t], NoConn)
    BY <1>4 DEF GivesUp
  <2>2. QED
    BY <1>1, <1>2, <1>4, <2>1, ThreadFacts, ThreadMoves
<1>5. QED
  BY <1>3, <1>4

\* The constructor, for a first session or the retry's.
LEMMA ConnectKeeps ==
  ASSUME Inv, NEW t \in Threads, Connect(t)
  PROVE  Inv'
<1>1. /\ UNCHANGED <<environment, cacheSide, idle, trouble>>
      /\ pc[t] = "connect"
  BY DEF Connect
<1>2. ~trouble[t] => server = "up" /\ grants
  BY <1>1 DEF Inv, UndisturbedIsWell
<1>3. PICK o \in Reconnect :
        \/ /\ o.ok
           /\ At(t, "command", task[t], o.c)
           /\ open' = open - Contexts(conn[t]) + 1
           /\ leaked' = leaked
        \/ /\ ~o.ok
           /\ leaked + Contexts(o.c) <= MaxLeaks
           /\ GivesUp(t)
           /\ open' = open - Contexts(conn[t]) + Contexts(o.c)
           /\ leaked' = leaked + Contexts(o.c)
  BY DEF Connect
<1>4. /\ o.c \in Conns /\ o.ok \in BOOLEAN /\ (o.ok => o.c = Ready)
      /\ (server = "up" /\ grants) => o.ok
  BY ReconnectCases
<1>5. CASE o.ok
  <2>1. At(t, "command", task[t], Ready) /\ open' = open - Contexts(conn[t]) + 1 /\ leaked' = leaked
    BY <1>3, <1>4, <1>5
  <2>2. open' = open + Contexts(Ready) - Contexts(conn[t]) + Len(idle') - Len(idle) + leaked' - leaked
    BY <1>1, <2>1, ThreadFacts
  <2>3. /\ trouble' = [trouble EXCEPT ![t] = trouble[t]] /\ idle' = idle
        /\ UNCHANGED <<environment, cacheSide>>
    BY <1>1, ThreadFacts
  <2>4. QED
    BY <1>2, <2>1, <2>2, <2>3, ThreadFacts, ThreadMoves
<1>6. CASE ~o.ok
  <2>1. /\ leaked + Contexts(o.c) <= MaxLeaks /\ GivesUp(t)
        /\ open' = open - Contexts(conn[t]) + Contexts(o.c)
        /\ leaked' = leaked + Contexts(o.c)
    BY <1>3, <1>6
  <2>2. leaked' \in 0..MaxLeaks /\ open' = open - Contexts(conn[t]) + leaked' - leaked
    BY <1>4, <2>1, BoundAssumption, ThreadFacts
  <2>3. trouble[t]
    BY <1>2, <1>4, <1>6, ThreadFacts
  <2>4. QED
    BY <1>1, <2>1, <2>2, <2>3, GivesUpKeeps
<1>7. QED
  BY <1>4, <1>5, <1>6

\* hgetall(), or hmset() and expire().
LEMMA SendKeeps ==
  ASSUME Inv, NEW t \in Threads, Send(t)
  PROVE  Inv'
<1>1. /\ UNCHANGED <<environment, cacheSide>> /\ idle' = idle /\ leaked' = leaked
      /\ trouble' = [trouble EXCEPT ![t] = trouble[t]] /\ trouble' = trouble
      /\ pc[t] = "command"
  BY ThreadFacts DEF Send
<1>2. ~trouble[t] => server = "up" /\ grants /\ (task[t] = "retry" => conn[t].alive)
  BY <1>1 DEF Inv, UndisturbedIsWell
<1>3. /\ Usable(conn[t]) /\ conn[t].auth /\ Contexts(conn[t]) = 1
  BY <1>1, ThreadFacts DEF Inv, KeySessionsAreReady, Usable
<1>4. PICK r \in Command(conn[t]) :
        \/ /\ r.result = "answered"
           /\ At(t, "release", task[t], r.c)
           /\ open' = open
        \/ /\ r.result = "broken" /\ task[t] = "read"
           /\ At(t, RetryAt, "retry", r.c)
           /\ open' = open
        \/ /\ r.result = "refused" \/ (r.result = "broken" /\ task[t] # "read")
           /\ GivesUp(t)
           /\ open' = open - 1
  BY DEF Send
<1>5. /\ r.c \in Conns
      /\ \/ r.c = conn[t] /\ r.result \in {"answered", "refused"}
         \/ r.c = Broken(conn[t]) /\ r.c.ctx = "err" /\ r.result = "broken"
      /\ r.result = "refused" => ~(conn[t].auth /\ grants)
      /\ r.result = "broken" => ~conn[t].alive \/ server # "up"
  BY CommandCases, ThreadFacts
<1>6. CASE r.result = "answered"
  <2>1. At(t, "release", task[t], conn[t]) /\ open' = open
    BY <1>4, <1>5, <1>6
  <2>2. open' = open + Contexts(conn[t]) - Contexts(conn[t]) + Len(idle') - Len(idle) + leaked' - leaked
    BY <1>1, <2>1, ThreadFacts
  <2>3. QED
    BY <1>1, <1>2, <1>3, <2>1, <2>2, ThreadFacts, ThreadMoves
<1>7. CASE r.result = "broken" /\ task[t] = "read"
  <2>1. At(t, "connect", "retry", r.c) /\ open' = open
    BY <1>4, <1>7 DEF RetryAt
  <2>2. Contexts(r.c) = 1
    BY <1>5, <1>7 DEF Contexts
  <2>3. open' = open + Contexts(r.c) - Contexts(conn[t]) + Len(idle') - Len(idle) + leaked' - leaked
    BY <1>1, <1>3, <2>1, <2>2, ThreadFacts
  <2>4. QED
    BY <1>1, <1>2, <1>5, <2>1, <2>3, ThreadFacts, ThreadMoves
<1>8. CASE r.result = "refused" \/ (r.result = "broken" /\ task[t] # "read")
  <2>1. GivesUp(t) /\ open' = open - 1
    BY <1>4, <1>8
  <2>2. task[t] = "store" \/ trouble[t]
    BY <1>2, <1>3, <1>5, <1>8, ThreadFacts
  <2>3. open' = open - Contexts(conn[t]) + leaked' - leaked /\ leaked' \in 0..MaxLeaks
    BY <1>1, <1>3, <2>1, ThreadFacts
  <2>4. QED
    BY <1>1, <2>1, <2>2, <2>3, GivesUpKeeps
<1>9. QED
  BY <1>4, <1>6, <1>7, <1>8

\* release().
LEMMA ReleaseKeeps ==
  ASSUME Inv, NEW t \in Threads, Release(t)
  PROVE  Inv'
<1>1. /\ UNCHANGED <<environment, cacheSide>> /\ leaked' = leaked
      /\ trouble' = [trouble EXCEPT ![t] = trouble[t]]
      /\ pc[t] = "release"
  BY ThreadFacts DEF Release
<1>2. ~trouble[t] => server = "up" /\ grants
  BY <1>1 DEF Inv, UndisturbedIsWell
<1>3. /\ Usable(conn[t]) /\ Contexts(conn[t]) = 1
  BY <1>1, ThreadFacts DEF Inv, KeySessionsAreReady, Usable
<1>4. /\ idle' \in Seq(Conns) /\ Len(idle') <= MaxIdle
      /\ \A i \in DOMAIN idle' : Usable(idle'[i])
      /\ open' = open + Contexts(NoConn) - Contexts(conn[t]) + Len(idle') - Len(idle) + leaked' - leaked
  <2>1. CASE Pools(conn[t])
    <3>1. idle' = Append(idle, conn[t]) /\ open' = open /\ Len(idle) < MaxIdle
      BY <2>1 DEF Release, Pools
    <3>2. /\ idle' \in Seq(Conns) /\ Len(idle') = Len(idle) + 1 /\ Len(idle') <= MaxIdle
          /\ \A i \in 1..Len(idle) : idle'[i] = idle[i]
          /\ idle'[Len(idle) + 1] = conn[t]
      BY <3>1, BoundAssumption, ThreadFacts
    <3>3. \A i \in DOMAIN idle' : Usable(idle'[i])
      BY <1>3, <3>2, ThreadFacts
    <3>4. QED
      BY <1>1, <1>3, <3>1, <3>2, <3>3, ThreadFacts
  <2>2. CASE ~Pools(conn[t])
    <3>1. idle' = idle /\ open' = open - 1
      BY <2>2 DEF Release
    <3>2. QED
      BY <1>1, <1>3, <3>1, ThreadFacts
  <2>3. QED
    BY <2>1, <2>2
<1>5. CASE At(t, "out", "read", NoConn)
  BY <1>1, <1>4, <1>5, ThreadFacts, ThreadMoves
<1>6. CASE At(t, "acquire", "store", NoConn)
  BY <1>1, <1>2, <1>4, <1>6, ThreadFacts, ThreadMoves
<1>7. QED
  BY <1>5, <1>6 DEF Release

\* The lookup after an exception.
LEMMA LookupKeeps ==
  ASSUME Inv, NEW t \in Threads, Lookup(t)
  PROVE  Inv'
<1>1. /\ UNCHANGED <<environment, cacheSide>> /\ idle' = idle /\ open' = open /\ leaked' = leaked
      /\ trouble' = [trouble EXCEPT ![t] = trouble[t]]
      /\ pc[t] = "missed"
  BY ThreadFacts DEF Lookup
<1>2. Contexts(conn[t]) = 0 /\ trouble[t]
  BY <1>1, ThreadFacts DEF Inv, PlacesFit, UndisturbedIsWell, Contexts
<1>3. open' = open + Contexts(NoConn) - Contexts(conn[t]) + Len(idle') - Len(idle) + leaked' - leaked
  BY <1>1, <1>2, ThreadFacts
<1>4. CASE At(t, "out", "read", NoConn)
  BY <1>1, <1>3, <1>4, ThreadFacts, ThreadMoves
<1>5. CASE At(t, "acquire", "store", NoConn)
  BY <1>1, <1>2, <1>3, <1>5, ThreadFacts, ThreadMoves
<1>6. QED
  BY <1>4, <1>5 DEF Lookup

-----------------------------------------------------------------------------
(* Steps of the cache, the readiness check and the clock *)

\* What they have in common: only the cache's session, its backoff and the count
\* of contexts move.
LEMMA CacheMoves ==
  ASSUME Inv, UNCHANGED <<environment, keySide>>,
         cache' \in Conns, wait' \in 0..Backoff, began' \in 0..Backoff,
         wait' + began' >= Backoff,
         kept => (IsConnected(cache') => Usable(cache')),
         leaked' \in 0..MaxLeaks,
         open' = open + Contexts(cache') - Contexts(cache) + leaked' - leaked
  PROVE  Inv'
<1>1. /\ server' = server /\ grants' = grants /\ kept' = kept /\ idle' = idle /\ conn' = conn
      /\ pc' = pc /\ task' = task /\ trouble' = trouble
  BY DEF environment, keySide
<1>2. Types'
  BY <1>1 DEF Inv, Types
<1>3. PlacesFit' /\ KeySessionsAreReady' /\ UndisturbedIsWell'
  BY <1>1 DEF Inv, PlacesFit, KeySessionsAreReady, UndisturbedIsWell, Usable, IsConnected
<1>4. CacheInv'
  BY <1>1 DEF Inv, CacheInv, CacheSessionIsReady, Usable, IsConnected
<1>5. ContextsAccountedFor'
  <2>1. open = Contexts(cache) + Len(idle) + Cardinality(Connected) + leaked
    BY DEF Inv, ContextsAccountedFor, Connected
  <2>2. /\ Contexts(cache) \in Int /\ Contexts(cache') \in Int /\ Len(idle) \in Int
        /\ Cardinality(Connected) \in Int /\ leaked \in Int /\ leaked' \in Int
    BY CountIsNat, BoundAssumption DEF Inv, Types, Contexts
  <2>3. open' = Contexts(cache') + Len(idle) + Cardinality(Connected) + leaked'
    <3> DEFINE h == Contexts(cache)  h2 == Contexts(cache')  i == Len(idle)
               n == Cardinality(Connected)
    <3>1. /\ h \in Int /\ h2 \in Int /\ i \in Int /\ n \in Int /\ leaked \in Int /\ leaked' \in Int
          /\ open = h + i + n + leaked
      BY <2>1, <2>2
    <3> HIDE DEF h, h2, i, n
    <3>2. open \in Int /\ open + h2 - h + leaked' - leaked = h2 + i + n + leaked'
      BY <3>1
    <3>3. QED
      BY <3>2 DEF h, h2, i, n
  <2>4. QED
    BY <1>1, <2>3 DEF ContextsAccountedFor, Connected, Contexts
<1>6. QED
  BY <1>2, <1>3, <1>4, <1>5 DEF Inv

\* Facts about the cache's session and the counters.
LEMMA CacheFacts ==
  ASSUME Inv
  PROVE  /\ cache \in Conns /\ wait \in 0..Backoff /\ began \in 0..Backoff
         /\ wait + began >= Backoff
         /\ kept => grants /\ (IsConnected(cache) => Usable(cache))
         /\ open \in Int /\ leaked \in 0..MaxLeaks /\ leaked \in Nat
         /\ \A c \in Conns : Contexts(c) \in {0, 1}
         /\ \A c \in Conns : IsConnected(c) => Contexts(c) = 1
<1>1. open \in Int
  <2>1. open = Contexts(cache) + Len(idle) + Cardinality(Connected) + leaked
    BY DEF Inv, ContextsAccountedFor, Connected
  <2>2. Contexts(cache) \in Nat /\ Len(idle) \in Nat /\ leaked \in Nat
    BY BoundAssumption DEF Inv, Types, Contexts
  <2>3. QED
    BY <2>1, <2>2, CountIsNat
<1>2. QED
  BY <1>1, BoundAssumption DEF Inv, Types, CacheInv, CacheSessionIsReady, Contexts, IsConnected

\* A command on the cache's session.
LEMMA CacheCommandKeeps ==
  ASSUME Inv, CacheCommand
  PROVE  Inv'
<1>1. /\ UNCHANGED <<environment, keySide>> /\ wait' = wait /\ began' = began /\ open' = open
      /\ leaked' = leaked /\ IsConnected(cache)
  BY DEF CacheCommand
<1>2. PICK r \in Command(cache) : cache' = r.c
  BY DEF CacheCommand
<1>3. /\ r.c \in Conns
      /\ \/ r.c = cache /\ r.result \in {"answered", "refused"}
         \/ r.c = Broken(cache) /\ r.c.ctx = "err" /\ r.result = "broken"
  BY CommandCases, CacheFacts
<1>4. cache' \in Conns /\ Contexts(cache') = 1 /\ (IsConnected(cache') => cache' = cache)
  BY <1>1, <1>2, <1>3, CacheFacts DEF Contexts, IsConnected
<1>5. open' = open + Contexts(cache') - Contexts(cache) + leaked' - leaked
  BY <1>1, <1>4, CacheFacts
<1>6. kept => (IsConnected(cache') => Usable(cache'))
  BY <1>4, CacheFacts
<1>7. QED
  BY <1>1, <1>4, <1>5, <1>6, CacheFacts, CacheMoves

\* The backoff counts from before the attempt, however long that took.
LEMMA BackoffCounts ==
  ASSUME NEW d \in Nat
  PROVE  /\ NextReconnect(d) \in 0..Backoff /\ Least(d, Backoff) \in 0..Backoff
         /\ NextReconnect(d) + Least(d, Backoff) >= Backoff
BY BoundAssumption DEF NextReconnect, Least

\* ensure_connected_locked() reconnects.
LEMMA CacheReconnectKeeps ==
  ASSUME Inv, CacheReconnect
  PROVE  Inv'
<1>1. UNCHANGED <<environment, keySide>> /\ leaked' = leaked /\ wait = 0
  BY DEF CacheReconnect
<1>2. PICK o \in Reconnect :
        /\ open' = open - Freed(cache) + Contexts(o.c)
        /\ \/ /\ o.ok
              /\ \E r \in Command(o.c) : cache' = r.c
              /\ began' = began
              /\ wait' = wait
           \/ /\ ~o.ok
              /\ cache' = o.c
              /\ \E d \in IF server = "up" THEN {0} ELSE 0..ConnectTimeout :
                   wait' = NextReconnect(d) /\ began' = Least(d, Backoff)
  BY DEF CacheReconnect
<1>3. /\ o.c \in Conns /\ o.ok \in BOOLEAN /\ (o.ok => o.c = Ready)
      /\ (~o.ok /\ o.c.ctx = "ok") => ~grants
  BY ReconnectCases
<1>4. CASE o.ok
  <2>1. Ready \in Conns /\ Usable(Ready)
    BY DEF Ready, Conns, Usable, IsConnected
  <2>2. PICK r \in Command(Ready) : cache' = r.c
    BY <1>2, <1>3, <1>4
  <2>3. /\ r.c \in Conns
        /\ \/ r.c = Ready /\ r.result \in {"answered", "refused"}
           \/ r.c = Broken(Ready) /\ r.c.ctx = "err" /\ r.result = "broken"
    BY <2>1, CommandCases
  <2>4. /\ cache' \in Conns /\ Contexts(cache') = 1 /\ (IsConnected(cache') => Usable(cache'))
        /\ Contexts(o.c) = 1
    BY <1>3, <1>4, <2>1, <2>2, <2>3, CacheFacts DEF Contexts, IsConnected, Usable
  <2>5. open' = open + Contexts(cache') - Contexts(cache) + leaked' - leaked
    BY <1>1, <1>2, <2>4, CacheFacts DEF Freed
  <2>6. wait' \in 0..Backoff /\ began' \in 0..Backoff /\ wait' + began' >= Backoff
    BY <1>1, <1>2, <1>4, BoundAssumption, CacheFacts
  <2>7. QED
    BY <1>1, <2>4, <2>5, <2>6, CacheFacts, CacheMoves
<1>5. CASE ~o.ok
  <2>1. cache' = o.c /\ open' = open - Freed(cache) + Contexts(cache')
    BY <1>2, <1>5
  <2>2. PICK d \in IF server = "up" THEN {0} ELSE 0..ConnectTimeout :
          wait' = NextReconnect(d) /\ began' = Least(d, Backoff)
    BY <1>2, <1>5
  <2>3. d \in Nat
    BY BoundAssumption
  <2>4. wait' \in 0..Backoff /\ began' \in 0..Backoff /\ wait' + began' >= Backoff
    BY <2>2, <2>3, BackoffCounts
  <2>5. kept => (IsConnected(cache') => Usable(cache'))
    BY <1>3, <1>5, <2>1, CacheFacts DEF IsConnected
  <2>6. open' = open + Contexts(cache') - Contexts(cache) + leaked' - leaked
    BY <1>1, <1>3, <2>1, CacheFacts DEF Freed
  <2>7. QED
    BY <1>1, <1>3, <2>1, <2>4, <2>5, <2>6, CacheFacts, CacheMoves
<1>6. QED
  BY <1>3, <1>4, <1>5

\* The readiness check's own session.
LEMMA ReadyCheckKeeps ==
  ASSUME Inv, ReadyCheck
  PROVE  Inv'
<1>1. /\ UNCHANGED <<environment, keySide>> /\ cache' = cache /\ wait' = wait /\ began' = began
  BY DEF ReadyCheck, cacheSide
<1>2. PICK o \in Reconnect : /\ leaked + Contexts(o.c) <= MaxLeaks
                             /\ open' = open + Contexts(o.c)
                             /\ leaked' = leaked + Contexts(o.c)
  BY DEF ReadyCheck
<1>3. Contexts(o.c) \in Nat
  BY DEF Contexts
<1>4. leaked' \in 0..MaxLeaks /\ open' = open + Contexts(cache') - Contexts(cache) + leaked' - leaked
  BY <1>1, <1>2, <1>3, BoundAssumption, CacheFacts
<1>5. QED
  BY <1>1, <1>4, CacheFacts, CacheMoves

\* A tick of the clock.
LEMMA TickKeeps ==
  ASSUME Inv, Tick
  PROVE  Inv'
<1>1. UNCHANGED <<environment, keySide>> /\ cache' = cache /\ open' = open /\ leaked' = leaked
  BY DEF Tick
<1>2. wait' \in 0..Backoff /\ began' \in 0..Backoff /\ wait' + began' >= Backoff
  BY BoundAssumption, CacheFacts DEF Tick, Least
<1>3. open' = open + Contexts(cache') - Contexts(cache) + leaked' - leaked
  BY <1>1, CacheFacts
<1>4. QED
  BY <1>1, <1>2, <1>3, CacheFacts, CacheMoves

-----------------------------------------------------------------------------
(* Steps of the server *)

\* Two connections that this process cannot tell apart.
Alike(c, d) == c.ctx = d.ctx /\ c.auth = d.auth /\ c.own = d.own

\* What they have in common: this process sees no difference, and no validation
\* under way in which they could matter remains undisturbed.
LEMMA ServerMoves ==
  ASSUME Inv,
         server' \in {"up", "slow", "down"}, grants' \in BOOLEAN, kept' \in BOOLEAN,
         kept' => kept /\ grants',
         cache' \in Conns, Alike(cache', cache),
         idle' \in Seq(Conns), Len(idle') = Len(idle),
         \A i \in 1..Len(idle) : Alike(idle'[i], idle[i]),
         conn' \in [Threads -> Conns], \A t \in Threads : Alike(conn'[t], conn[t]),
         trouble' \in [Threads -> BOOLEAN],
         \A t \in Threads : (pc[t] # "out" /\ ~trouble'[t]) =>
           ~trouble[t] /\ server' = server /\ grants' = grants /\ task[t] # "retry",
         UNCHANGED <<wait, began, pc, task, open, leaked>>
  PROVE  Inv'
<1>1. Types'
  BY DEF Inv, Types
<1>2. PlacesFit'
  BY DEF Inv, PlacesFit, Alike
<1>3. KeySessionsAreReady'
  <2>1. DOMAIN idle' = 1..Len(idle) /\ DOMAIN idle = 1..Len(idle)
    BY DEF Inv, Types
  <2>2. QED
    BY <2>1 DEF Inv, KeySessionsAreReady, Usable, IsConnected, Alike
<1>4. UndisturbedIsWell'
  BY DEF Inv, UndisturbedIsWell
<1>5. CacheInv'
  BY DEF Inv, CacheInv, CacheSessionIsReady, Usable, IsConnected, Alike
<1>6. ContextsAccountedFor'
  <2>1. {t \in Threads : conn'[t].ctx # "null"} = {t \in Threads : conn[t].ctx # "null"}
    BY DEF Alike
  <2>2. Contexts(cache') = Contexts(cache)
    BY DEF Contexts, Alike
  <2>3. QED
    BY <2>1, <2>2 DEF Inv, ContextsAccountedFor, Contexts
<1>7. QED
  BY <1>1, <1>2, <1>3, <1>4, <1>5, <1>6 DEF Inv

\* All sessions die, or none changes.
LEMMA SessionsDie ==
  ASSUME Inv,
         \/ /\ cache' = Dead(cache)
            /\ idle' = [i \in DOMAIN idle |-> Dead(idle[i])]
            /\ conn' = [t \in Threads |-> Dead(conn[t])]
         \/ cache' = cache /\ idle' = idle /\ conn' = conn
  PROVE  /\ cache' \in Conns /\ Alike(cache', cache)
         /\ idle' \in Seq(Conns) /\ Len(idle') = Len(idle)
         /\ \A i \in 1..Len(idle) : Alike(idle'[i], idle[i])
         /\ conn' \in [Threads -> Conns] /\ \A t \in Threads : Alike(conn'[t], conn[t])
<1>1. /\ cache \in Conns /\ idle \in Seq(Conns) /\ conn \in [Threads -> Conns]
      /\ DOMAIN idle = 1..Len(idle) /\ Len(idle) \in Nat
  BY DEF Inv, Types
<1>2. \A c \in Conns : Dead(c) \in Conns /\ Alike(Dead(c), c)
  BY DeadLooksTheSame DEF Alike
<1>3. \A c \in Conns : Alike(c, c)
  BY DEF Alike
<1>4. CASE idle' = [i \in DOMAIN idle |-> Dead(idle[i])]
  <2>1. \A i \in 1..Len(idle) : idle[i] \in Conns
    BY <1>1
  <2>2. idle' = [i \in 1..Len(idle) |-> Dead(idle[i])]
    BY <1>1, <1>4
  <2>3. idle' \in Seq(Conns) /\ Len(idle') = Len(idle)
    BY <1>1, <1>2, <2>1, <2>2
  <2>4. \A i \in 1..Len(idle) : Alike(idle'[i], idle[i])
    BY <1>2, <2>1, <2>2
  <2>5. cache' \in Conns /\ Alike(cache', cache)
    BY <1>1, <1>2, <1>3
  <2>6. conn' \in [Threads -> Conns] /\ \A t \in Threads : Alike(conn'[t], conn[t])
    BY <1>1, <1>2, <1>3
  <2>7. QED
    BY <2>3, <2>4, <2>5, <2>6
<1>5. CASE cache' = cache /\ idle' = idle /\ conn' = conn
  BY <1>1, <1>3, <1>5
<1>6. QED
  BY <1>4, <1>5

\* The server fails or recovers.
LEMMA ServerChangesKeeps ==
  ASSUME Inv, ServerChanges
  PROVE  Inv'
<1>1. \/ /\ cache' = Dead(cache)
         /\ idle' = [i \in DOMAIN idle |-> Dead(idle[i])]
         /\ conn' = [t \in Threads |-> Dead(conn[t])]
      \/ cache' = cache /\ idle' = idle /\ conn' = conn
  BY DEF ServerChanges
<1>2. /\ server' \in {"up", "slow", "down"} /\ grants' = grants /\ kept' = kept
      /\ UNCHANGED <<wait, began, pc, task, open, leaked>>
      /\ trouble' = [t \in Threads |-> trouble[t] \/ pc[t] # "out"]
  BY DEF ServerChanges, Troubles
<1>3. grants' \in BOOLEAN /\ kept' \in BOOLEAN /\ (kept' => kept /\ grants')
  BY <1>2 DEF Inv, Types, CacheInv
<1>4. /\ trouble' \in [Threads -> BOOLEAN]
      /\ \A t \in Threads : pc[t] # "out" => trouble'[t]
  BY <1>2
<1>5. QED
  BY <1>1, <1>2, <1>3, <1>4, SessionsDie, ServerMoves

\* The server changes what it grants.
LEMMA PolicyChangesKeeps ==
  ASSUME Inv, PolicyChanges
  PROVE  Inv'
<1>1. /\ cache' = cache /\ idle' = idle /\ conn' = conn /\ server' = server
      /\ UNCHANGED <<wait, began, pc, task, open, leaked>>
      /\ trouble' = [t \in Threads |-> trouble[t] \/ pc[t] # "out"]
      /\ grants' \in BOOLEAN /\ kept' = FALSE
  BY DEF PolicyChanges, Troubles, cacheSide
<1>2. server' \in {"up", "slow", "down"}
  BY <1>1 DEF Inv, Types
<1>3. /\ trouble' \in [Threads -> BOOLEAN]
      /\ \A t \in Threads : pc[t] # "out" => trouble'[t]
  BY <1>1
<1>4. QED
  BY <1>1, <1>2, <1>3, SessionsDie, ServerMoves

\* The server drops all sessions.
LEMMA KillKeeps ==
  ASSUME Inv, Kill
  PROVE  Inv'
<1>1. /\ cache' = Dead(cache)
      /\ idle' = [i \in DOMAIN idle |-> Dead(idle[i])]
      /\ conn' = [t \in Threads |-> Dead(conn[t])]
      /\ server' = server /\ grants' = grants /\ kept' = kept
      /\ UNCHANGED <<wait, began, pc, task, open, leaked>>
      /\ trouble' = [t \in Threads |-> trouble[t] \/ task[t] # "read"]
  BY DEF Kill, environment
<1>2. /\ server' \in {"up", "slow", "down"} /\ grants' \in BOOLEAN /\ kept' \in BOOLEAN
      /\ (kept' => kept /\ grants')
  BY <1>1 DEF Inv, Types, CacheInv
<1>3. /\ trouble' \in [Threads -> BOOLEAN]
      /\ \A t \in Threads : ~trouble'[t] => ~trouble[t] /\ task[t] # "retry"
  BY <1>1
<1>4. QED
  BY <1>1, <1>2, <1>3, SessionsDie, ServerMoves

-----------------------------------------------------------------------------
(* The invariant and what it gives *)

\* The invariant holds when main() begins to serve.
LEMMA InvInitially ==
  ASSUME Init
  PROVE  Inv
<1>1. /\ NoConn \in Conns /\ Ready \in Conns /\ Usable(Ready) /\ NoConn.ctx = "null"
      /\ Contexts(Ready) = 1
  BY DEF NoConn, Ready, Conns, Usable, IsConnected, Contexts
<1>2. /\ idle \in Seq(Conns) /\ Len(idle) <= MaxIdle /\ Len(idle) \in Nat
      /\ \A i \in DOMAIN idle : Usable(idle[i])
  BY <1>1, BoundAssumption DEF Init
<1>3. Types
  BY <1>1, <1>2, BoundAssumption DEF Init, Types
<1>4. PlacesFit /\ KeySessionsAreReady /\ UndisturbedIsWell
  BY <1>1, <1>2 DEF Init, PlacesFit, KeySessionsAreReady, UndisturbedIsWell
<1>5. CacheInv
  BY <1>1, BoundAssumption DEF Init, CacheInv, CacheSessionIsReady
<1>6. ContextsAccountedFor
  <2>1. {t \in Threads : conn[t].ctx # "null"} = {}
    BY <1>1 DEF Init
  <2>2. Cardinality({t \in Threads : conn[t].ctx # "null"}) = 0
    BY <2>1, FS_EmptySet
  <2>3. Contexts(cache) = 1 /\ open = 1 + Len(idle) /\ leaked = 0
    BY <1>1 DEF Init
  <2>4. QED
    BY <1>2, <2>2, <2>3 DEF ContextsAccountedFor
<1>7. QED
  BY <1>3, <1>4, <1>5, <1>6 DEF Inv

\* Every step keeps it.
LEMMA InvKept ==
  ASSUME Inv, [Next]_vars
  PROVE  Inv'
<1>1. CASE CacheCall
  BY <1>1, CacheCommandKeeps, CacheReconnectKeeps DEF CacheCall
<1>2. CASE ReadyCheck
  BY <1>2, ReadyCheckKeeps
<1>3. ASSUME NEW t \in Threads, Begin(t) \/ Validate(t)
      PROVE  Inv'
  BY <1>3, BeginKeeps, AcquireKeeps, ConnectKeeps, SendKeeps, ReleaseKeeps, LookupKeeps
     DEF Validate
<1>4. CASE ServerChanges \/ PolicyChanges \/ Kill \/ Tick
  BY <1>4, ServerChangesKeeps, PolicyChangesKeeps, KillKeeps, TickKeeps
<1>5. CASE UNCHANGED vars
  <2>1. /\ UNCHANGED <<server, grants, cache, wait, idle, conn, pc, task, open, leaked>>
        /\ UNCHANGED <<kept, began, trouble>>
    BY <1>5 DEF vars
  <2>2. QED
    BY <2>1 DEF Inv, Types, PlacesFit, KeySessionsAreReady, UndisturbedIsWell, CacheInv,
                CacheSessionIsReady, ContextsAccountedFor, Usable, IsConnected, Contexts
<1>6. QED
  BY <1>1, <1>2, <1>3, <1>4, <1>5 DEF Next

\* The inductive invariant.
LEMMA SessionInvariant == Spec => []Inv
<1>1. Init => Inv
  BY InvInitially
<1>2. Inv /\ [Next]_vars => Inv'
  BY InvKept
<1>3. QED
  BY <1>1, <1>2, PTL DEF Spec

\* The connections' variables keep their types, idle_ its bound, and the number
\* of open contexts is never negative: no context is freed twice.
THEOREM TypeCorrect == Spec => []TypeOK
<1>1. ASSUME Inv PROVE TypeOK
  <2>1. open \in Nat
    <3>1. open = Contexts(cache) + Len(idle) + Cardinality(Connected) + leaked
      BY <1>1 DEF Inv, ContextsAccountedFor, Connected
    <3>2. Contexts(cache) \in Nat /\ Len(idle) \in Nat /\ leaked \in Nat
      BY <1>1, BoundAssumption DEF Inv, Types, Contexts
    <3>3. QED
      BY <3>1, <3>2, CountIsNat
  <2>2. QED
    BY <1>1, <2>1 DEF Inv, Types, TypeOK
<1>2. QED
  BY <1>1, SessionInvariant, PTL

\* While the server grants what is configured, a connected session of the cache
\* has been through reconnect()'s whole handshake.
THEOREM CacheHandshakes == Spec => []CacheSessionIsReady
<1>1. Inv => CacheSessionIsReady
  BY DEF Inv, CacheInv
<1>2. QED
  BY <1>1, SessionInvariant, PTL

\* The sessions that from_cache() and store_in_cache() use, and those in idle_,
\* have been through it always.
THEOREM KeyHandshakes == Spec => []KeySessionsAreReady
<1>1. Inv => KeySessionsAreReady
  BY DEF Inv
<1>2. QED
  BY <1>1, SessionInvariant, PTL

\* acquire(), the retry and release() lose no context, for any number of threads.
THEOREM NoContextLost == Spec => []ContextsAccountedFor
<1>1. Inv => ContextsAccountedFor
  BY DEF Inv
<1>2. QED
  BY <1>1, SessionInvariant, PTL

\* One retry of from_cache() is enough for any number of dead idle sessions.
THEOREM OneRetryIsEnough == Spec => []StaleSessionsAreReplaced
<1>1. Inv => StaleSessionsAreReplaced
  BY DEF Inv, UndisturbedIsWell, StaleSessionsAreReplaced
<1>2. QED
  BY <1>1, SessionInvariant, PTL

\* After an attempt of ensure_connected_locked() that failed, the next is
\* kReconnectBackoff away, for any backoff and any time an attempt may take.
THEOREM BackoffRespected == Spec => []FailuresAreSpaced
<1>1. Inv => FailuresAreSpaced
  BY BoundAssumption DEF Inv, Types, CacheInv, FailuresAreSpaced
<1>2. QED
  BY <1>1, SessionInvariant, PTL

-----------------------------------------------------------------------------
(* The cache recovers *)

Well == server = "up" /\ grants

Down == Disconnected(cache)

\* Left connected by a refused handshake, and then dropped by the server.
Gone == IsConnected(cache) /\ ~cache.alive /\ ~Usable(cache)

\* The states after a command that breaks the cache's session, after a reconnect
\* that succeeds, and after a tick.
CommandBroke == <<server, grants, Broken(cache), wait, idle, conn, pc, task, open, leaked,
                  kept, began, trouble>>
Reconnected  == <<server, grants, Ready, wait, idle, conn, pc, task, open - Freed(cache) + 1, leaked,
                  kept, began, trouble>>
Ticked       == <<server, grants, cache, wait - 1, idle, conn, pc, task, open, leaked,
                  kept, Least(began + 1, Backoff), trouble>>

\* A call meets a session that the server dropped, and breaks it; after the
\* backoff a call at a server that is well connects; and during the backoff time
\* can pass.
THEOREM CacheCanGoOn ==
  /\ Types /\ Gone /\ vars' = CommandBroke => <<CacheCall>>_vars
  /\ Down /\ wait = 0 /\ Well /\ vars' = Reconnected => <<CacheCall>>_vars
  /\ Types /\ wait > 0 /\ vars' = Ticked => <<Tick>>_vars
<1> USE DEF vars, environment, cacheSide, keySide, IsConnected
<1>1. ASSUME Types, Gone, vars' = CommandBroke PROVE <<CacheCall>>_vars
  <2>1. [c |-> Broken(cache), result |-> "broken"] \in Command(cache)
    BY <1>1 DEF Gone, Command
  <2>2. CacheCommand
    BY <1>1, <2>1 DEF Gone, CommandBroke, CacheCommand
  <2>3. cache' # cache
    BY <1>1 DEF Types, Conns, Gone, CommandBroke, Broken
  <2>4. QED
    BY <2>2, <2>3 DEF CacheCall
<1>2. ASSUME Down, wait = 0, Well, vars' = Reconnected PROVE <<CacheCall>>_vars
  <2> DEFINE o == [c |-> Ready, ok |-> TRUE]
             r == [c |-> Ready, result |-> "answered"]
  <2>1. o \in Reconnect
    BY <1>2 DEF Well, Reconnect
  <2>2. r \in Command(o.c)
    BY <1>2 DEF Well, Command, Ready
  <2>3. Contexts(o.c) = 1
    BY DEF Contexts, Ready
  <2>4. CacheReconnect
    BY <1>2, <2>1, <2>2, <2>3 DEF Down, Reconnected, CacheReconnect
  <2>5. cache' # cache
    BY <1>2 DEF Down, Disconnected, Reconnected, Ready
  <2>6. QED
    BY <2>4, <2>5 DEF CacheCall
<1>3. ASSUME Types, wait > 0, vars' = Ticked PROVE <<Tick>>_vars
  <2>1. Tick
    BY <1>3 DEF Ticked, Tick
  <2>2. wait' # wait
    BY <1>3, BoundAssumption DEF Types, Ticked
  <2>3. QED
    BY <2>1, <2>2
<1>4. QED
  BY <1>1, <1>2, <1>3

\* What a step can do to the cache's session and to its backoff.
LEMMA StepsOfCache ==
  ASSUME [Next]_vars
  PROVE  \/ CacheCall
         \/ Tick /\ cache' = cache
         \/ cache' \in {cache, Dead(cache)} /\ wait' = wait
<1> USE DEF environment, cacheSide, keySide
<1>1. ASSUME NEW t \in Threads, Begin(t) \/ Validate(t) PROVE cache' = cache /\ wait' = wait
  BY <1>1 DEF Begin, Validate, Acquire, Connect, Send, Release, Lookup
<1>2. CASE ReadyCheck \/ PolicyChanges
  BY <1>2 DEF ReadyCheck, PolicyChanges
<1>3. CASE ServerChanges \/ Kill
  BY <1>3 DEF ServerChanges, Kill
<1>4. CASE Tick
  BY <1>4 DEF Tick
<1>5. CASE UNCHANGED vars
  BY <1>5 DEF vars
<1>6. QED
  BY <1>1, <1>2, <1>3, <1>4, <1>5 DEF Next

\* At a server that is well a reconnect succeeds, with the command after it, and
\* a command on a live session leaves it as it is.
LEMMA WellCalls ==
  ASSUME Well, CacheCall
  PROVE  /\ Down => Usable(cache)'
         /\ Usable(cache) => (Usable(cache) \/ Down)'
         /\ HalfOpen(cache) => (HalfOpen(cache))'
         /\ Gone => Down'
<1>1. CASE CacheCommand
  <2>1. PICK r \in Command(cache) : cache' = r.c
    BY <1>1 DEF CacheCommand
  <2>2. (r.c = cache /\ cache.alive) \/ (r.c = Broken(cache) /\ ~cache.alive)
    BY <2>1 DEF Well, Command
  <2>3. CASE r.c = cache /\ cache.alive
    BY <1>1, <2>1, <2>3 DEF CacheCommand, Down, Disconnected, Gone, Usable, IsConnected, HalfOpen
  <2>4. CASE r.c = Broken(cache) /\ ~cache.alive
    <3>1. Down'
      BY <2>1, <2>4 DEF Down, Disconnected, IsConnected, Broken
    <3>2. QED
      BY <1>1, <2>4, <3>1 DEF CacheCommand, Down, Disconnected, HalfOpen
  <2>5. QED
    BY <2>2, <2>3, <2>4
<1>2. CASE CacheReconnect
  <2>1. PICK o \in Reconnect :
          \/ (o.ok /\ \E r \in Command(o.c) : cache' = r.c)
          \/ (~o.ok /\ cache' = o.c)
    BY <1>2 DEF CacheReconnect
  <2>2. o = [c |-> Ready, ok |-> TRUE]
    BY <2>1 DEF Well, Reconnect, Threw, Unfinished
  <2>3. PICK r \in Command(Ready) : cache' = r.c
    BY <2>1, <2>2
  <2>4. r.c = Ready
    BY <2>3 DEF Well, Command, Ready
  <2>5. Usable(cache)'
    BY <2>3, <2>4 DEF Usable, IsConnected, Ready
  <2>6. QED
    BY <1>2, <2>5 DEF CacheReconnect, Disconnected, Usable, HalfOpen, Gone
<1>3. QED
  BY <1>1, <1>2 DEF CacheCall

\* A session that the server dropped looks to the process as it did.
LEMMA DeadLooksAlike ==
  ASSUME cache \in Conns, cache' \in {cache, Dead(cache)}
  PROVE  /\ Down = Down' /\ Usable(cache) = Usable(cache)'
         /\ HalfOpen(cache) => (HalfOpen(cache) \/ Gone)'
         /\ Gone => Gone'
  BY DEF Conns, Dead, Down, Disconnected, IsConnected, Usable, HalfOpen, Gone

\* The backoff only runs down: nothing but the clock changes it, and a call
\* during it changes nothing.
THEOREM BackoffRunsOut ==
  ASSUME NEW n \in Nat
  PROVE  FairSpec /\ [](Down /\ wait = n + 1 => ENABLED <<Tick>>_vars)
         => ((Down /\ wait = n + 1) ~> (Down /\ wait = n))
<1> DEFINE P == Down /\ wait = n + 1
           Q == Down /\ wait = n
<1>1. Types /\ P /\ [Next]_vars => P' \/ Q'
  <2> SUFFICES ASSUME Types, P, [Next]_vars PROVE P' \/ Q'
    OBVIOUS
  <2>1. CASE CacheCall
    BY <2>1 DEF CacheCall, CacheCommand, CacheReconnect, Down, Disconnected
  <2>2. CASE Tick /\ cache' = cache
    BY <2>2 DEF Tick, Down, Disconnected, IsConnected
  <2>3. CASE cache' \in {cache, Dead(cache)} /\ wait' = wait
    BY <2>3, DeadLooksAlike DEF Types
  <2>4. QED
    BY <2>1, <2>2, <2>3, StepsOfCache
<1>2. P /\ <<Tick>>_vars => Q'
  BY DEF Tick, Down, Disconnected, IsConnected, cacheSide
<1>3. Inv => Types
  BY DEF Inv
<1> HIDE DEF P, Q
<1>4. P = (Down /\ wait = n + 1) /\ Q = (Down /\ wait = n)
  BY DEF P, Q
<1>5. FairSpec /\ [](P => ENABLED <<Tick>>_vars) => (P ~> Q)
  BY <1>1, <1>2, <1>3, SessionInvariant, PTL DEF FairSpec, Spec
<1>6. QED
  BY <1>4, <1>5, PTL DEF P, Q

\* A server that stays well is reached: an attempt that the backoff allows
\* succeeds, and nothing but an attempt ends the time of waiting for one.
THEOREM WellServersAreReached ==
  FairSpec /\ []Well /\ [](Down /\ wait = 0 => ENABLED <<CacheCall>>_vars)
  => ((Down /\ wait = 0) ~> Usable(cache))
<1> DEFINE P == Down /\ wait = 0
           U == Usable(cache)
<1>1. Types /\ Well /\ P /\ [Next]_vars => P' \/ U'
  <2> SUFFICES ASSUME Types, Well, P, [Next]_vars PROVE P' \/ U'
    OBVIOUS
  <2>1. CASE CacheCall
    BY <2>1, WellCalls
  <2>2. CASE Tick /\ cache' = cache
    BY <2>2 DEF Tick, Down, Disconnected, IsConnected
  <2>3. CASE cache' \in {cache, Dead(cache)} /\ wait' = wait
    BY <2>3, DeadLooksAlike DEF Types
  <2>4. QED
    BY <2>1, <2>2, <2>3, StepsOfCache
<1>2. Well /\ P /\ <<CacheCall>>_vars => U'
  BY WellCalls
<1>3. Inv => Types
  BY DEF Inv
<1> HIDE DEF P, U
<1>4. P = (Down /\ wait = 0) /\ U = Usable(cache)
  BY DEF P, U
<1>5. FairSpec /\ []Well /\ [](P => ENABLED <<CacheCall>>_vars) => (P ~> U)
  BY <1>1, <1>2, <1>3, SessionInvariant, PTL DEF FairSpec, Spec
<1>6. QED
  BY <1>4, <1>5, PTL DEF P, U

\* What the cache's session can become at a server that is well: only an attempt
\* makes it usable, and what is left of a refused handshake stays until the
\* server drops it.
LEMMA WellStep ==
  ASSUME Types, Well, [Next]_vars
  PROVE  /\ Usable(cache) \/ HalfOpen(cache) \/ Gone \/ Down
         /\ HalfOpen(cache) => (HalfOpen(cache) \/ Gone)'
         /\ Gone => (Gone \/ Down)'
         /\ Down => (Down \/ Usable(cache))'
<1>1. Usable(cache) \/ HalfOpen(cache) \/ Gone \/ Down
  BY DEF HalfOpen, Gone, Down, Disconnected
<1>2. CASE CacheCall
  BY <1>1, <1>2, WellCalls
<1>3. CASE Tick /\ cache' = cache
  BY <1>1, <1>3 DEF HalfOpen, Gone, Down, Disconnected, Usable, IsConnected
<1>4. CASE cache' \in {cache, Dead(cache)} /\ wait' = wait
  BY <1>1, <1>4, DeadLooksAlike DEF Types
<1>5. QED
  BY <1>2, <1>3, <1>4, StepsOfCache

\* CacheRecoversUnlessHalfOpen from the end of the backoff on: if the time to
\* wait always runs down to an attempt (BackoffRunsOut is one step of that), the
\* cache of a server that stays well gets a session again and again, unless it is
\* left with a session that looks connected and is alive but was never finished.
THEOREM CacheRecovers ==
  /\ FairSpec
  /\ [](Gone \/ (Down /\ wait = 0 /\ Well) => ENABLED <<CacheCall>>_vars)
  /\ Down ~> ((Down /\ wait = 0) \/ Usable(cache))
  => CacheRecoversUnlessHalfOpen
<1> DEFINE U == Usable(cache)
           H == HalfOpen(cache)
           P == Down /\ wait = 0
<1>1. Types /\ Well /\ [Next]_vars =>
        /\ U \/ H \/ Gone \/ Down
        /\ H => H' \/ Gone'
        /\ Gone => Gone' \/ Down'
        /\ Down => Down' \/ U'
  BY WellStep
<1>2. /\ Well /\ Gone /\ <<CacheCall>>_vars => Down'
      /\ Well /\ P /\ <<CacheCall>>_vars => U'
  BY WellCalls
<1>3. Types /\ Well /\ P /\ [Next]_vars => P' \/ U'
  <2> SUFFICES ASSUME Types, Well, P, [Next]_vars PROVE P' \/ U'
    OBVIOUS
  <2>1. CASE CacheCall
    BY <2>1, WellCalls
  <2>2. CASE Tick /\ cache' = cache
    BY <2>2 DEF Tick, Down, Disconnected, IsConnected
  <2>3. CASE cache' \in {cache, Dead(cache)} /\ wait' = wait
    BY <2>3, DeadLooksAlike DEF Types
  <2>4. QED
    BY <2>1, <2>2, <2>3, StepsOfCache
<1>4. Inv => Types
  BY DEF Inv
<1>5. Well <=> (server = "up" /\ grants)
  BY DEF Well
<1> HIDE DEF U, H, P
<1>6. Spec /\ WF_vars(CacheCall) /\ [](Gone \/ (P /\ Well) => ENABLED <<CacheCall>>_vars)
        /\ (Down ~> (P \/ U))
        => (<>[]Well => []<>U \/ <>[]H)
  BY <1>1, <1>2, <1>3, <1>4, SessionInvariant, PTL DEF Spec
<1>7. QED
  BY <1>5, <1>6, PTL DEF FairSpec, U, H, P, CacheRecoversUnlessHalfOpen, ServerStaysWell
=============================================================================
