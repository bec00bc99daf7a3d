--------------------------- MODULE GatewayProofs ----------------------------
(***************************************************************************)
(* Proofs about Gateway, for any number of threads and writes and any      *)
(* requests, clients, credentials and spellings.                           *)
(***************************************************************************)
EXTENDS Gateway, TLAPS

\* A resource handler works for a client only when every credential of its request
\* was checked, names that client and grants what the method needs, it is a
\* handler of that method, and the body it parses has passed the size limit.
HandlersAreEntitled ==
  \A t \in Threads : pc[t] \in Working =>
    /\ client[t] # Nobody => Entitled(t, client[t], RequiredScope(req[t].method))
    /\ route[t] \in {"create", "update", "remove"} => RequiredScope(req[t].method) = "write"
    /\ route[t] \in {"create", "update"} => req[t].body = "small"

\* What a handler has at hand while it calls Redis: the calls of get(), or those of
\* an update or a removal, for a client and an id, and with a row of that client
\* before it is stored or answered.
HandsAreClean ==
  \A t \in Threads :
    /\ pc[t] \in Working \ {"handle"} => client[t] \in Clients /\ req[t].id \in Spellings
    /\ pc[t] \in {"version", "read", "fill"} => route[t] = "get"
    /\ pc[t] = "evict" => route[t] \in {"update", "remove"}
    /\ pc[t] = "fill" \/ (pc[t] = "evict" /\ route[t] = "update") => local[t].row.owner = client[t]

\* There is no row before it is created, and what is stored under a client is the
\* row as that client owned it.
EntriesAreOwned ==
  /\ row.ver = 0 => row.owner = Nobody
  /\ \A c \in Clients, i \in Spellings : entries[<<c, i>>] # NoRow => entries[<<c, i>>].owner = c

Inv == TypeOK /\ HandlersAreEntitled /\ HandsAreClean /\ EntriesAreOwned /\ RowsGoToTheirOwners

-----------------------------------------------------------------------------
(* Types *)

\* Facts about the constants that the other lemmas use.
LEMMA Constants ==
  /\ NoRow \in Rows /\ NoRow.owner = Nobody /\ NoRow.ver = 0
  /\ Fresh \in Locals
  /\ NoResponse \in Responses /\ NoResponse.row = NoRow
  /\ \A s \in Statuses, b \in Rows : /\ [status |-> s, row |-> b] \in Responses
                                     /\ [status |-> s, row |-> b] # NoResponse
  /\ Nobody \notin Clients
<1>1. NoRow \in Rows /\ NoRow.owner = Nobody /\ NoRow.ver = 0
  BY WritesAssumption DEF NoRow, Rows
<1>2. NoResponse \in Responses /\ NoResponse.row = NoRow
  BY DEF NoResponse, Responses
<1>3. Fresh \in Locals
  BY <1>1 DEF Fresh, Locals, NoVersion
<1>4. ASSUME NEW s \in Statuses, NEW b \in Rows
      PROVE  /\ [status |-> s, row |-> b] \in Responses
             /\ [status |-> s, row |-> b] # NoResponse
  <2>1. s # 0
    BY DEF Statuses
  <2>2. QED
    BY <2>1 DEF Responses, NoResponse
<1>5. QED
  BY <1>1, <1>2, <1>3, <1>4, CredentialsAssumption

\* A response takes its thread to "answered" and is a response of the API.
LEMMA AnswerTypes ==
  ASSUME TypeOK, NEW t \in Threads, NEW s \in Statuses, NEW b \in Rows, Answer(t, s, b)
  PROVE  /\ pc' \in [Threads -> {"idle", "dispatch", "answered"} \cup Working]
         /\ resp' \in [Threads -> Responses]
         /\ local' \in [Threads -> Locals]
         /\ \A u \in Threads : (resp'[u] = NoResponse) <=> (pc'[u] # "answered")
         /\ pc'[t] = "answered" /\ resp'[t].row = b
         /\ \A u \in Threads \ {t} : pc'[u] = pc[u] /\ resp'[u] = resp[u] /\ local'[u] = local[u]
<1>1. [status |-> s, row |-> b] \in Responses /\ [status |-> s, row |-> b] # NoResponse
  BY Constants
<1>2. /\ pc' = [pc EXCEPT ![t] = "answered"]
      /\ resp' = [resp EXCEPT ![t] = [status |-> s, row |-> b]]
      /\ local' = [local EXCEPT ![t] = Fresh]
  BY DEF Answer
<1>3. QED
  BY <1>1, <1>2, Constants DEF TypeOK

\* A handler that goes on to its next call answers nothing.
LEMMA GoOnTypes ==
  ASSUME TypeOK, NEW t \in Threads, NEW p \in Working, NEW l \in Locals, GoOn(t, p, l),
         pc[t] # "answered"
  PROVE  /\ pc' \in [Threads -> {"idle", "dispatch", "answered"} \cup Working]
         /\ resp' \in [Threads -> Responses]
         /\ local' \in [Threads -> Locals]
         /\ \A u \in Threads : (resp'[u] = NoResponse) <=> (pc'[u] # "answered")
         /\ pc'[t] = p /\ local'[t] = l
         /\ \A u \in Threads \ {t} : pc'[u] = pc[u] /\ local'[u] = local[u]
  BY DEF GoOn, TypeOK, Working

\* Where a row that a handler answers with comes from: the entry of its client, the
\* table, or what it has at hand.
Source(t, b) ==
  \/ b = NoRow
  \/ /\ pc[t] = "handle" /\ client[t] \in Clients
     /\ \/ req[t].id \in Spellings /\ b = entries[<<client[t], req[t].id>>]
        \/ b = row /\ row.owner = client[t]
        \/ b = [owner |-> client[t], ver |-> 1]
  \/ pc[t] = "read" /\ b = row /\ row.owner = client[t]
  \/ pc[t] = "fill" /\ b = local[t].row
  \/ pc[t] = "evict" /\ route[t] = "update" /\ b = local[t].row

\* How a handler goes on to its next call.
Continues(t, p, l) ==
  /\ GoOn(t, p, l)
  /\ \/ /\ pc[t] = "handle" /\ p = "version" /\ l = Fresh /\ route[t] = "get"
        /\ client[t] \in Clients /\ req[t].id \in Spellings
     \/ pc[t] = "version" /\ p = "read" /\ l.row = local[t].row
     \/ pc[t] = "read" /\ p = "fill" /\ l.row = row /\ row.owner = client[t]
     \/ /\ pc[t] = "handle" /\ p = "evict" /\ l.row = row'
        /\ client[t] \in Clients /\ req[t].id \in Spellings
        /\ route[t] \in {"update", "remove"}
        /\ route[t] = "update" => row'.owner = client[t]

\* What a step of a handler does to the row.
RowCases(t) ==
  \/ row' = row
  \/ /\ pc[t] = "handle" /\ client[t] \in Clients
     /\ row' \in Rows /\ row'.ver > 0
     /\ \/ route[t] = "create" /\ row.ver = 0 /\ row' = [owner |-> client[t], ver |-> 1]
        \/ /\ route[t] \in {"update", "remove"}
           /\ row.owner = client[t] /\ row'.owner \in {client[t], Nobody}

\* What a step of a handler does to the cache.
CacheCases(t) ==
  \/ UNCHANGED cache
  \/ /\ pc[t] = "fill" /\ entries' = [entries EXCEPT ![<<client[t], req[t].id>>] = local[t].row]
     /\ UNCHANGED <<version, evicted>>
  \/ /\ pc[t] = "evict" /\ entries' = [entries EXCEPT ![<<client[t], req[t].id>>] = NoRow]
     /\ version' = [version EXCEPT ![<<client[t], req[t].id>>] = @ + 1]
     /\ evicted' \in 0..MaxWrites

Moves(t) == \/ \E s \in Statuses, b \in Rows : Answer(t, s, b) /\ Source(t, b)
            \/ \E p \in Working, l \in Locals : Continues(t, p, l)

\* The steps of the handlers: a handler answers or goes on to its next call, and
\* creates or changes its client's row, fills or evicts its client's entry, or
\* changes nothing.
LEMMA HandleCases ==
  ASSUME TypeOK, HandsAreClean, NEW t \in Threads, Handle(t)
  PROVE  /\ pc[t] \in Working /\ UNCHANGED request
         /\ Moves(t) /\ RowCases(t) /\ CacheCases(t)
<1> USE DEF Handling
<1>0. {200, 201, 400, 404, 409, 422, 500, 503} \subseteq Statuses /\ NoRow \in Rows
  BY Constants DEF Statuses
<1>a. ASSUME NEW S \in SUBSET Statuses, Fail(t, S)
      PROVE  Moves(t) /\ RowCases(t) /\ CacheCases(t)
  BY <1>0, <1>a DEF Fail, Moves, Source, RowCases, CacheCases, data
<1>1. CASE Health(t) \/ ReadyCheck(t) \/ NotFound(t)
  <2>1. {200} \in SUBSET Statuses /\ {200, 503} \in SUBSET Statuses /\ {404} \in SUBSET Statuses
    BY <1>0
  <2>2. QED
    BY <1>1, <1>a, <2>1 DEF Health, ReadyCheck, NotFound, Working
<1>4. CASE TurnAway(t)
  <2>1. Turned(t) \in SUBSET Statuses
    BY <1>0 DEF Turned
  <2>2. QED
    BY <1>4, <1>a, <2>1 DEF TurnAway, Working
<1>5. ASSUME Turned(t) = {} PROVE client[t] \in Clients
  BY <1>5 DEF Turned, TypeOK
<1>6. ASSUME Turned(t) = {}, route[t] \in {"get", "update", "remove"} PROVE req[t].id \in Spellings
  <2>1. req[t].id # "junk"
    BY <1>6 DEF Turned
  <2>2. req[t] \in Requests
    BY <2>1 DEF TypeOK, NoRequest
  <2>3. QED
    BY <2>1, <2>2, RequestsAssumption DEF RequestSet
<1>7. CASE Create(t)
  <2>1. client[t] \in Clients /\ route[t] = "create" /\ pc[t] = "handle" /\ UNCHANGED request
    BY <1>5, <1>7 DEF Create, Serves
  <2>2. CASE Fail(t, {400, 409, 422, 500, 201})
    BY <1>0, <1>a, <2>1, <2>2 DEF Working
  <2>3. CASE /\ row.ver = 0 /\ row.ver < MaxWrites
             /\ row' = [owner |-> client[t], ver |-> 1]
             /\ Answer(t, 201, row')
             /\ UNCHANGED cache
    <3>1. row' \in Rows /\ row'.ver > 0
      BY <2>1, <2>3, WritesAssumption DEF Rows
    <3>2. Moves(t)
      BY <1>0, <2>1, <2>3, <3>1 DEF Moves, Source
    <3>3. QED
      BY <2>1, <2>3, <3>1, <3>2 DEF RowCases, CacheCases, Working
  <2>4. QED
    BY <1>7, <2>2, <2>3 DEF Create
<1>8. CASE List(t)
  <2>1. client[t] \in Clients /\ row \in Rows /\ pc[t] = "handle" /\ UNCHANGED request
    BY <1>5, <1>8 DEF List, Serves, TypeOK
  <2>2. CASE Fail(t, {400, 500})
    BY <1>0, <1>a, <2>1, <2>2 DEF Working
  <2>3. CASE Answer(t, 200, IF Found(t) THEN row ELSE NoRow) /\ UNCHANGED data
    <3>1. Moves(t)
      BY <1>0, <2>1, <2>3 DEF Moves, Source, Found
    <3>2. QED
      BY <2>1, <2>3, <3>1 DEF RowCases, CacheCases, Working, data
  <2>4. QED
    BY <1>8, <2>2, <2>3 DEF List
<1>9. CASE Get(t)
  <2>1. /\ client[t] \in Clients /\ req[t].id \in Spellings
        /\ entries[<<client[t], req[t].id>>] \in Rows
        /\ pc[t] = "handle" /\ route[t] = "get" /\ UNCHANGED request /\ UNCHANGED data
    BY <1>5, <1>6, <1>9 DEF Get, Serves, TypeOK, CacheKeys
  <2>2. \/ Answer(t, 200, entries[<<client[t], req[t].id>>])
        \/ GoOn(t, "version", Fresh)
    BY <1>9 DEF Get, KeyOf, CacheKey
  <2>3. Moves(t)
    <3>1. CASE Answer(t, 200, entries[<<client[t], req[t].id>>])
      BY <1>0, <2>1, <3>1 DEF Moves, Source
    <3>2. CASE GoOn(t, "version", Fresh)
      BY <2>1, <3>2, Constants DEF Moves, Continues, Working
    <3>3. QED
      BY <2>2, <3>1, <3>2
  <2>4. QED
    BY <2>1, <2>3 DEF RowCases, CacheCases, Working, data
<1>10. CASE ReadVersion(t)
  <2>1. pc[t] = "version" /\ client[t] \in Clients /\ req[t].id \in Spellings
        /\ UNCHANGED request /\ UNCHANGED data
    BY <1>10 DEF ReadVersion, HandsAreClean, Working
  <2>2. PICK v \in {version[KeyOf(t)], NoVersion} :
          GoOn(t, "read", [local[t] EXCEPT !.version = v])
    BY <1>10 DEF ReadVersion
  <2>3. KeyOf(t) \in CacheKeys
    BY <2>1 DEF KeyOf, CacheKey, CacheKeys
  <2>4. [local[t] EXCEPT !.version = v] \in Locals /\ [local[t] EXCEPT !.version = v].row = local[t].row
    BY <2>3 DEF TypeOK, Locals
  <2>5. Moves(t)
    BY <2>1, <2>2, <2>4 DEF Moves, Continues, Working
  <2>6. QED
    BY <2>1, <2>5 DEF RowCases, CacheCases, Working, data
<1>11. CASE FindRow(t)
  <2>1. pc[t] = "read" /\ UNCHANGED request /\ row \in Rows
    BY <1>11 DEF FindRow, TypeOK
  <2>2. CASE Fail(t, {500}) \/ Fail(t, {404})
    BY <1>0, <1>a, <2>1, <2>2 DEF Working
  <2>3. CASE /\ Found(t)
             /\ IF local[t].version = NoVersion
                  THEN Answer(t, 200, row)
                  ELSE GoOn(t, "fill", [local[t] EXCEPT !.row = row])
             /\ UNCHANGED data
    <3>1. [local[t] EXCEPT !.row = row] \in Locals /\ [local[t] EXCEPT !.row = row].row = row
      BY <2>1 DEF TypeOK, Locals
    <3>2. CASE Answer(t, 200, row)
      BY <1>0, <2>1, <2>3, <3>2 DEF Moves, Source, Found, RowCases, CacheCases, Working, data
    <3>3. CASE GoOn(t, "fill", [local[t] EXCEPT !.row = row])
      <4>1. Moves(t)
        BY <2>1, <2>3, <3>1, <3>3 DEF Moves, Continues, Found, Working
      <4>2. QED
        BY <2>1, <2>3, <4>1 DEF RowCases, CacheCases, Working, data
    <3>4. QED
      BY <2>3, <3>2, <3>3
  <2>4. QED
    BY <1>11, <2>2, <2>3 DEF FindRow
<1>12. CASE PutIfVersion(t)
  <2>1. pc[t] = "fill" /\ UNCHANGED request /\ row' = row /\ local[t].row \in Rows
    BY <1>12 DEF PutIfVersion, TypeOK, Locals
  <2>2. Moves(t)
    BY <1>0, <1>12, <2>1 DEF PutIfVersion, Moves, Source
  <2>3. CacheCases(t)
    BY <1>12, <2>1 DEF PutIfVersion, CacheCases, KeyOf, CacheKey, cache
  <2>4. QED
    BY <2>1, <2>2, <2>3 DEF RowCases, Working
<1>13. ASSUME NEW o \in {client[t], Nobody}, Write(t, o), o = client[t] \/ route[t] = "remove",
              Found(t), Turned(t) = {}, pc[t] = "handle", route[t] \in {"update", "remove"},
              UNCHANGED request
       PROVE  Moves(t) /\ RowCases(t) /\ CacheCases(t)
  <2>1. client[t] \in Clients /\ req[t].id \in Spellings
    BY <1>5, <1>6, <1>13
  <2>2. row' = [owner |-> o, ver |-> row.ver + 1] /\ row.ver < MaxWrites /\ row.owner = client[t]
    BY <1>13 DEF Write, Found
  <2>3. row.ver \in 0..MaxWrites
    BY DEF TypeOK, Rows
  <2>4. row' \in Rows /\ row'.ver > 0 /\ row'.owner = o
    BY <2>1, <2>2, <2>3, <1>13, WritesAssumption DEF Rows
  <2>5. [Fresh EXCEPT !.row = row'] \in Locals /\ [Fresh EXCEPT !.row = row'].row = row'
    BY <2>4 DEF Fresh, Locals, NoVersion
  <2>6. Moves(t)
    <3>1. CASE Answer(t, 500, NoRow)
      BY <1>0, <3>1 DEF Moves, Source
    <3>2. CASE GoOn(t, "evict", [Fresh EXCEPT !.row = row'])
      BY <1>13, <2>1, <2>4, <2>5, <3>2 DEF Moves, Continues, Working
    <3>3. QED
      BY <1>13, <3>1, <3>2 DEF Write
  <2>7. QED
    BY <1>13, <2>1, <2>2, <2>4, <2>6 DEF RowCases, CacheCases, Write
<1>14. CASE Update(t)
  <2>1. pc[t] = "handle" /\ route[t] = "update" /\ Turned(t) = {} /\ UNCHANGED request
    BY <1>14 DEF Update, Serves
  <2>2. CASE Fail(t, {400, 409, 422, 500}) \/ Fail(t, {404})
    BY <1>0, <1>a, <2>1, <2>2 DEF Working
  <2>3. CASE Found(t) /\ Write(t, row.owner)
    BY <1>13, <2>1, <2>3 DEF Found, Working
  <2>4. QED
    BY <1>14, <2>2, <2>3 DEF Update
<1>15. CASE Remove(t)
  <2>1. pc[t] = "handle" /\ route[t] = "remove" /\ Turned(t) = {} /\ UNCHANGED request
    BY <1>15 DEF Remove, Serves
  <2>2. CASE Fail(t, {500}) \/ Fail(t, {404})
    BY <1>0, <1>a, <2>1, <2>2 DEF Working
  <2>3. CASE Found(t) /\ Write(t, Nobody)
    BY <1>13, <2>1, <2>3 DEF Working
  <2>4. QED
    BY <1>15, <2>2, <2>3 DEF Remove
<1>16. CASE Evict(t)
  <2>1. pc[t] = "evict" /\ UNCHANGED request /\ row' = row /\ local[t].row \in Rows
        /\ local[t].row.ver \in 0..MaxWrites
    BY <1>16 DEF Evict, TypeOK, Locals, Rows
  <2>2. Moves(t)
    BY <1>0, <1>16, <2>1 DEF Evict, Moves, Source
  <2>3. CacheCases(t)
    <3>1. Later(evicted, local[t].row.ver) \in 0..MaxWrites /\ evicted \in 0..MaxWrites
      BY <2>1 DEF Later, TypeOK
    <3>2. QED
      BY <1>16, <2>1, <3>1 DEF Evict, CacheCases, KeyOf, CacheKey
  <2>4. QED
    BY <2>1, <2>2, <2>3 DEF RowCases, Working
<1>17. QED
  BY <1>1, <1>4, <1>7, <1>8, <1>9, <1>10, <1>11, <1>12, <1>14, <1>15, <1>16 DEF Handle

\* Every step of the server keeps the types.
LEMMA TypeStep ==
  ASSUME TypeOK, HandsAreClean, [Next]_vars
  PROVE  TypeOK'
<1>1. ASSUME NEW t \in Threads, NEW r \in Requests, Receive(t, r) PROVE TypeOK'
  <2>1. CASE \E s \in {413, 429} : Answer(t, s, NoRow)
    <3>1. PICK s \in {413, 429} : Answer(t, s, NoRow)
      BY <2>1
    <3>2. s \in Statuses /\ NoRow \in Rows
      BY Constants DEF Statuses
    <3>3. QED
      BY <1>1, <3>1, <3>2, AnswerTypes DEF TypeOK, Receive, data, cache
  <2>2. CASE pc' = [pc EXCEPT ![t] = "dispatch"] /\ UNCHANGED <<resp, local>>
    BY <1>1, <2>2 DEF TypeOK, Receive, data, cache
  <2>3. QED
    BY <1>1, <2>1, <2>2 DEF Receive
<1>2. ASSUME NEW t \in Threads, Unrouted(t) PROVE TypeOK'
  <2>1. PICK s \in {404, 400} : Answer(t, s, NoRow)
    BY <1>2 DEF Unrouted, CustomError
  <2>2. s \in Statuses /\ NoRow \in Rows
    BY Constants DEF Statuses
  <2>3. QED
    BY <1>2, <2>1, <2>2, AnswerTypes DEF TypeOK, Unrouted, data, cache
<1>3. ASSUME NEW t \in Threads, Dispatch(t) PROVE TypeOK'
  <2>1. UNCHANGED <<req, data, floor>>
    BY <1>3 DEF Dispatch
  <2>2. passed' \in [Threads -> SUBSET Credentials]
    <3>1. CASE UNCHANGED passed
      BY <3>1 DEF TypeOK
    <3>2. CASE \E k \in KeyVerdicts(req[t].key), j \in TokenVerdicts(req[t].authorization) :
                 passed' = [passed EXCEPT ![t] = (IF k = "ok" THEN {req[t].key} ELSE {})
                                                 \cup (IF j = "ok" THEN {req[t].authorization} ELSE {})]
      BY <3>2 DEF TypeOK, KeyVerdicts, TokenVerdicts, Credentials
    <3>3. QED
      BY <1>3, <3>1, <3>2 DEF Dispatch
  <2>3. CASE \E s \in {401, 403, 413, 503} : Answer(t, s, NoRow) /\ UNCHANGED <<client, route>>
    <3>1. PICK s \in {401, 403, 413, 503} : Answer(t, s, NoRow) /\ UNCHANGED <<client, route>>
      BY <2>3
    <3>2. s \in Statuses /\ NoRow \in Rows
      BY Constants DEF Statuses
    <3>3. QED
      BY <2>1, <2>2, <3>1, <3>2, AnswerTypes DEF TypeOK, data, cache
  <2>4. CASE \E h \in Routes(req[t]) \ DOMAIN CustomError, c \in Clients \cup {Nobody} :
               Handler(t, h, c) /\ UNCHANGED <<resp, local>>
    <3>1. PICK h \in Routes(req[t]) \ DOMAIN CustomError, c \in Clients \cup {Nobody} :
               Handler(t, h, c) /\ UNCHANGED <<resp, local>>
      BY <2>4
    <3>2. h \in {"health", "ready", "not_found", "create", "list", "get", "update", "remove"}
      BY <3>1 DEF Routes, WrongMethod, CustomError
    <3>3. QED
      BY <1>3, <2>1, <2>2, <3>1, <3>2 DEF TypeOK, Handler, data, cache, Dispatch, Working
  <2>5. QED
    <3>1. ASSUME NEW k \in KeyVerdicts(req[t].key), NEW j \in TokenVerdicts(req[t].authorization)
          PROVE  /\ Authenticate(req[t], k, j).status # 200 =>
                      Authenticate(req[t], k, j).status \in {401, 403, 503}
                 /\ Authenticate(req[t], k, j).status = 200 =>
                      Authenticate(req[t], k, j).client \in Clients
      <4>1. Naming(req[t]) \in Sent(req[t]) \/ Sent(req[t]) = {}
        BY DEF Naming, Sent
      <4>2. QED
        BY <4>1 DEF Authenticate, Refused, Granted
    <3>2. QED
      BY <1>3, <2>3, <2>4, <3>1 DEF Dispatch
<1>4. ASSUME NEW t \in Threads, Handle(t) PROVE TypeOK'
  <2>1. pc[t] \in Working /\ UNCHANGED request /\ Moves(t) /\ RowCases(t) /\ CacheCases(t)
    BY <1>4, HandleCases
  <2>2. row' \in Rows
    BY <2>1 DEF RowCases, TypeOK
  <2>3. local[t].row \in Rows /\ NoRow \in Rows
    BY Constants DEF TypeOK, Locals
  <2>4. entries' \in [CacheKeys -> Rows]
    BY <2>1, <2>3 DEF CacheCases, TypeOK, cache
  <2>5. version' \in [CacheKeys -> Nat]
    <3>1. CASE UNCHANGED version
      BY <3>1 DEF TypeOK
    <3>2. CASE pc[t] = "evict" /\ version' = [version EXCEPT ![<<client[t], req[t].id>>] = @ + 1]
      BY <3>2 DEF TypeOK, HandsAreClean, Working, CacheKeys
    <3>3. QED
      BY <2>1, <3>1, <3>2 DEF CacheCases, cache
  <2>6. evicted' \in 0..MaxWrites
    BY <2>1 DEF CacheCases, TypeOK, cache
  <2>7. /\ pc' \in [Threads -> {"idle", "dispatch", "answered"} \cup Working]
        /\ resp' \in [Threads -> Responses] /\ local' \in [Threads -> Locals]
        /\ \A u \in Threads : (resp'[u] = NoResponse) <=> (pc'[u] # "answered")
    <3>1. pc[t] # "answered"
      BY <2>1 DEF Working
    <3>2. CASE \E s \in Statuses, b \in Rows : Answer(t, s, b)
      BY <3>2, AnswerTypes
    <3>3. CASE \E p \in Working, l \in Locals : GoOn(t, p, l)
      BY <3>1, <3>3, GoOnTypes
    <3>4. QED
      BY <2>1, <3>2, <3>3 DEF Moves, Continues
  <2>8. QED
    BY <2>1, <2>2, <2>4, <2>5, <2>6, <2>7 DEF TypeOK, request
<1>5. ASSUME NEW t \in Threads, Send(t) PROVE TypeOK'
  BY <1>5, Constants, WritesAssumption DEF TypeOK, Send, data, cache
<1>6. CASE RedisLoses
  BY <1>6, Constants DEF TypeOK, RedisLoses, request
<1>7. CASE UNCHANGED vars
  BY <1>7 DEF TypeOK, vars
<1>8. QED
  BY <1>1, <1>2, <1>3, <1>4, <1>5, <1>6, <1>7 DEF Next, Serve

-----------------------------------------------------------------------------
(* Who may do what *)

\* authenticate() grants a request only when both credentials, as far as sent,
\* were checked, name the client it returns and grant the scope.
LEMMA GrantIsEntitlement ==
  ASSUME NEW r, NEW k \in KeyVerdicts(r.key), NEW j \in TokenVerdicts(r.authorization),
         Authenticate(r, k, j).status = 200
  PROVE  /\ Sent(r) # {}
         /\ Sent(r) \subseteq (IF k = "ok" THEN {r.key} ELSE {})
                              \cup (IF j = "ok" THEN {r.authorization} ELSE {})
         /\ \A c \in Sent(r) : /\ ClientOf[c] = Authenticate(r, k, j).client
                               /\ RequiredScope(r.method) \in ScopesOf[c]
<1>1. /\ Sent(r) # {}
      /\ ~(r.key # "none" /\ k = "unavailable") /\ ~(r.key # "none" /\ k = "invalid")
      /\ ~(r.authorization # "none" /\ j = "invalid")
      /\ \A c \in Sent(r) : ClientOf[c] \in Clients \cap {ClientOf[Naming(r)]}
      /\ \A c \in Sent(r) : RequiredScope(r.method) \in ScopesOf[c]
      /\ Authenticate(r, k, j) = Granted(Naming(r))
  BY DEF Authenticate, Refused
<1>2. k \in {"ok", "invalid", "unavailable"} /\ j \in {"ok", "invalid"}
  BY DEF KeyVerdicts, TokenVerdicts
<1>3. Sent(r) \subseteq (IF k = "ok" THEN {r.key} ELSE {})
                        \cup (IF j = "ok" THEN {r.authorization} ELSE {})
  BY <1>1, <1>2 DEF Sent
<1>4. QED
  BY <1>1, <1>3 DEF Granted

\* Entitlements are given by the auth advice and kept until the response is sent.
LEMMA EntitlementStep ==
  ASSUME Inv, [Next]_vars, TypeOK'
  PROVE  HandlersAreEntitled'
<1> SUFFICES ASSUME NEW u \in Threads, pc'[u] \in Working
             PROVE  /\ client'[u] # Nobody => Entitled(u, client[u], RequiredScope(req[u].method))'
                    /\ route'[u] \in {"create", "update", "remove"} =>
                         RequiredScope(req[u].method)' = "write"
                    /\ route'[u] \in {"create", "update"} => req'[u].body = "small"
  BY DEF HandlersAreEntitled
<1>1. CASE pc[u] \in Working /\ req'[u] = req[u] /\ client'[u] = client[u] /\ route'[u] = route[u]
           /\ passed'[u] = passed[u]
  BY <1>1 DEF Inv, HandlersAreEntitled, Entitled
<1>2. CASE Dispatch(u)
  <2>1. PICK h \in Routes(req[u]) \ DOMAIN CustomError :
          \/ ~Guarded(req[u]) /\ Handler(u, h, Nobody)
          \/ \E k \in KeyVerdicts(req[u].key), j \in TokenVerdicts(req[u].authorization) :
               /\ passed' = [passed EXCEPT ![u] = (IF k = "ok" THEN {req[u].key} ELSE {})
                                             \cup (IF j = "ok" THEN {req[u].authorization} ELSE {})]
               /\ Authenticate(req[u], k, j).status = 200
               /\ Handler(u, h, Authenticate(req[u], k, j).client)
    BY <1>2 DEF Dispatch, Answer, Inv, TypeOK, Working
  <2>2. req' = req
    BY <1>2 DEF Dispatch
  <2>3. route'[u] = h
    BY <2>1 DEF Handler, Inv, TypeOK
  <2>4. h \in {"create", "update", "remove"} => RequiredScope(req[u].method) = "write"
    BY <2>1, <2>2 DEF Routes, WrongMethod, RequiredScope
  <2>5. ASSUME client'[u] # Nobody
        PROVE  Entitled(u, client[u], RequiredScope(req[u].method))'
    <3>1. PICK k \in KeyVerdicts(req[u].key), j \in TokenVerdicts(req[u].authorization) :
               /\ passed' = [passed EXCEPT ![u] = (IF k = "ok" THEN {req[u].key} ELSE {})
                                             \cup (IF j = "ok" THEN {req[u].authorization} ELSE {})]
               /\ Authenticate(req[u], k, j).status = 200
               /\ Handler(u, h, Authenticate(req[u], k, j).client)
      BY <2>1, <2>5 DEF Handler, Inv, TypeOK
    <3>2. /\ passed'[u] = (IF k = "ok" THEN {req[u].key} ELSE {})
                             \cup (IF j = "ok" THEN {req[u].authorization} ELSE {})
          /\ client'[u] = Authenticate(req[u], k, j).client
      BY <3>1 DEF Handler, Inv, TypeOK
    <3>3. /\ Sent(req[u]) # {} /\ Sent(req[u]) \subseteq passed'[u]
          /\ \A c \in Sent(req[u]) : /\ ClientOf[c] = client'[u]
                                     /\ RequiredScope(req[u].method) \in ScopesOf[c]
      BY <3>1, <3>2, GrantIsEntitlement
    <3>4. QED
      BY <2>2, <3>3 DEF Entitled
  <2>6. ASSUME h \in {"create", "update"} PROVE req[u].body = "small"
    <3>1. req[u].method \in {"POST", "PATCH"}
      BY <2>1, <2>6 DEF Routes, WrongMethod
    <3>2. ~BodyTooLarge(req[u])
      BY <1>2 DEF Dispatch, Answer, Inv, TypeOK, Working
    <3>3. req[u] \in Requests
      BY <3>1 DEF Inv, TypeOK, NoRequest
    <3>4. req[u].body \in {"small", "large"}
      BY <3>3, RequestsAssumption DEF RequestSet
    <3>5. QED
      BY <3>1, <3>2, <3>4 DEF BodyTooLarge, IsBodyMethod
  <2>7. QED
    BY <2>2, <2>3, <2>4, <2>5, <2>6
<1>3. QED
  <2> DEFINE Same == /\ pc[u] \in Working /\ req'[u] = req[u] /\ client'[u] = client[u]
                     /\ route'[u] = route[u] /\ passed'[u] = passed[u]
  <2> USE DEF Inv, TypeOK, Working
  <2>1. ASSUME NEW t \in Threads, NEW r \in Requests, Receive(t, r) PROVE Same
    BY <2>1 DEF Receive, Answer
  <2>2. ASSUME NEW t \in Threads, Unrouted(t) \/ Send(t) \/ (Dispatch(t) /\ t # u) PROVE Same
    BY <2>2 DEF Unrouted, Send, Dispatch, Handler, Answer
  <2>3. ASSUME NEW t \in Threads, Handle(t) PROVE Same
    <3>1. pc[t] \in Working /\ UNCHANGED request /\ Moves(t)
      BY <2>3, HandleCases
    <3>2. t = u \/ pc'[u] = pc[u]
      BY <3>1 DEF Moves, Continues, Answer, GoOn
    <3>3. QED
      BY <3>1, <3>2 DEF request
  <2>4. CASE RedisLoses \/ UNCHANGED vars
    BY <1>1, <2>4 DEF RedisLoses, vars, request
  <2>5. QED
    BY <1>1, <1>2, <2>1, <2>2, <2>3, <2>4 DEF Next, Serve

\* Every call of a handler leaves it with what its next one may use.
LEMMA HandsStep ==
  ASSUME Inv, [Next]_vars, TypeOK'
  PROVE  HandsAreClean'
<1> SUFFICES ASSUME NEW u \in Threads, pc'[u] \in Working \ {"handle"}
             PROVE  /\ client'[u] \in Clients /\ req'[u].id \in Spellings
                    /\ pc'[u] \in {"version", "read", "fill"} => route'[u] = "get"
                    /\ pc'[u] = "evict" => route'[u] \in {"update", "remove"}
                    /\ pc'[u] = "fill" \/ (pc'[u] = "evict" /\ route'[u] = "update") =>
                         local'[u].row.owner = client'[u]
  BY DEF HandsAreClean, Working
<1> USE DEF Inv, TypeOK
<1>1. CASE UNCHANGED <<pc[u], req[u], client[u], route[u], local[u]>>
  BY <1>1 DEF HandsAreClean, Working
<1>2. CASE Handle(u)
  <2>1. UNCHANGED request /\ Moves(u)
    BY <1>2, HandleCases
  <2>2. PICK p \in Working, l \in Locals : Continues(u, p, l)
    BY <2>1 DEF Moves, Answer, Working
  <2>3. pc'[u] = p /\ local'[u] = l
    BY <2>2 DEF Continues, GoOn
  <2>4. QED
    BY <2>1, <2>2, <2>3 DEF Continues, HandsAreClean, Working, request
<1>3. ASSUME NEW t \in Threads, NEW r \in Requests, Receive(t, r)
      PROVE  UNCHANGED <<pc[u], req[u], client[u], route[u], local[u]>>
  BY <1>3 DEF Receive, Answer, Working
<1>4. ASSUME NEW t \in Threads, Unrouted(t) \/ Dispatch(t) \/ Send(t)
      PROVE  UNCHANGED <<pc[u], req[u], client[u], route[u], local[u]>>
  BY <1>4 DEF Unrouted, Dispatch, Send, Handler, Answer, Working
<1>5. ASSUME NEW t \in Threads \ {u}, Handle(t)
      PROVE  UNCHANGED <<pc[u], req[u], client[u], route[u], local[u]>>
  <2>1. UNCHANGED request /\ Moves(t)
    BY <1>5, HandleCases
  <2>2. QED
    BY <2>1 DEF Moves, Continues, Answer, GoOn, request
<1>6. CASE RedisLoses \/ UNCHANGED vars
  BY <1>1, <1>6 DEF RedisLoses, vars, request
<1>7. QED
  BY <1>1, <1>2, <1>3, <1>4, <1>5, <1>6 DEF Next, Serve

-----------------------------------------------------------------------------
(* What is in the cache *)

\* Filling, writing, evicting and losing keep the cache to the row's owner.
LEMMA CacheStep ==
  ASSUME Inv, [Next]_vars, TypeOK'
  PROVE  EntriesAreOwned'
<1>1. /\ row \in Rows /\ entries \in [CacheKeys -> Rows]
      /\ \A c \in Clients, i \in Spellings : <<c, i>> \in CacheKeys
  BY DEF Inv, TypeOK, CacheKeys
<1>2. CASE UNCHANGED <<row, entries>>
  BY <1>2 DEF Inv, EntriesAreOwned
<1>3. ASSUME row.ver = 0 => row.owner = Nobody, UNCHANGED row,
             NEW k \in CacheKeys, NEW b \in Rows, entries' = [entries EXCEPT ![k] = b],
             b # NoRow => b.owner = k[1]
      PROVE  EntriesAreOwned'
  <2>1. \A c \in Clients, i \in Spellings :
          \/ entries'[<<c, i>>] = entries[<<c, i>>]
          \/ c = k[1] /\ entries'[<<c, i>>] = b
    <3> SUFFICES ASSUME NEW c \in Clients, NEW i \in Spellings
                 PROVE  \/ entries'[<<c, i>>] = entries[<<c, i>>]
                        \/ c = k[1] /\ entries'[<<c, i>>] = b
      OBVIOUS
    <3>1. k = <<c, i>> => k[1] = c
      OBVIOUS
    <3>2. QED
      BY <1>1, <1>3, <3>1
  <2>2. QED
    BY <1>3, <2>1 DEF Inv, EntriesAreOwned
<1>4. CASE RedisLoses
  <2>1. PICK k \in CacheKeys : UNCHANGED entries \/ entries' = [entries EXCEPT ![k] = NoRow]
    BY <1>4 DEF RedisLoses
  <2>2. row' = row
    BY <1>4 DEF RedisLoses
  <2>3. QED
    BY <1>2, <1>3, <2>1, <2>2, Constants DEF Inv, EntriesAreOwned
<1>5. ASSUME NEW t \in Threads, Handle(t)
      PROVE  EntriesAreOwned'
  <2>1. RowCases(t) /\ CacheCases(t)
    BY <1>5, HandleCases DEF Inv
  <2>2. row.ver = 0 => row.owner = Nobody
    BY DEF Inv, EntriesAreOwned
  <2>3. CASE entries' = entries
    <3>1. row'.ver = 0 => row'.owner = Nobody
      BY <2>1, <2>2 DEF RowCases, Rows
    <3>2. QED
      BY <2>3, <3>1 DEF Inv, EntriesAreOwned
  <2>4. CASE pc[t] \in {"fill", "evict"} /\ entries' # entries
    <3>1. <<client[t], req[t].id>> \in CacheKeys /\ row' = row
      BY <2>1, <2>4 DEF Inv, HandsAreClean, CacheKeys, Working, RowCases
    <3>2. PICK b \in Rows : /\ entries' = [entries EXCEPT ![<<client[t], req[t].id>>] = b]
                            /\ b # NoRow => b.owner = client[t]
      BY <2>1, <2>4, Constants DEF CacheCases, Inv, HandsAreClean, TypeOK, Locals, cache
    <3>3. <<client[t], req[t].id>>[1] = client[t]
      OBVIOUS
    <3>4. QED
      BY <1>3, <2>2, <3>1, <3>2, <3>3
  <2>5. QED
    BY <2>1, <2>3, <2>4 DEF CacheCases, cache
<1>6. QED
  BY <1>2, <1>4, <1>5 DEF Next, Serve, Receive, Unrouted, Dispatch, Send, vars, data, cache

-----------------------------------------------------------------------------
(* What is answered *)

\* Only a handler puts a row into a response, and what belongs to a response does
\* not change before it is sent.
LEMMA ResponseCases ==
  ASSUME Inv, [Next]_vars, TypeOK', NEW u \in Threads
  PROVE  \/ resp'[u].row = NoRow
         \/ resp'[u] = resp[u] /\ req'[u] = req[u] /\ passed'[u] = passed[u]
         \/ Handle(u)
<1> DEFINE Kept == resp'[u] = resp[u] /\ req'[u] = req[u] /\ passed'[u] = passed[u]
<1>1. pc[u] # "answered" => resp[u].row = NoRow
  BY Constants DEF Inv, TypeOK
<1>2. ASSUME NEW t \in Threads, NEW r \in Requests, Receive(t, r) PROVE resp'[u].row = NoRow \/ Kept
  <2>1. CASE t # u
    BY <1>2, <2>1 DEF Receive, Answer, Inv, TypeOK
  <2>2. CASE t = u
    BY <1>1, <1>2, <2>2 DEF Receive, Answer, Inv, TypeOK
  <2>3. QED
    BY <2>1, <2>2
<1>3. ASSUME NEW t \in Threads, Unrouted(t) PROVE resp'[u].row = NoRow \/ Kept
  BY <1>3 DEF Unrouted, Answer, Inv, TypeOK
<1>4. ASSUME NEW t \in Threads, Dispatch(t) PROVE resp'[u].row = NoRow \/ Kept
  <2>1. CASE t # u
    BY <1>4, <2>1 DEF Dispatch, Handler, Answer, Inv, TypeOK
  <2>2. CASE t = u
    BY <1>1, <1>4, <2>2 DEF Dispatch, Answer, Inv, TypeOK
  <2>3. QED
    BY <2>1, <2>2
<1>5. ASSUME NEW t \in Threads, Handle(t), t # u PROVE Kept
  <2>1. UNCHANGED request /\ Moves(t)
    BY <1>5, HandleCases DEF Inv
  <2>2. resp'[u] = resp[u]
    BY <1>5, <2>1 DEF Moves, Continues, Answer, GoOn, Inv, TypeOK
  <2>3. QED
    BY <2>1, <2>2 DEF request
<1>6. ASSUME NEW t \in Threads, Send(t) PROVE resp'[u].row = NoRow \/ Kept
  BY <1>6, Constants DEF Send, Inv, TypeOK
<1>7. CASE RedisLoses \/ UNCHANGED vars
  BY <1>7 DEF RedisLoses, vars, request
<1>8. QED
  BY <1>2, <1>3, <1>4, <1>5, <1>6, <1>7 DEF Next, Serve

\* A handler answers with a row only to an entitled client.
LEMMA HandlerAnswers ==
  ASSUME Inv, NEW t \in Threads, Handle(t), resp'[t].row # NoRow
  PROVE  Entitled(t, resp'[t].row.owner, RequiredScope(req[t].method))
<1>1. pc[t] \in Working /\ Moves(t)
  BY HandleCases DEF Inv
<1>2. client[t] \in Clients => Entitled(t, client[t], RequiredScope(req[t].method))
  BY <1>1, Constants DEF Inv, HandlersAreEntitled
<1>3. PICK s \in Statuses, b \in Rows : Answer(t, s, b) /\ Source(t, b)
  <2>1. resp[t].row = NoRow
    BY <1>1, Constants DEF Inv, TypeOK, Working
  <2>2. QED
    BY <1>1, <2>1 DEF Moves, Continues, GoOn
<1>4. resp'[t].row = b
  BY <1>3, AnswerTypes DEF Inv
<1>5. client[t] \in Clients /\ b.owner = client[t]
  <2>1. b # NoRow
    BY <1>4
  <2>2. CASE pc[t] = "handle"
    BY <1>3, <2>1, <2>2 DEF Source, Inv, EntriesAreOwned
  <2>3. CASE pc[t] # "handle"
    BY <1>1, <1>3, <2>1, <2>3 DEF Source, Inv, HandsAreClean
  <2>4. QED
    BY <2>2, <2>3
<1>6. QED
  BY <1>2, <1>4, <1>5

\* Every step keeps rows to their owners.
LEMMA ResponseStep ==
  ASSUME Inv, [Next]_vars, TypeOK'
  PROVE  RowsGoToTheirOwners'
<1> SUFFICES ASSUME NEW u \in Threads, resp'[u].row # NoRow
             PROVE  Entitled(u, resp[u].row.owner, RequiredScope(req[u].method))'
  BY DEF RowsGoToTheirOwners
<1>1. CASE Handle(u)
  <2>1. UNCHANGED request
    BY <1>1, HandleCases DEF Inv
  <2>2. QED
    BY <1>1, <2>1, HandlerAnswers DEF Entitled, request
<1>2. CASE resp'[u] = resp[u] /\ req'[u] = req[u] /\ passed'[u] = passed[u]
  BY <1>2 DEF Inv, RowsGoToTheirOwners, Entitled
<1>3. QED
  BY <1>1, <1>2, ResponseCases

-----------------------------------------------------------------------------
(* The invariant *)

\* An empty table and idle threads satisfy the invariant.
LEMMA InvInit == Init => Inv
<1> SUFFICES ASSUME Init PROVE Inv
  OBVIOUS
<1>1. TypeOK
  BY Constants, WritesAssumption DEF Init, TypeOK
<1>2. \A c \in Clients, i \in Spellings : entries[<<c, i>>] = NoRow
  BY DEF Init, CacheKeys
<1>3. EntriesAreOwned
  BY <1>2, Constants DEF Init, EntriesAreOwned
<1>4. HandlersAreEntitled /\ HandsAreClean /\ RowsGoToTheirOwners
  BY Constants DEF Init, HandlersAreEntitled, HandsAreClean, RowsGoToTheirOwners, Working
<1>5. QED
  BY <1>1, <1>3, <1>4 DEF Inv

\* Every step preserves the invariant.
LEMMA InvStep == Inv /\ [Next]_vars => Inv'
<1> SUFFICES ASSUME Inv, [Next]_vars PROVE Inv'
  OBVIOUS
<1>1. TypeOK'
  BY TypeStep DEF Inv
<1>2. HandlersAreEntitled' /\ HandsAreClean'
  BY <1>1, EntitlementStep, HandsStep
<1>3. EntriesAreOwned'
  BY <1>1, CacheStep
<1>4. RowsGoToTheirOwners'
  BY <1>1, ResponseStep
<1>5. QED
  BY <1>1, <1>2, <1>3, <1>4 DEF Inv

-----------------------------------------------------------------------------
(* Theorems *)

\* The invariant holds in every reachable state of the server.
THEOREM GatewayInvariant == Spec => []Inv
  BY InvInit, InvStep, PTL DEF Spec

\* Type correctness of Gateway; in particular every status is one of the API's.
THEOREM TypeCorrect == Spec => []TypeOK
<1>1. Inv => TypeOK
  BY DEF Inv
<1>2. QED
  BY <1>1, GatewayInvariant, PTL

\* A row is answered, from the table or the cache, only to its owner, and only for
\* credentials that all name the owner and grant the scope of the method.
THEOREM OwnersAlone == Spec => []RowsGoToTheirOwners
<1>1. Inv => RowsGoToTheirOwners
  BY DEF Inv
<1>2. QED
  BY <1>1, GatewayInvariant, PTL

\* No handler that parses a body is given one above the limit, whatever its
\* Content-Length said.
THEOREM BodiesStayBounded == Spec => []BodiesAreBounded
<1>1. Inv => BodiesAreBounded
  BY DEF Inv, HandlersAreEntitled, BodiesAreBounded, Working
<1>2. QED
  BY <1>1, GatewayInvariant, PTL

\* A row is created, updated or removed only by a handler whose request has
\* credentials that all name the owner and grant "write".
THEOREM WritesAreEntitled == Spec => RowsChangeForTheirOwners
<1> DEFINE Allowed == \E t \in Threads :
             /\ pc[t] = "handle"
             /\ Entitled(t, IF row.owner = Nobody THEN row'.owner ELSE row.owner, "write")
<1>1. ASSUME Inv, [Next]_vars, row' # row PROVE Allowed
  <2>1. PICK t \in Threads : Handle(t)
    BY <1>1 DEF Next, Serve, Receive, Unrouted, Dispatch, Send, RedisLoses, vars, data
  <2>2. /\ pc[t] = "handle" /\ client[t] \in Clients
        /\ route[t] \in {"create", "update", "remove"}
        /\ client[t] = IF row.owner = Nobody THEN row'.owner ELSE row.owner
    <3>1. /\ pc[t] = "handle" /\ client[t] \in Clients
          /\ \/ route[t] = "create" /\ row.ver = 0 /\ row' = [owner |-> client[t], ver |-> 1]
             \/ route[t] \in {"update", "remove"} /\ row.owner = client[t]
      BY <1>1, <2>1, HandleCases DEF Inv, RowCases
    <3>2. row.ver = 0 => row.owner = Nobody
      BY <1>1 DEF Inv, EntriesAreOwned
    <3>3. QED
      BY <3>1, <3>2, Constants
  <2>3. Entitled(t, client[t], "write")
    BY <1>1, <2>2, Constants DEF Inv, HandlersAreEntitled, Working
  <2>4. QED
    BY <2>2, <2>3
<1>2. Inv /\ [Next]_vars => [row' # row => Allowed]_vars
  BY <1>1
<1>3. QED
  BY <1>2, GatewayInvariant, PTL DEF Spec, RowsChangeForTheirOwners

-----------------------------------------------------------------------------
(* The probes *)

IsProbe(r) == r.method = "GET" /\ r.path \in {"/health", "/ready"}

ProbeStatuses(r) == IF r.path = "/health" THEN {200} ELSE {200, 503}

\* The only handlers that have a probe in hand are the two that answer it.
ProbesAreRouted ==
  \A t \in Threads : pc[t] \in Working /\ IsProbe(req[t]) =>
    route[t] = IF req[t].path = "/health" THEN "health" ELSE "ready"

\* Neither look of the size limit, nor the rate limit, nor authentication, nor
\* the framework's error handler stops a probe.
LEMMA ProbePasses ==
  ASSUME NEW r, IsProbe(r)
  PROVE  /\ ~HeaderTooLarge(r) /\ Exempt(r) /\ ~BodyTooLarge(r) /\ ~Guarded(r)
         /\ Routes(r) = {IF r.path = "/health" THEN "health" ELSE "ready"}
         /\ Routes(r) \cap DOMAIN CustomError = {}
<1>1. ~HeaderTooLarge(r) /\ Exempt(r) /\ ~BodyTooLarge(r) /\ ~Guarded(r)
  BY DEF IsProbe, HeaderTooLarge, Exempt, BodyTooLarge, Guarded, IsBodyMethod
<1>2. Routes(r) = {IF r.path = "/health" THEN "health" ELSE "ready"}
  BY DEF IsProbe, Routes
<1>3. DOMAIN CustomError = {"error404", "error405"}
  BY DEF CustomError
<1>4. QED
  BY <1>1, <1>2, <1>3

\* Each handler that a probe can be given to answers what a probe may be told.
LEMMA ProbeAnswered ==
  ASSUME Inv, ProbesAreRouted, NEW t \in Threads, Handle(t), IsProbe(req[t])
  PROVE  pc'[t] = "answered" /\ resp'[t].status \in ProbeStatuses(req[t])
<1>1. pc[t] \in Working
  BY HandleCases DEF Inv
<1>2. route[t] = IF req[t].path = "/health" THEN "health" ELSE "ready"
  BY <1>1 DEF ProbesAreRouted
<1>3. (req[t].path = "/health" /\ Health(t)) \/ (req[t].path = "/ready" /\ ReadyCheck(t))
  <2>1. route[t] \in {"health", "ready"} /\ pc[t] \notin {"version", "read", "fill", "evict"}
    BY <1>2 DEF Inv, HandsAreClean, IsProbe
  <2>2. QED
    BY <1>2, <2>1 DEF Handle, Health, ReadyCheck, NotFound, TurnAway, Create, List, Get, ReadVersion,
       FindRow, PutIfVersion, Update, Remove, Evict, Serves, Handling, IsProbe
<1>4. PICK s \in ProbeStatuses(req[t]) : Answer(t, s, NoRow)
  BY <1>3 DEF Health, ReadyCheck, Fail, ProbeStatuses
<1>5. QED
  BY <1>4 DEF Answer, Inv, TypeOK

\* Every step keeps probes on their way and their answers as they are.
LEMMA ProbeStep ==
  ASSUME Inv, Inv', ProbesAreRouted, ProbesAreServed, [Next]_vars
  PROVE  ProbesAreRouted' /\ ProbesAreServed'
<1> USE DEF Inv, TypeOK
<1> SUFFICES ASSUME NEW u \in Threads, IsProbe(req'[u])
             PROVE  /\ pc'[u] \in Working =>
                         route'[u] = IF req'[u].path = "/health" THEN "health" ELSE "ready"
                    /\ pc'[u] = "answered" => resp'[u].status \in ProbeStatuses(req'[u])
  BY DEF ProbesAreRouted, ProbesAreServed, IsProbe, ProbeStatuses
<1>1. CASE UNCHANGED <<pc[u], req[u], route[u], resp[u]>>
  BY <1>1 DEF ProbesAreRouted, ProbesAreServed, IsProbe, ProbeStatuses
<1>2. ASSUME NEW r \in Requests, Receive(u, r) PROVE pc'[u] = "dispatch"
  <2>1. IsProbe(r)
    BY <1>2 DEF Receive
  <2>2. QED
    BY <1>2, <2>1, ProbePasses DEF Receive
<1>3. ASSUME Unrouted(u) PROVE FALSE
  <2>1. IsProbe(req[u])
    BY <1>3 DEF Unrouted
  <2>2. QED
    BY <1>3, <2>1, ProbePasses DEF Unrouted
<1>4. ASSUME Dispatch(u)
      PROVE  /\ pc'[u] = "handle" /\ req'[u] = req[u]
             /\ route'[u] = IF req[u].path = "/health" THEN "health" ELSE "ready"
  <2>1. IsProbe(req[u]) /\ req' = req
    BY <1>4 DEF Dispatch
  <2>2. PICK h \in Routes(req[u]) : Handler(u, h, Nobody)
    BY <1>4, <2>1, ProbePasses DEF Dispatch
  <2>3. h = IF req[u].path = "/health" THEN "health" ELSE "ready"
    BY <2>1, <2>2, ProbePasses
  <2>4. QED
    BY <2>1, <2>2, <2>3 DEF Handler
<1>5. ASSUME Handle(u)
      PROVE  pc'[u] = "answered" /\ resp'[u].status \in ProbeStatuses(req'[u])
  <2>1. req' = req
    BY <1>5, HandleCases DEF request
  <2>2. QED
    BY <1>5, <2>1, ProbeAnswered
<1>6. ASSUME Send(u) PROVE pc'[u] = "idle"
  BY <1>6 DEF Send
<1>7. ASSUME NEW t \in Threads \ {u}, Serve(t) \/ \E r \in Requests : Receive(t, r)
      PROVE  UNCHANGED <<pc[u], req[u], route[u], resp[u]>>
  <2>1. CASE Handle(t)
    <3>1. UNCHANGED request /\ Moves(t)
      BY <2>1, HandleCases
    <3>2. QED
      BY <3>1 DEF Moves, Continues, Answer, GoOn, request
  <2>2. CASE Unrouted(t)
    BY <2>2 DEF Unrouted, Answer
  <2>3. CASE Dispatch(t)
    BY <2>3 DEF Dispatch, Answer, Handler
  <2>4. CASE Send(t)
    BY <2>4 DEF Send
  <2>5. CASE \E r \in Requests : Receive(t, r)
    BY <2>5 DEF Receive, Answer
  <2>6. QED
    BY <1>7, <2>1, <2>2, <2>3, <2>4, <2>5 DEF Serve
<1>8. CASE RedisLoses \/ UNCHANGED vars
  BY <1>1, <1>8 DEF RedisLoses, vars, request
<1>a. "dispatch" \notin Working /\ "answered" \notin Working /\ "idle" \notin Working
      /\ "handle" \in Working /\ "dispatch" # "answered" /\ "handle" # "answered" /\ "idle" # "answered"
  BY DEF Working
<1>9. CASE Serve(u) \/ \E r \in Requests : Receive(u, r)
  BY <1>a, <1>2, <1>3, <1>4, <1>5, <1>6, <1>9, Zenon DEF Serve
<1>10. CASE \E t \in Threads \ {u} : Serve(t) \/ \E r \in Requests : Receive(t, r)
  BY <1>1, <1>7, <1>10
<1>11. QED
  BY <1>8, <1>9, <1>10, Zenon DEF Next

\* The probes of an orchestrator are answered whatever the load, the credentials
\* and the headers: /health with 200, /ready with 200 or 503.
THEOREM ProbesServed == Spec => []ProbesAreServed
<1>1. Init => ProbesAreRouted /\ ProbesAreServed
  BY DEF Init, ProbesAreRouted, ProbesAreServed, Working
<1>2. Inv /\ Inv' /\ ProbesAreRouted /\ ProbesAreServed /\ [Next]_vars =>
        ProbesAreRouted' /\ ProbesAreServed'
  BY ProbeStep
<1>3. QED
  BY <1>1, <1>2, GatewayInvariant, PTL DEF Spec

-----------------------------------------------------------------------------
(* Requests can go on, and end *)

Busy(t) == pc[t] # "idle"

\* A thread in a handler has been given one.
HandlersAreGiven == \A t \in Threads : pc[t] \in Working => route[t] # "none"

Errors(t) == Routes(req[t]) \cap DOMAIN CustomError

\* The state after thread t answers with status s and row b, p being what it has
\* checked.
Answers(t, s, b, p) ==
  <<[pc EXCEPT ![t] = "answered"], req, client, route,
    [resp EXCEPT ![t] = [status |-> s, row |-> b]], row, entries, version,
    [local EXCEPT ![t] = Fresh], [passed EXCEPT ![t] = p], evicted, floor>>

\* The state after thread t gives its request to handler h without a client.
Hands(t, h) ==
  <<[pc EXCEPT ![t] = "handle"], req, [client EXCEPT ![t] = Nobody],
    [route EXCEPT ![t] = h], resp, row, entries, version, local, passed, evicted, floor>>

\* The state after a read of thread t found no version.
Proceeds(t) ==
  <<[pc EXCEPT ![t] = "read"], req, client, route, resp, row, entries, version,
    [local EXCEPT ![t].version = NoVersion], passed, evicted, floor>>

\* The state after thread t has sent its response.
Rests(t) ==
  <<[pc EXCEPT ![t] = "idle"], [req EXCEPT ![t] = NoRequest], [client EXCEPT ![t] = Nobody],
    [route EXCEPT ![t] = "none"], [resp EXCEPT ![t] = NoResponse], row, entries, version, local,
    [passed EXCEPT ![t] = {}], evicted, [floor EXCEPT ![t] = 0]>>

\* The state after a get() of thread t found no entry.
Misses(t) ==
  <<[pc EXCEPT ![t] = "version"], req, client, route, resp, row, entries, version,
    [local EXCEPT ![t] = Fresh], passed, evicted, floor>>

\* Thread t is in a get() of a UUID.
Reads(t) == route[t] = "get" /\ Turned(t) = {}

\* A status that the handler of thread t, if it is no get(), may always answer: no backend has to
\* answer and no row has to be there.
PlainStatus(t) == CASE route[t] \in {"health", "ready"} -> 200
                    [] route[t] = "not_found"           -> 404
                    [] OTHER -> IF 404 \in Turned(t) THEN 404 ELSE 500

\* A state that thread t can always go on to, written without primes: that it is
\* the result of Serve(t) says that Serve(t) is enabled.
Onward(t) ==
  CASE pc[t] = "dispatch" /\ Errors(t) # {} ->
         Answers(t, CustomError[CHOOSE e \in Errors(t) : TRUE], NoRow, passed[t])
    [] pc[t] = "dispatch" /\ Errors(t) = {} /\ BodyTooLarge(req[t]) -> Answers(t, 413, NoRow, passed[t])
    [] pc[t] = "dispatch" /\ Errors(t) = {} /\ ~BodyTooLarge(req[t]) /\ ~Guarded(req[t]) ->
         Hands(t, CHOOSE h \in Routes(req[t]) : TRUE)
    [] pc[t] = "dispatch" /\ Errors(t) = {} /\ ~BodyTooLarge(req[t]) /\ Guarded(req[t]) -> Answers(t, 401, NoRow, {})
    [] pc[t] = "handle" /\ Reads(t)  -> Misses(t)
    [] pc[t] = "handle" /\ ~Reads(t) -> Answers(t, PlainStatus(t), NoRow, passed[t])
    [] pc[t] = "version"  -> Proceeds(t)
    [] pc[t] = "read"     -> Answers(t, 500, NoRow, passed[t])
    [] pc[t] = "fill"     -> Answers(t, 200, local[t].row, passed[t])
    [] pc[t] = "evict"    -> Answers(t, 200, IF route[t] = "update" THEN local[t].row ELSE NoRow, passed[t])
    [] pc[t] = "answered" -> Rests(t)

\* Every path and method has a route or an error, and no route is "none".
LEMMA RoutesExist ==
  ASSUME NEW r
  PROVE  /\ Routes(r) # {}
         /\ Routes(r) \subseteq {"health", "ready", "not_found", "create", "list", "get",
                                 "update", "remove", "error404", "error405"}
         /\ DOMAIN CustomError = {"error404", "error405"}
<1>1. DOMAIN CustomError = {"error404", "error405"}
  BY DEF CustomError
<1>2. WrongMethod # {} /\ WrongMethod \subseteq {"not_found", "error405"}
  BY DEF WrongMethod
<1>3. CASE r.path \in {"/health", "/ready"}
  <2>1. Routes(r) = {"health"} \/ Routes(r) = {"ready"} \/ Routes(r) = WrongMethod
    BY <1>3 DEF Routes
  <2>2. QED
    BY <1>1, <1>2, <2>1
<1>4. CASE r.path = "/v1/resources"
  <2>1. Routes(r) = CASE r.method = "POST" -> {"create"}
                      [] r.method = "GET"  -> {"list"}
                      [] OTHER             -> WrongMethod
    BY <1>4 DEF Routes
  <2>2. Routes(r) = {"create"} \/ Routes(r) = {"list"} \/ Routes(r) = WrongMethod
    BY <2>1
  <2>3. QED
    BY <1>1, <1>2, <2>2
<1>5. CASE r.path = "/v1/resources/{id}"
  <2>1. Routes(r) = CASE r.method = "GET"    -> {"get"}
                      [] r.method = "PATCH"  -> {"update"}
                      [] r.method = "DELETE" -> {"remove"}
                      [] OTHER               -> WrongMethod
    BY <1>5 DEF Routes
  <2>2. \/ Routes(r) = {"get"} \/ Routes(r) = {"update"} \/ Routes(r) = {"remove"}
         \/ Routes(r) = WrongMethod
    BY <2>1
  <2>3. QED
    BY <1>1, <1>2, <2>2
<1>6. CASE r.path \notin {"/health", "/ready", "/v1/resources", "/v1/resources/{id}"}
  <2>1. Routes(r) = {"not_found"} \/ Routes(r) = {"error404"}
    BY <1>6 DEF Routes
  <2>2. QED
    BY <1>1, <2>1
<1>7. QED
  BY <1>3, <1>4, <1>5, <1>6

\* A credential that cannot be verified is always a possible verdict, and then the
\* request is refused.
LEMMA RefusalIsPossible ==
  ASSUME NEW r
  PROVE  /\ "invalid" \in KeyVerdicts(r.key) /\ "invalid" \in TokenVerdicts(r.authorization)
         /\ Authenticate(r, "invalid", "invalid") = Refused(401)
<1>1. "invalid" \in KeyVerdicts(r.key) /\ "invalid" \in TokenVerdicts(r.authorization)
  BY DEF KeyVerdicts, TokenVerdicts
<1>2. Sent(r) # {} => r.key # "none" \/ r.authorization # "none"
  BY DEF Sent
<1>3. Authenticate(r, "invalid", "invalid") = Refused(401)
  BY <1>2 DEF Authenticate
<1>4. QED
  BY <1>1, <1>3

\* At dispatch: no route, a large body, a handler without credentials, or a
\* refusal.
LEMMA DispatchGoesOn ==
  ASSUME TypeOK, NEW t \in Threads, pc[t] = "dispatch", vars' = Onward(t)
  PROVE  Unrouted(t) \/ Dispatch(t)
<1>1. [passed EXCEPT ![t] = passed[t]] = passed
  BY DEF TypeOK
<1>2. CASE Errors(t) # {}
  <2> DEFINE e == CHOOSE x \in Errors(t) : TRUE
  <2>1. e \in Errors(t)
    BY <1>2
  <2>2. vars' = Answers(t, CustomError[e], NoRow, passed[t])
    BY <1>2 DEF Onward
  <2>3. QED
    BY <1>1, <2>1, <2>2 DEF Unrouted, Answers, Answer, Errors, vars, data, cache
<1>3. ASSUME Errors(t) = {}
      PROVE  \E h \in Routes(req[t]) \ DOMAIN CustomError : h = CHOOSE x \in Routes(req[t]) : TRUE
  BY <1>3, RoutesExist DEF Errors
<1>4. CASE Errors(t) = {} /\ BodyTooLarge(req[t])
  <2>1. vars' = Answers(t, 413, NoRow, passed[t])
    BY <1>4 DEF Onward
  <2>2. QED
    BY <1>1, <1>3, <1>4, <2>1 DEF Dispatch, Answers, Answer, vars, data, cache
<1>5. CASE Errors(t) = {} /\ ~BodyTooLarge(req[t]) /\ ~Guarded(req[t])
  <2>1. vars' = Hands(t, CHOOSE h \in Routes(req[t]) : TRUE)
    BY <1>5 DEF Onward
  <2>2. QED
    BY <1>3, <1>5, <2>1 DEF Dispatch, Hands, Handler, vars, data, cache
<1>6. CASE Errors(t) = {} /\ ~BodyTooLarge(req[t]) /\ Guarded(req[t])
  <2>1. vars' = Answers(t, 401, NoRow, {})
    BY <1>6 DEF Onward
  <2>2. Authenticate(req[t], "invalid", "invalid") = Refused(401)
    BY RefusalIsPossible
  <2>3. /\ Answer(t, 401, NoRow) /\ UNCHANGED <<client, route, req, data, floor>>
        /\ passed' = [passed EXCEPT ![t] = {}]
    BY <2>1 DEF Answers, Answer, vars, data, cache
  <2>4. (IF "invalid" = "ok" THEN {req[t].key} ELSE {})
          \cup (IF "invalid" = "ok" THEN {req[t].authorization} ELSE {}) = {}
    OBVIOUS
  <2> DEFINE Decides(h, k, j) ==
               LET a == Authenticate(req[t], k, j)
               IN  /\ passed' = [passed EXCEPT ![t] = (IF k = "ok" THEN {req[t].key} ELSE {})
                                                 \cup (IF j = "ok" THEN {req[t].authorization} ELSE {})]
                   /\ IF a.status = 200
                        THEN Handler(t, h, a.client) /\ UNCHANGED <<resp, local>>
                        ELSE Answer(t, a.status, NoRow) /\ UNCHANGED <<client, route>>
  <2>5. ASSUME NEW h PROVE Decides(h, "invalid", "invalid")
    <3>1. Refused(401).status = 401
      BY DEF Refused
    <3>2. QED
      BY <2>2, <2>3, <2>4, <3>1
  <2>6. PICK h \in Routes(req[t]) \ DOMAIN CustomError : TRUE
    BY <1>3, <1>6
  <2>7. UNCHANGED <<req, data, floor>>
    BY <2>3
  <2>8. \E k \in KeyVerdicts(req[t].key), j \in TokenVerdicts(req[t].authorization) : Decides(h, k, j)
    <3> HIDE DEF Decides
    <3> QED
      BY <2>5, RefusalIsPossible
  <2> DEFINE Guards(x) == /\ ~BodyTooLarge(req[t]) /\ Guarded(req[t])
                          /\ \E k \in KeyVerdicts(req[t].key), j \in TokenVerdicts(req[t].authorization) :
                               Decides(x, k, j)
  <2>9. Guards(h)
    BY <1>6, <2>8
  <2> DEFINE Refuses(x) == /\ BodyTooLarge(req[t])
                           /\ Answer(t, 413, NoRow)
                           /\ UNCHANGED <<client, route, passed>>
             Passes(x)  == /\ ~BodyTooLarge(req[t]) /\ ~Guarded(req[t])
                           /\ Handler(t, x, Nobody)
                           /\ UNCHANGED <<resp, local, passed>>
             Alternatives ==
               /\ pc[t] = "dispatch"
               /\ \E x \in Routes(req[t]) \ DOMAIN CustomError : Refuses(x) \/ Passes(x) \/ Guards(x)
               /\ UNCHANGED <<req, data, floor>>
  <2>10. Dispatch(t) <=> Alternatives
    BY DEF Dispatch
  <2>11. Alternatives
    <3> HIDE DEF Guards, Refuses, Passes
    <3> QED
      BY <2>6, <2>7, <2>9
  <2>12. QED
    BY <2>10, <2>11
<1>7. QED
  BY <1>2, <1>4, <1>5, <1>6

\* In a handler: a get() may go on and every other answer, without touching the
\* table or the cache.
LEMMA HandlerGoesOn ==
  ASSUME TypeOK, HandlersAreGiven, NEW t \in Threads, pc[t] = "handle", ~Reads(t), vars' = Onward(t)
  PROVE  Handle(t) /\ pc'[t] = "answered"
<1>1. [passed EXCEPT ![t] = passed[t]] = passed
  BY DEF TypeOK
<1>2. vars' = Answers(t, PlainStatus(t), NoRow, passed[t])
  BY DEF Onward
<1>3. /\ Answer(t, PlainStatus(t), NoRow)
      /\ UNCHANGED request /\ UNCHANGED data
  BY <1>1, <1>2 DEF Answers, Answer, vars, data, cache, request
<1> SUFFICES Handle(t)
  BY <1>3 DEF Answer, TypeOK
<1>4. Handling(t, route[t])
  BY <1>3 DEF Handling
<1>5. ASSUME NEW S, PlainStatus(t) \in S PROVE Fail(t, S)
  BY <1>3, <1>5 DEF Fail
<1>6. route[t] \in {"health", "ready", "not_found", "create", "list", "get", "update", "remove"}
  BY DEF TypeOK, HandlersAreGiven
<1>7. CASE route[t] \in {"health", "ready", "not_found"}
  BY <1>4, <1>5, <1>7 DEF Handle, Health, ReadyCheck, NotFound, PlainStatus
<1>8. CASE route[t] \in {"create", "list", "get", "update", "remove"} /\ Turned(t) # {}
  <2>1. PlainStatus(t) \in Turned(t)
    BY <1>8 DEF PlainStatus, Turned
  <2>2. QED
    BY <1>4, <1>5, <1>8, <2>1 DEF Handle, TurnAway
<1>9. CASE route[t] \in {"create", "list", "get", "update", "remove"} /\ Turned(t) = {}
  <2>1. PlainStatus(t) = 500
    BY <1>9 DEF PlainStatus
  <2>2. Serves(t, route[t])
    BY <1>4, <1>9 DEF Serves
  <2>3. route[t] # "get"
    BY <1>9 DEF Reads
  <2>4. QED
    BY <1>5, <1>9, <2>1, <2>2, <2>3 DEF Handle, Create, List, Update, Remove
<1>10. QED
  BY <1>6, <1>7, <1>8, <1>9

\* Between the calls of a handler: a read or a put may fail, and so may an eviction.
LEMMA CallGoesOn ==
  ASSUME TypeOK, HandsAreClean, NEW t \in Threads, vars' = Onward(t),
         \/ pc[t] = "handle" /\ Reads(t)
         \/ pc[t] \in {"version", "read", "fill", "evict"}
  PROVE  Handle(t) /\ pc'[t] # pc[t]
<1>1. [passed EXCEPT ![t] = passed[t]] = passed
  BY DEF TypeOK
<1> USE DEF vars, data, cache, request
<1>2. CASE pc[t] = "handle" /\ Reads(t)
  <2>1. vars' = Misses(t)
    BY <1>2 DEF Onward
  <2>2. GoOn(t, "version", Fresh) /\ UNCHANGED request /\ UNCHANGED data
    BY <2>1 DEF Misses, GoOn
  <2>3. Get(t)
    BY <1>2, <2>2 DEF Get, Serves, Handling, Reads
  <2>4. QED
    BY <1>2, <2>2, <2>3 DEF Handle, GoOn, TypeOK
<1>3. CASE pc[t] = "version"
  <2>1. vars' = Proceeds(t)
    BY <1>3 DEF Onward
  <2>2. GoOn(t, "read", [local[t] EXCEPT !.version = NoVersion]) /\ UNCHANGED request /\ UNCHANGED data
    BY <2>1 DEF Proceeds, GoOn
  <2>3. ReadVersion(t)
    BY <1>3, <2>2 DEF ReadVersion
  <2>4. QED
    BY <1>3, <2>2, <2>3 DEF Handle, GoOn, TypeOK
<1>4. CASE pc[t] = "read"
  <2>1. vars' = Answers(t, 500, NoRow, passed[t])
    BY <1>4 DEF Onward
  <2>2. Answer(t, 500, NoRow) /\ UNCHANGED request /\ UNCHANGED data
    BY <1>1, <2>1 DEF Answers, Answer
  <2>3. FindRow(t)
    BY <1>4, <2>2 DEF FindRow, Fail
  <2>4. QED
    BY <1>4, <2>2, <2>3 DEF Handle, Answer, TypeOK
<1>5. CASE pc[t] = "fill"
  <2>1. vars' = Answers(t, 200, local[t].row, passed[t])
    BY <1>5 DEF Onward
  <2>2. Answer(t, 200, local[t].row) /\ UNCHANGED request /\ UNCHANGED data
    BY <1>1, <2>1 DEF Answers, Answer
  <2>3. PutIfVersion(t)
    BY <1>5, <2>2 DEF PutIfVersion
  <2>4. QED
    BY <1>5, <2>2, <2>3 DEF Handle, Answer, TypeOK
<1>6. CASE pc[t] = "evict"
  <2> DEFINE b == IF route[t] = "update" THEN local[t].row ELSE NoRow
  <2>1. vars' = Answers(t, 200, b, passed[t])
    BY <1>6 DEF Onward
  <2>2. Answer(t, 200, b) /\ UNCHANGED request /\ UNCHANGED data
    BY <1>1, <2>1 DEF Answers, Answer
  <2>3. Evict(t)
    BY <1>6, <2>2 DEF Evict
  <2>4. QED
    BY <1>6, <2>2, <2>3 DEF Handle, Answer, TypeOK
<1>7. QED
  BY <1>2, <1>3, <1>4, <1>5, <1>6

\* Only Dispatch gives a request to a handler, and to one that exists.
THEOREM HandlersGiven == Spec => []HandlersAreGiven
<1>1. Init => HandlersAreGiven
  BY DEF Init, HandlersAreGiven, Working
<1>2. Inv /\ HandlersAreGiven /\ [Next]_vars => HandlersAreGiven'
  <2> SUFFICES ASSUME Inv, HandlersAreGiven, [Next]_vars, NEW u \in Threads, pc'[u] \in Working
               PROVE  route'[u] # "none"
    BY DEF HandlersAreGiven
  <2> USE DEF Inv, TypeOK, Working
  <2>1. CASE \E t \in Threads : Dispatch(t)
    <3>1. PICK t \in Threads : Dispatch(t)
      BY <2>1
    <3>2. PICK h \in Routes(req[t]) \ DOMAIN CustomError :
            route' = [route EXCEPT ![t] = h] \/ (pc' = [pc EXCEPT ![t] = "answered"] /\ route' = route)
      BY <3>1 DEF Dispatch, Handler, Answer
    <3>3. h # "none"
      BY <3>2, RoutesExist
    <3>4. pc'[u] = pc[u] \/ t = u
      BY <3>1 DEF Dispatch, Handler, Answer
    <3>5. QED
      BY <3>2, <3>3, <3>4 DEF HandlersAreGiven
  <2>2. CASE \E t \in Threads : Handle(t)
    <3>1. PICK t \in Threads : Handle(t)
      BY <2>2
    <3>2. UNCHANGED request /\ Moves(t) /\ pc[t] \in Working
      BY <3>1, HandleCases
    <3>3. pc'[u] = pc[u] \/ pc[u] \in Working
      BY <3>2 DEF Moves, Continues, Answer, GoOn
    <3>4. QED
      BY <3>2, <3>3 DEF HandlersAreGiven, request
  <2>3. CASE \E t \in Threads : Send(t)
    BY <2>3 DEF Send, HandlersAreGiven
  <2>4. CASE \E t \in Threads : Unrouted(t) \/ \E r \in Requests : Receive(t, r)
    BY <2>4 DEF Unrouted, Receive, Answer, HandlersAreGiven
  <2>5. CASE RedisLoses \/ UNCHANGED vars
    BY <2>5 DEF RedisLoses, vars, request, HandlersAreGiven
  <2>6. QED
    BY <2>1, <2>2, <2>3, <2>4, <2>5 DEF Next, Serve
<1>3. QED
  BY <1>1, <1>2, GatewayInvariant, PTL DEF Spec

\* What ENABLED says in NoRequestIsStuck, without ENABLED: a thread that has a
\* request, whatever it asks for and whatever the other threads did, can take a
\* step of its own that changes the state.
THEOREM RequestsCanGoOn ==
  ASSUME TypeOK, HandsAreClean, HandlersAreGiven, NEW t \in Threads, Busy(t), vars' = Onward(t)
  PROVE  <<Serve(t)>>_vars
<1>1. CASE pc[t] = "dispatch"
  <2>1. Unrouted(t) \/ Dispatch(t)
    BY <1>1, DispatchGoesOn
  <2>2. pc'[t] # pc[t]
    BY <1>1, <2>1 DEF TypeOK, Unrouted, Dispatch, Answer, Handler
  <2>3. QED
    BY <2>1, <2>2 DEF Serve, vars
<1>2. CASE pc[t] = "handle" /\ ~Reads(t)
  BY <1>2, HandlerGoesOn DEF Serve, vars
<1>3. CASE pc[t] \in {"version", "read", "fill", "evict"} \/ (pc[t] = "handle" /\ Reads(t))
  BY <1>3, CallGoesOn DEF Serve, vars
<1>4. CASE pc[t] = "answered"
  <2>1. vars' = Rests(t)
    BY <1>4 DEF Onward
  <2>2. Send(t)
    BY <1>4, <2>1 DEF Rests, Send, vars, data, cache
  <2>3. pc'[t] # pc[t]
    BY <1>4, <2>2 DEF TypeOK, Send
  <2>4. QED
    BY <2>2, <2>3 DEF Serve, vars
<1>5. QED
  BY <1>1, <1>2, <1>3, <1>4 DEF Busy, TypeOK, Working

\* Where a step of a thread may take it.
Leads(t) ==
  \/ pc[t] = "dispatch" /\ pc'[t] \in {"handle", "answered"}
  \/ pc[t] = "handle" /\ pc'[t] \in {"version", "evict", "answered"}
  \/ pc[t] = "version" /\ pc'[t] = "read"
  \/ pc[t] = "read" /\ pc'[t] \in {"fill", "answered"}
  \/ pc[t] \in {"fill", "evict"} /\ pc'[t] = "answered"
  \/ pc[t] = "answered" /\ pc'[t] = "idle"

\* A thread is moved by its own steps alone, along the handler's calls.
LEMMA PlaceStep ==
  ASSUME TypeOK, HandsAreClean, NEW t \in Threads, [Next]_vars, Busy(t)
  PROVE  /\ pc'[t] = pc[t] \/ Serve(t)
         /\ Serve(t) => Leads(t)
<1> USE DEF TypeOK
<1>1. ASSUME NEW u \in Threads \ {t}, Serve(u) PROVE pc'[t] = pc[t]
  <2>1. CASE Handle(u)
    <3>1. Moves(u)
      BY <2>1, HandleCases
    <3>2. QED
      BY <3>1 DEF Moves, Continues, Answer, GoOn
  <2>2. CASE Unrouted(u)
    BY <2>2 DEF Unrouted, Answer
  <2>3. CASE Dispatch(u)
    BY <2>3 DEF Dispatch, Answer, Handler
  <2>4. CASE Send(u)
    BY <2>4 DEF Send
  <2>5. QED
    BY <1>1, <2>1, <2>2, <2>3, <2>4 DEF Serve
<1>2. ASSUME NEW u \in Threads, NEW r \in Requests, Receive(u, r) PROVE pc'[t] = pc[t]
  BY <1>2 DEF Receive, Answer, Busy
<1>3. pc'[t] = pc[t] \/ Serve(t)
  BY <1>1, <1>2 DEF Next, RedisLoses, vars
<1>4. ASSUME Serve(t) PROVE Leads(t)
  <2>1. CASE Handle(t)
    <3>1. pc[t] \in Working
      BY <2>1, HandleCases
    <3>2. pc[t] \in {"read", "fill", "evict", "handle"} \/ ~\E s \in Statuses, b \in Rows : Answer(t, s, b)
      <4>1. CASE pc[t] = "version"
        <5>1. ReadVersion(t)
          BY <2>1, <4>1 DEF Handle, Health, ReadyCheck, NotFound, TurnAway, Create, List, Get,
             FindRow, PutIfVersion, Update, Remove, Evict, Serves, Handling
        <5>2. pc'[t] = "read"
          BY <5>1 DEF ReadVersion, GoOn
        <5>3. QED
          BY <5>2 DEF Answer
      <4>2. QED
        BY <3>1, <4>1 DEF Working
    <3>3. Moves(t)
      BY <2>1, HandleCases
    <3>4. QED
      BY <3>1, <3>2, <3>3 DEF Leads, Moves, Continues, Answer, GoOn, Working
  <2>2. CASE Unrouted(t)
    BY <2>2 DEF Unrouted, Answer, Leads
  <2>3. CASE Dispatch(t)
    BY <2>3 DEF Dispatch, Answer, Handler, Leads
  <2>4. CASE Send(t)
    BY <2>4 DEF Send, Leads
  <2>5. QED
    BY <1>4, <2>1, <2>2, <2>3, <2>4 DEF Serve
<1>5. QED
  BY <1>3, <1>4

\* If its thread keeps running, every request that was taken up is answered and
\* the thread takes the next, whatever the other threads do: the chain of advices,
\* handler and callback has no way round that it could go for ever.  The third
\* assumption is what RequestsCanGoOn says.
THEOREM RequestsEnd ==
  ASSUME NEW t \in Threads
  PROVE  Spec /\ WF_vars(Serve(t)) /\ [](Busy(t) => ENABLED <<Serve(t)>>_vars)
           => (Busy(t) ~> ~Busy(t))
<1> DEFINE D == pc[t] = "dispatch"
           H == pc[t] = "handle"
           V == pc[t] = "version"
           R == pc[t] = "read"
           L == pc[t] \in {"fill", "evict"}
           A == pc[t] = "answered"
           I == TypeOK /\ HandsAreClean
<1>1. TypeOK => (Busy(t) <=> (D \/ H \/ V \/ R \/ L \/ A))
  BY DEF TypeOK, Busy, Working
<1> USE PlaceStep DEF Busy, Leads
<1>2. I /\ D /\ [Next]_vars => (D \/ H \/ A)'
  OBVIOUS
<1>3. I /\ H /\ [Next]_vars => (H \/ V \/ L \/ A)'
  OBVIOUS
<1>4. I /\ V /\ [Next]_vars => (V \/ R)'
  OBVIOUS
<1>5. I /\ R /\ [Next]_vars => (R \/ L \/ A)'
  OBVIOUS
<1>6. I /\ L /\ [Next]_vars => (L \/ A)'
  OBVIOUS
<1>7. I /\ A /\ [Next]_vars => (A \/ ~Busy(t))'
  OBVIOUS
<1>8. I /\ D /\ [Next]_vars /\ <<Serve(t)>>_vars => (H \/ A)'
  OBVIOUS
<1>9. I /\ H /\ [Next]_vars /\ <<Serve(t)>>_vars => (V \/ L \/ A)'
  OBVIOUS
<1>10. I /\ V /\ [Next]_vars /\ <<Serve(t)>>_vars => R'
  OBVIOUS
<1>11. I /\ R /\ [Next]_vars /\ <<Serve(t)>>_vars => (L \/ A)'
  OBVIOUS
<1>12. I /\ L /\ [Next]_vars /\ <<Serve(t)>>_vars => A'
  OBVIOUS
<1>13. I /\ A /\ [Next]_vars /\ <<Serve(t)>>_vars => ~Busy(t)'
  OBVIOUS
<1>14. Inv => I
  BY DEF Inv
<1> HIDE DEF D, H, V, R, L, A, I
<1>15. Spec /\ WF_vars(Serve(t)) /\ [](Busy(t) => ENABLED <<Serve(t)>>_vars)
         => [](I /\ TypeOK)
  BY <1>14, TypeCorrect, GatewayInvariant, PTL
<1>16. QED
  BY <1>1, <1>2, <1>3, <1>4, <1>5, <1>6, <1>7, <1>8, <1>9, <1>10, <1>11, <1>12, <1>13, <1>15, PTL
     DEF Spec
=============================================================================
