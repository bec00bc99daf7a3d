------------------------------- MODULE Gateway ------------------------------
(***************************************************************************)
(* The way of a request through the server: the advices that main()        *)
(* registers (src/src/main.cpp, src/src/gateway, src/src/auth), the routes *)
(* and the handlers (src/src/resources/resource_handler.cpp), by worker    *)
(* threads that share the table and the cache.                             *)
(*                                                                         *)
(* One resource is followed; it has one row and may be spelled in several  *)
(* ways in a path, because is_uuid() and PostgreSQL accept either case.    *)
(* Whether a bucket has a token, a key is known, a token verifies or a     *)
(* backend answers is the environment's choice at each call: RateLimiter,  *)
(* ApiKeyCache, PgPool and RedisSession go into that.  A get(), an update  *)
(* and a removal are as many steps as they make calls to Redis and to the  *)
(* table, and Redis may lose a key between any two.  A command takes       *)
(* effect when it is called or not at all; ResourceCache has the late ones.*)
(*                                                                         *)
(* Definitions named X_... are wrong versions of X that the properties are *)
(* shown to reject; no specification uses them.                            *)
(***************************************************************************)
EXTENDS Integers, FiniteSets

CONSTANTS
  Threads,
  Requests,   \* the requests that may arrive
  Clients,
  Nobody,     \* an empty client_id
  Keys,       \* API keys
  Tokens,     \* JWTs
  ClientOf,   \* the client each key or token names
  ScopesOf,   \* the scopes each of them grants
  Spellings,  \* of the resource's id
  MaxWrites   \* bound on the writes of the row

Methods == {"GET", "HEAD", "OPTIONS", "POST", "PATCH", "PUT", "DELETE"}
Paths   == {"/health", "/ready", "/v1/resources", "/v1/resources/{id}", "/v1/other", "/v1/a/b/c/d"}
Credentials == Keys \cup Tokens

\* length is what Content-Length says; body what was received; id is used by
\* the paths of a resource, "junk" is no UUID.
RequestSet == [method : Methods, path : Paths, id : Spellings \cup {"junk"},
               length : {"none", "small", "large", "malformed"},
               body : {"small", "large"},
               key : Keys \cup {"none"}, authorization : Tokens \cup {"none", "malformed"}]

ASSUME RequestsAssumption == Requests \subseteq RequestSet
ASSUME CredentialsAssumption ==
  /\ Nobody \notin Clients
  /\ ClientOf \in [Credentials -> Clients \cup {Nobody}]
  /\ ScopesOf \in [Credentials -> SUBSET {"read", "write"}]
ASSUME WritesAssumption == MaxWrites \in Nat

VARIABLES
  pc,       \* "idle", "dispatch", "handle" and on in a handler, or "answered"
  req,      \* the request a thread works on
  client,   \* its attribute client_id, Nobody if it is not set
  route,    \* the handler it is given to
  resp,     \* its response
  row,      \* owner (Nobody if there is no row) and number of writes
  entries,  \* the cache: what is stored under a client and a spelling
  version,  \* the version key of each of these in Redis, 0 if there is none
  local,    \* version and row a handler has read or written
  passed,   \* history: the credentials that passed their check
  evicted,  \* history: the last write whose eviction was confirmed
  floor     \* history: evicted when the request arrived

vars == <<pc, req, client, route, resp, row, entries, version, local,
          passed, evicted, floor>>

NoRow      == [owner |-> Nobody, ver |-> 0]
Rows       == [owner : Clients \cup {Nobody}, ver : 0..MaxWrites]
NoVersion  == -1
Locals     == [version : Nat \cup {NoVersion}, row : Rows]
Fresh      == [version |-> NoVersion, row |-> NoRow]
Working    == {"handle", "version", "read", "fill", "evict"}
CacheKeys  == Clients \X Spellings
Statuses   == {200, 201, 400, 401, 403, 404, 409, 413, 422, 429, 500, 503}

\* A status and the row in the body (NoRow: none).
NoResponse == [status |-> 0, row |-> NoRow]
Responses  == {NoResponse} \cup [status : Statuses, row : Rows]

NoRequest == [method |-> "GET", path |-> "/health", id |-> "junk", length |-> "none",
              body |-> "small", key |-> "none", authorization |-> "none"]

-----------------------------------------------------------------------------
(* Pre-routing advices *)

IsBodyMethod(m) == m \notin {"GET", "HEAD", "DELETE", "OPTIONS"}

\* The size limit's first look, at the header.
HeaderTooLarge(r) == IsBodyMethod(r.method) /\ r.length = "large"

\* Wrong: only /health is exempt.
Exempt_HealthOnly(r) == r.path = "/health"

\* Paths the rate limiter lets through.
Exempt(r) == r.path \in {"/health", "/ready"}

\* Wrong: only the header is looked at.
BodyTooLarge_Never(r) == FALSE

\* Its second look, at the body, as a pre-handling advice.
BodyTooLarge(r) == IsBodyMethod(r.method) /\ r.body = "large"

-----------------------------------------------------------------------------
(* authenticate() *)

RequiredScope(m) == IF m \in {"GET", "HEAD", "OPTIONS"} THEN "read" ELSE "write"

\* What the checks of a credential may say.  A key without a client_id is
\* invalid.
KeyVerdicts(k) == IF k \in Keys /\ ClientOf[k] # Nobody THEN {"ok", "invalid", "unavailable"}
                                                        ELSE {"invalid", "unavailable"}
TokenVerdicts(j) == IF j \in Tokens THEN {"ok", "invalid"} ELSE {"invalid"}

Sent(r) == {r.key, r.authorization} \ {"none"}

Refused(status) == [status |-> status, client |-> Nobody]

Granted(c) == [status |-> 200, client |-> ClientOf[c]]

\* The credential that names the client: the key, or the token without one.
Naming(r) == IF r.key # "none" THEN r.key ELSE r.authorization

\* Wrong: the scopes of the token replace those of the key.
Authenticate_LastScope(r, k, j) ==
  IF Sent(r) = {} THEN Refused(401)
  ELSE IF r.key # "none" /\ k = "unavailable" THEN Refused(503)
  ELSE IF r.key # "none" /\ k = "invalid" THEN Refused(401)
  ELSE IF r.authorization # "none" /\ j = "invalid" THEN Refused(401)
  ELSE IF \E c \in Sent(r) : ClientOf[c] \notin Clients \cap {ClientOf[Naming(r)]} THEN Refused(401)
  ELSE IF RequiredScope(r.method) \notin ScopesOf[IF r.authorization # "none" THEN r.authorization ELSE r.key]
         THEN Refused(403)
  ELSE Granted(Naming(r))

\* The decision on request r, given what the checks of key and token say.  No
\* token verifies in a malformed Authorization header.
Authenticate(r, k, j) ==
  IF Sent(r) = {} THEN Refused(401)
  ELSE IF r.key # "none" /\ k = "unavailable" THEN Refused(503)
  ELSE IF r.key # "none" /\ k = "invalid" THEN Refused(401)
  ELSE IF r.authorization # "none" /\ j = "invalid" THEN Refused(401)
  ELSE IF \E c \in Sent(r) : ClientOf[c] \notin Clients \cap {ClientOf[Naming(r)]} THEN Refused(401)
  ELSE IF \E c \in Sent(r) : RequiredScope(r.method) \notin ScopesOf[c] THEN Refused(403)
  ELSE Granted(Naming(r))

\* The paths the auth advice guards.
Guarded(r) == r.path \notin {"/health", "/ready"}

-----------------------------------------------------------------------------
(* Routes *)

\* The framework may answer a method that a path does not have, or find the
\* catch-all route for it.
WrongMethod == {"error405", "not_found"}

Routes(r) ==
  CASE r.path = "/health" -> IF r.method = "GET" THEN {"health"} ELSE WrongMethod
    [] r.path = "/ready"  -> IF r.method = "GET" THEN {"ready"} ELSE WrongMethod
    [] r.path = "/v1/resources" -> CASE r.method = "POST" -> {"create"}
                                     [] r.method = "GET"  -> {"list"}
                                     [] OTHER             -> WrongMethod
    [] r.path = "/v1/resources/{id}" -> CASE r.method = "GET"    -> {"get"}
                                          [] r.method = "PATCH"  -> {"update"}
                                          [] r.method = "DELETE" -> {"remove"}
                                          [] OTHER               -> WrongMethod
    [] r.path = "/v1/other" -> {"not_found"}
    [] OTHER -> {"error404"}

\* Wrong: the framework's code is passed on.
CustomError_Raw == [error404 |-> 404, error405 |-> 405]

\* The custom error handler; it answers 405 as a bad request.
CustomError == [error404 |-> 404, error405 |-> 400]

-----------------------------------------------------------------------------
(* The chain *)

Init == /\ pc = [t \in Threads |-> "idle"]
        /\ req = [t \in Threads |-> NoRequest]
        /\ client = [t \in Threads |-> Nobody]
        /\ route = [t \in Threads |-> "none"]
        /\ resp = [t \in Threads |-> NoResponse]
        /\ row = NoRow
        /\ entries = [k \in CacheKeys |-> NoRow]
        /\ version = [k \in CacheKeys |-> 0]
        /\ local = [t \in Threads |-> Fresh]
        /\ passed = [t \in Threads |-> {}]
        /\ evicted = 0
        /\ floor = [t \in Threads |-> 0]

cache == <<entries, version, evicted>>
data  == <<row, cache>>

\* The callback is called, and what the handler had at hand is gone.
Answer(t, status, body) ==
  /\ pc' = [pc EXCEPT ![t] = "answered"]
  /\ resp' = [resp EXCEPT ![t] = [status |-> status, row |-> body]]
  /\ local' = [local EXCEPT ![t] = Fresh]

\* A request arrives and meets the pre-routing advices: size limit, rate limit.
Receive(t, r) ==
  /\ pc[t] = "idle"
  /\ req' = [req EXCEPT ![t] = r]
  /\ floor' = [floor EXCEPT ![t] = evicted]
  /\ \/ HeaderTooLarge(r) /\ Answer(t, 413, NoRow)
     \/ ~HeaderTooLarge(r) /\ ~Exempt(r) /\ Answer(t, 429, NoRow)
     \/ /\ ~HeaderTooLarge(r)
        /\ pc' = [pc EXCEPT ![t] = "dispatch"]
        /\ UNCHANGED <<resp, local>>
  /\ UNCHANGED <<client, route, data, passed>>

\* No route: the custom error handler.
Unrouted(t) ==
  /\ pc[t] = "dispatch"
  /\ \E e \in Routes(req[t]) \cap DOMAIN CustomError : Answer(t, CustomError[e], NoRow)
  /\ UNCHANGED <<req, client, route, data, passed, floor>>

Handler(t, h, c) ==
  /\ pc' = [pc EXCEPT ![t] = "handle"]
  /\ route' = [route EXCEPT ![t] = h]
  /\ client' = [client EXCEPT ![t] = c]

\* A route: the pre-handling advices, size limit and auth, then the handler.
Dispatch(t) ==
  /\ pc[t] = "dispatch"
  /\ \E h \in Routes(req[t]) \ DOMAIN CustomError :
       \/ /\ BodyTooLarge(req[t])
          /\ Answer(t, 413, NoRow)
          /\ UNCHANGED <<client, route, passed>>
       \/ /\ ~BodyTooLarge(req[t]) /\ ~Guarded(req[t])
          /\ Handler(t, h, Nobody)
          /\ UNCHANGED <<resp, local, passed>>
       \/ /\ ~BodyTooLarge(req[t]) /\ Guarded(req[t])
          /\ \E k \in KeyVerdicts(req[t].key), j \in TokenVerdicts(req[t].authorization) :
               LET a == Authenticate(req[t], k, j)
               IN  /\ passed' = [passed EXCEPT ![t] = (IF k = "ok" THEN {req[t].key} ELSE {})
                                                 \cup (IF j = "ok" THEN {req[t].authorization} ELSE {})]
                   /\ IF a.status = 200
                        THEN Handler(t, h, a.client) /\ UNCHANGED <<resp, local>>
                        ELSE Answer(t, a.status, NoRow) /\ UNCHANGED <<client, route>>
  /\ UNCHANGED <<req, data, floor>>

-----------------------------------------------------------------------------
(* Handlers *)

request == <<req, client, route, passed, floor>>

Handling(t, h) == /\ pc[t] = "handle"
                  /\ route[t] = h
                  /\ UNCHANGED request

Fail(t, statuses) == /\ \E s \in statuses : Answer(t, s, NoRow)
                     /\ UNCHANGED data

\* Wrong: the client is not part of the key.
CacheKey_NoClient(c, id) == <<CHOOSE x \in Clients : TRUE, id>>

CacheKey(c, id) == <<c, id>>

Health(t) == Handling(t, "health") /\ Fail(t, {200})

\* 503 when PostgreSQL or Redis does not answer.
ReadyCheck(t) == Handling(t, "ready") /\ Fail(t, {200, 503})

NotFound(t) == Handling(t, "not_found") /\ Fail(t, {404})

\* The first checks of the resource handlers.
Turned(t) == IF client[t] = Nobody THEN {500}
             ELSE IF route[t] \in {"get", "update", "remove"} /\ req[t].id = "junk" THEN {404}
             ELSE {}

\* Wrong: a get() of no UUID returns without calling its callback.
TurnAway_NotGet(t) ==
  /\ route[t] \in {"create", "list", "update", "remove"}
  /\ Turned(t) # {}
  /\ Handling(t, route[t])
  /\ Fail(t, Turned(t))

TurnAway(t) ==
  /\ route[t] \in {"create", "list", "get", "update", "remove"}
  /\ Turned(t) # {}
  /\ Handling(t, route[t])
  /\ Fail(t, Turned(t))

Serves(t, h) == Handling(t, h) /\ Turned(t) = {}

\* The client's row, as PostgreSQL compares ids.
Found(t) == row.owner = client[t]

\* A resource other than the one followed may be created, too.
Create(t) ==
  /\ Serves(t, "create")
  /\ \/ Fail(t, {400, 409, 422, 500, 201})
     \/ /\ row.ver = 0 /\ row.ver < MaxWrites
        /\ row' = [owner |-> client[t], ver |-> 1]
        /\ Answer(t, 201, row')
        /\ UNCHANGED cache

\* A bad limit or cursor is a 400.
List(t) ==
  /\ Serves(t, "list")
  /\ \/ Fail(t, {400, 500})
     \/ Answer(t, 200, IF Found(t) THEN row ELSE NoRow) /\ UNCHANGED data

KeyOf(t) == CacheKey(client[t], req[t].id)

\* The handler goes on with l at hand.
GoOn(t, place, l) == /\ pc' = [pc EXCEPT ![t] = place]
                     /\ local' = [local EXCEPT ![t] = l]
                     /\ UNCHANGED resp

\* ResourceService::get: the entry, which parses because put_if_version alone
\* writes one; or, if there is none or the cache fails, on to the row.
Get(t) ==
  /\ Serves(t, "get")
  /\ \/ entries[KeyOf(t)] # NoRow /\ Answer(t, 200, entries[KeyOf(t)])
     \/ GoOn(t, "version", Fresh)
  /\ UNCHANGED data

\* version(), or none if the cache fails.
ReadVersion(t) ==
  /\ pc[t] = "version"
  /\ \E v \in {version[KeyOf(t)], NoVersion} : GoOn(t, "read", [local[t] EXCEPT !.version = v])
  /\ UNCHANGED <<request, data>>

\* find_by_id().
FindRow(t) ==
  /\ pc[t] = "read"
  /\ \/ Fail(t, {500})
     \/ ~Found(t) /\ Fail(t, {404})
     \/ /\ Found(t)
        /\ IF local[t].version = NoVersion
             THEN Answer(t, 200, row)
             ELSE GoOn(t, "fill", [local[t] EXCEPT !.row = row])
        /\ UNCHANGED data
  /\ UNCHANGED request

\* put_if_version(): the row is stored if the version is still the one read and
\* the cache does not fail.
PutIfVersion(t) ==
  /\ pc[t] = "fill"
  /\ Answer(t, 200, local[t].row)
  /\ \/ UNCHANGED entries
     \/ /\ version[KeyOf(t)] = local[t].version
        /\ entries' = [entries EXCEPT ![KeyOf(t)] = local[t].row]
  /\ UNCHANGED <<request, row, version, evicted>>

\* The row is written; or the commit is in doubt, and the handler answers 500.
Write(t, owner) ==
  /\ row.ver < MaxWrites
  /\ row' = [owner |-> owner, ver |-> row.ver + 1]
  /\ \/ GoOn(t, "evict", [Fresh EXCEPT !.row = row'])
     \/ Answer(t, 500, NoRow)
  /\ UNCHANGED cache

Later(m, n) == IF m < n THEN n ELSE m

\* invalidate_versioned() of the id as it is spelled: confirmed; or the cache
\* fails, with or without effect, which is logged.  A removal answers no row.
Evict(t) ==
  /\ pc[t] = "evict"
  /\ Answer(t, 200, IF route[t] = "update" THEN local[t].row ELSE NoRow)
  /\ \/ UNCHANGED cache
     \/ /\ entries' = [entries EXCEPT ![KeyOf(t)] = NoRow]
        /\ version' = [version EXCEPT ![KeyOf(t)] = @ + 1]
        /\ evicted' \in {evicted, Later(evicted, local[t].row.ver)}
  /\ UNCHANGED <<request, row>>

\* Wrong: the WHERE clause forgets the client.
Update_AnyRow(t) ==
  /\ Serves(t, "update")
  /\ \/ Fail(t, {400, 409, 422, 500})
     \/ row.owner = Nobody /\ Fail(t, {404})
     \/ row.owner # Nobody /\ Write(t, row.owner)

Update(t) ==
  /\ Serves(t, "update")
  /\ \/ Fail(t, {400, 409, 422, 500})
     \/ ~Found(t) /\ Fail(t, {404})
     \/ Found(t) /\ Write(t, row.owner)

Remove(t) ==
  /\ Serves(t, "remove")
  /\ \/ Fail(t, {500})
     \/ ~Found(t) /\ Fail(t, {404})
     \/ Found(t) /\ Write(t, Nobody)

Handle(t) == \/ Health(t) \/ ReadyCheck(t) \/ NotFound(t) \/ TurnAway(t)
             \/ Create(t) \/ List(t)
             \/ Get(t) \/ ReadVersion(t) \/ FindRow(t) \/ PutIfVersion(t)
             \/ Update(t) \/ Remove(t) \/ Evict(t)

\* The response is sent.
Send(t) ==
  /\ pc[t] = "answered"
  /\ pc' = [pc EXCEPT ![t] = "idle"]
  /\ resp' = [resp EXCEPT ![t] = NoResponse]
  /\ client' = [client EXCEPT ![t] = Nobody]
  /\ route' = [route EXCEPT ![t] = "none"]
  /\ req' = [req EXCEPT ![t] = NoRequest]
  /\ passed' = [passed EXCEPT ![t] = {}]
  /\ floor' = [floor EXCEPT ![t] = 0]
  /\ UNCHANGED <<data, local>>

\* Redis loses an entry or a version: its TTL ends, or Redis evicts or restarts.
RedisLoses ==
  \E k \in CacheKeys :
    /\ \/ /\ entries[k] # NoRow
          /\ entries' = [entries EXCEPT ![k] = NoRow]
          /\ UNCHANGED version
       \/ /\ version[k] # 0
          /\ version' = [version EXCEPT ![k] = 0]
          /\ UNCHANGED entries
    /\ UNCHANGED <<pc, request, resp, row, local, evicted>>

-----------------------------------------------------------------------------

Serve(t) == Unrouted(t) \/ Dispatch(t) \/ Handle(t) \/ Send(t)

Next == \/ \E t \in Threads : Serve(t) \/ \E r \in Requests : Receive(t, r)
        \/ RedisLoses

Spec == Init /\ [][Next]_vars

-----------------------------------------------------------------------------
(* Properties *)

\* Every variable has its type, every status is one of the API's error codes, and
\* a thread holds a response exactly when it has answered.
TypeOK ==
  /\ pc \in [Threads -> {"idle", "dispatch", "answered"} \cup Working]
  /\ req \in [Threads -> Requests \cup {NoRequest}]
  /\ client \in [Threads -> Clients \cup {Nobody}]
  /\ route \in [Threads -> {"none", "health", "ready", "not_found", "create", "list",
                            "get", "update", "remove"}]
  /\ resp \in [Threads -> Responses]
  /\ row \in Rows
  /\ entries \in [CacheKeys -> Rows]
  /\ version \in [CacheKeys -> Nat]
  /\ local \in [Threads -> Locals]
  /\ passed \in [Threads -> SUBSET Credentials]
  /\ evicted \in 0..MaxWrites
  /\ floor \in [Threads -> 0..MaxWrites]
  /\ \A t \in Threads : (resp[t] = NoResponse) <=> (pc[t] # "answered")

\* Thread t has checked every credential of its request, at least one, and each
\* of them names client c and grants scope s.
Entitled(t, c, s) ==
  /\ Sent(req[t]) # {} /\ Sent(req[t]) \subseteq passed[t]
  /\ \A cr \in Sent(req[t]) : ClientOf[cr] = c /\ s \in ScopesOf[cr]

\* A row is answered, from the table or from the cache, only to its owner, and
\* only if every credential sent is valid, names the owner and grants the scope
\* the method needs: authenticate() intersects what key and token grant, and
\* cache_key() holds the client.
RowsGoToTheirOwners ==
  \A t \in Threads : resp[t].row # NoRow =>
    Entitled(t, resp[t].row.owner, RequiredScope(req[t].method))

\* Whatever the threads do at the same time, a row is created, updated or deleted
\* only for a request whose credentials all name its owner and grant "write".
RowsChangeForTheirOwners ==
  [][row' # row => \E t \in Threads :
       /\ pc[t] = "handle"
       /\ Entitled(t, IF row.owner = Nobody THEN row'.owner ELSE row.owner, "write")]_vars

\* No handler that parses a body is given one above the limit, whatever
\* Content-Length says or if it is missing: the first look of the size limit lets
\* such requests pass, the second has to stop them.
BodiesAreBounded ==
  \A t \in Threads : pc[t] = "handle" /\ route[t] \in {"create", "update"} => req[t].body = "small"

\* A GET of /health or /ready is never turned away by an advice: /health says 200,
\* and /ready says 200 or that a backend is unavailable.
ProbesAreServed ==
  \A t \in Threads :
    pc[t] = "answered" /\ req[t].method = "GET" /\ req[t].path \in {"/health", "/ready"} =>
      resp[t].status \in (IF req[t].path = "/health" THEN {200} ELSE {200, 503})

\* A get() answered with a row shows every write whose eviction was confirmed
\* before the request arrived: "The read that follows an update must not serve the
\* pre-update body." (tests/integration/test_resources.py).
ReadFollowsUpdate ==
  \A t \in Threads : route[t] = "get" /\ resp[t].row # NoRow => resp[t].row.ver >= floor[t]

\* No request is left without an answer: whatever its path, method, body and
\* credentials are and whatever the other threads did, its thread can go on until
\* a callback is called.
NoRequestIsStuck == \A t \in Threads : pc[t] # "idle" => ENABLED Serve(t)

=============================================================================
