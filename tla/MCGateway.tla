----------------------------- MODULE MCGateway ------------------------------
(***************************************************************************)
(* Gateway with two clients: A, whose keys and tokens read and write or    *)
(* read only, and B; a key and a token that name nobody; a resource        *)
(* spelled in lower or in upper case.                                      *)
(***************************************************************************)
EXTENDS Gateway, TLC

MCClientOf == [kA |-> "A", kAr |-> "A", kB |-> "B", k0 |-> Nobody,
               jA |-> "A", jAr |-> "A", jB |-> "B", jU |-> Nobody]

MCScopesOf == [kA |-> {"read", "write"}, kAr |-> {"read"}, kB |-> {"read", "write"},
               k0 |-> {"read", "write"}, jA |-> {"read", "write"}, jAr |-> {"read"},
               jB |-> {"read", "write"}, jU |-> {"read", "write"}]

Plain(method, path, id, key) ==
  [method |-> method, path |-> path, id |-> id, length |-> "small", body |-> "small",
   key |-> key, authorization |-> "none"]

Collection(method, key) == Plain(method, "/v1/resources", "junk", key)
Item(method, id, key)   == Plain(method, "/v1/resources/{id}", id, key)

\* What clients do with the resource, in either spelling.
DataRequests ==
       {Collection(m, "kA") : m \in {"POST", "GET"}}
  \cup {Item(m, i, "kA") : m \in {"GET", "PATCH"}, i \in Spellings}
  \cup {Item("DELETE", "upper", "kA")}
  \cup {Item(m, "lower", "kB") : m \in {"GET", "PATCH"}}

\* Credentials in every combination that authenticate() tells apart.
CredentialRequests ==
  {[Item("PATCH", "lower", c[1]) EXCEPT !.authorization = c[2]] :
     c \in {<<"none", "none">>, <<"none", "malformed">>, <<"none", "jU">>, <<"none", "jAr">>, <<"none", "jA">>,
            <<"k0", "none">>, <<"kA", "jB">>, <<"kA", "jAr">>, <<"kAr", "jA">>, <<"kA", "malformed">>}}

\* Bodies above the limit, however they are announced.
BodyRequests ==
  {[Collection("POST", "kA") EXCEPT !.length = l, !.body = "large"] : l \in {"none", "large", "malformed"}}

\* Paths and ids that lead elsewhere.
OtherRequests ==
       {Plain("GET", p, "junk", "none") : p \in {"/health", "/ready", "/v1/a/b/c/d"}}
  \cup {Plain("GET", "/v1/other", "junk", "kA"), Collection("PUT", "kA"), Item("GET", "junk", "kA")}

MCRequests == DataRequests \cup CredentialRequests \cup BodyRequests \cup OtherRequests

\* A resource that is read in one spelling and updated in the other, so that a read
\* and an update never name the same key of the cache.
RespelledRequests ==
  {Collection("POST", "kA"), Item("GET", "lower", "kA"), Item("PATCH", "upper", "kA")}

\* The workers are alike: no definition or property names one of them.
Sym == Permutations(Threads)
=============================================================================
