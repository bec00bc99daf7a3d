------------------------------- MODULE Listing -------------------------------
(***************************************************************************)
(* Listing the resources of one client page by page while others write.    *)
(*                                                                         *)
(* list_resources_handler and ResourceRepository::list answer one page,    *)
(* newest row first, with a cursor for the next.  Rows are ordered by      *)
(* (updated_at, id); the trigger set_updated_at sets updated_at to now(),  *)
(* the time at which the writing transaction began, so that a transaction  *)
(* that commits late can set a row's time back.                            *)
(*                                                                         *)
(* Rows of other clients never match and are left out; kind cannot change  *)
(* and filters like status.  A walk is a client's sequence of requests     *)
(* with one filter, each with the cursor of the page before.               *)
(***************************************************************************)
EXTENDS CursorCodec

CONSTANTS
  Ids,       \* UUIDs, as numbers: PostgreSQL orders them
  Statuses,  \* values of the column status
  Writers,   \* connections that run writing transactions
  Limits,    \* values of the query parameter limit
  MaxPage,   \* 200 in the code
  MaxTime    \* bound on the clock

ASSUME IdAssumption == IsFiniteSet(Ids) /\ Ids \subseteq Int /\ Ids = DOMAIN IdText
ASSUME TimeAssumption == MaxTime \in Nat \ {0} /\ 1..MaxTime = DOMAIN TimeText
ASSUME LimitAssumption == Limits \subseteq Int /\ MaxPage \in Nat \ {0}

VARIABLES
  rows,      \* the table resources: at is updated_at
  clock,     \* the clock of PostgreSQL
  began,     \* now() of each writer's transaction, 0 when it has none
  walk,      \* "idle", "walking" or "done"
  filter,    \* the status asked for, or "any"
  cursor,    \* next_cursor of the last page, <<>> before the first
  page,      \* positions of the rows in the last page
  seen,      \* positions of the rows in the pages before
  still,     \* history: ids in the table and not written since the walk began
  overtaken  \* history: ids whose updated_at was set back since then

table   == <<rows, clock, began>>
request == <<walk, filter, cursor, page, seen>>
history == <<still, overtaken>>
vars    == <<table, request, history>>

NoRow == [live |-> FALSE, at |-> 0, status |-> "none"]
Gone  == [live |-> FALSE, at |-> 0, status |-> "gone"]

Position(i) == [at |-> rows[i].at, id |-> i]

\* (updated_at, id) > (updated_at, id)
Newer(p, q) == p.at > q.at \/ (p.at = q.at /\ p.id > q.id)

Init ==
  /\ rows = [i \in Ids |-> NoRow]
  /\ clock = 1
  /\ began = [w \in Writers |-> 0]
  /\ walk = "idle" /\ filter = "any" /\ cursor = <<>>
  /\ page = {} /\ seen = {}
  /\ still = {} /\ overtaken = {}

-----------------------------------------------------------------------------
(* Writing *)

\* pqxx::work txn(conn.get()) sends BEGIN.
Begin(w) ==
  /\ began[w] = 0
  /\ began' = [began EXCEPT ![w] = clock]
  /\ UNCHANGED <<rows, clock, request, history>>

\* The transaction of w commits with row i as r.
Commits(w, i, r) ==
  /\ rows' = [rows EXCEPT ![i] = r]
  /\ began' = [began EXCEPT ![w] = 0]
  /\ still' = still \ {i}
  /\ overtaken' = IF r.live /\ r.at < rows[i].at THEN overtaken \cup {i} ELSE overtaken
  /\ UNCHANGED <<clock, request>>

\* create: a new UUID; created_at and updated_at default to now().
Create(w) ==
  /\ began[w] > 0
  /\ \E i \in Ids, s \in Statuses :
       /\ rows[i] = NoRow
       /\ Commits(w, i, [live |-> TRUE, at |-> began[w], status |-> s])

\* update: any of name, status and metadata; the trigger sets updated_at.
Update(w) ==
  /\ began[w] > 0
  /\ \E i \in Ids, s \in Statuses :
       /\ rows[i].live
       /\ Commits(w, i, [live |-> TRUE, at |-> began[w], status |-> s])

Remove(w) ==
  /\ began[w] > 0
  /\ \E i \in Ids : rows[i].live /\ Commits(w, i, Gone)

\* A name that exists, no such row, or a failure: nothing is written.
Abandon(w) ==
  /\ began[w] > 0
  /\ began' = [began EXCEPT ![w] = 0]
  /\ UNCHANGED <<rows, clock, request, history>>

Tick ==
  /\ clock < MaxTime
  /\ clock' = clock + 1
  /\ UNCHANGED <<rows, began, request, history>>

-----------------------------------------------------------------------------
(* Listing *)

\* WHERE status = ...
Matches(i) == rows[i].live /\ filter \in {"any", rows[i].status}

\* Wrong: (updated_at, id) <= the cursor's.
After_Inclusive(p, c) == c = <<>> \/ ~Newer(p, decode_cursor(c))

\* Wrong: updated_at alone is compared.
After_TimeOnly(p, c) == c = <<>> \/ p.at < decode_cursor(c).at

\* (updated_at, id) < the cursor's, if there is one.
After(p, c) == c = <<>> \/ Newer(decode_cursor(c), p)

\* ORDER BY updated_at DESC, id DESC LIMIT n
First(n, S) == {p \in S : Cardinality({q \in S : Newer(q, p)}) < n}

\* Wrong: no lower bound.
PageSize_Unclamped(limit) == IF limit > MaxPage THEN MaxPage ELSE limit

\* std::clamp(filter.limit, 1, 200)
PageSize(limit) == IF limit < 1 THEN 1 ELSE IF limit > MaxPage THEN MaxPage ELSE limit

\* The rows that the WHERE clause leaves.
Selected == {Position(i) : i \in {j \in Ids : Matches(j) /\ After(Position(j), cursor)}}

\* The SELECT asks for one row more than the page holds.
Result(limit) == First(PageSize(limit) + 1, Selected)

\* A client begins to list.
StartWalk ==
  /\ walk # "walking"
  /\ walk' = "walking"
  /\ filter' \in Statuses \cup {"any"}
  /\ cursor' = <<>>
  /\ page' = {} /\ seen' = {}
  /\ still' = {i \in Ids : rows[i].live}
  /\ overtaken' = {}
  /\ UNCHANGED table

\* Wrong: items.front().
Back_Front(items) == CHOOSE p \in items : \A q \in items : ~Newer(q, p)

\* items.back()
Back(items) == CHOOSE p \in items : \A q \in items : ~Newer(p, q)

\* Wrong: a page with a single row gets no cursor.
NextCursor_NotForOne(items) ==
  IF Cardinality(items) < 2 THEN <<>> ELSE encode_cursor(Back(items))

\* next_cursor of a page that has_more is set for.
NextCursor(items) == IF items = {} THEN <<>> ELSE encode_cursor(Back(items))

\* One page.  The SELECT sees one snapshot of the table.
ListPage(limit) ==
  /\ walk = "walking"
  /\ cursor = <<>> \/ ~Malformed(cursor)
  /\ LET result == Result(limit)
         items  == First(PageSize(limit), result)
     IN  /\ page' = items
         /\ seen' = seen \cup page
         /\ IF Cardinality(result) > PageSize(limit)
              THEN cursor' = NextCursor(items) /\ UNCHANGED walk
              ELSE walk' = "done" /\ UNCHANGED cursor
  /\ UNCHANGED <<table, filter, history>>

\* An answer other than 200 (a limit that is no integer, a cursor that was
\* tampered with, an exception), after which the client gives up.
ListFails ==
  /\ walk = "walking"
  /\ walk' = "idle"
  /\ UNCHANGED <<table, filter, cursor, page, seen, history>>

-----------------------------------------------------------------------------

Write(w) == Create(w) \/ Update(w) \/ Remove(w) \/ Abandon(w)

List == \E limit \in Limits : ListPage(limit)

Next == \/ \E w \in Writers : Begin(w) \/ Write(w)
        \/ Tick
        \/ StartWalk \/ List \/ ListFails

Spec == Init /\ [][Next]_vars

-----------------------------------------------------------------------------
(* Properties *)

Positions == [at : 1..MaxTime, id : Ids]

Cursors == {<<>>} \cup {encode_cursor(p) : p \in Positions}

TypeOK ==
  /\ rows \in [Ids -> [live : {TRUE}, at : 1..MaxTime, status : Statuses] \cup {NoRow, Gone}]
  /\ clock \in 1..MaxTime
  /\ began \in [Writers -> 0..clock]
  /\ walk \in {"idle", "walking", "done"}
  /\ filter \in Statuses \cup {"any"}
  /\ page \subseteq Positions /\ seen \subseteq Positions
  /\ cursor \in Cursors
  /\ walk = "walking" /\ page # {} => cursor # <<>>
  /\ still \subseteq Ids /\ overtaken \subseteq Ids

Listed == {p.id : p \in seen \cup page}

\* No row that keeps still while a client walks through the pages is left out,
\* wherever the pages break, whatever is written meanwhile and whether or not
\* rows share a time: it has been listed, or lies behind the cursor.
StillRowsAreListed ==
  walk # "idle" => \A i \in still :
    Matches(i) => i \in Listed \/ (walk = "walking" /\ After(Position(i), cursor))

\* A row is listed twice in one walk only if a transaction that began earlier
\* but committed later set its updated_at back.
RepeatedOnlyWhenOvertaken ==
  \A p \in page, q \in seen : p.id = q.id => p.id \in overtaken

\* Every page lies wholly behind the pages before it, rows with the same time
\* included: the cursor moves with every page, so that a walk over a table of
\* any size comes to an end whatever is written meanwhile.
PagesDescend == \A p \in page, q \in seen : Newer(q, p)

\* A page of the walk is answered in this step.
Answers == walk = "walking" /\ walk' # "idle" /\ UNCHANGED table

\* has_more says exactly whether rows that match were left behind the page,
\* and the cursor that comes with it is one that list() accepts.
HasMoreIsExact ==
  [][Answers =>
       /\ (walk' = "walking") = \E i \in Ids : /\ Matches(i)
                                               /\ After(Position(i), cursor)
                                               /\ \A p \in page' : Newer(p, Position(i))
       /\ walk' = "walking" => ~Malformed(cursor')]_vars

=============================================================================
