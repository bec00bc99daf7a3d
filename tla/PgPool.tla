------------------------------- MODULE PgPool -------------------------------
(***************************************************************************)
(* corvus::db::PgPool: the PostgreSQL connection pool shared by the HTTP   *)
(* worker threads (src/src/db/pg_pool.cpp).                                *)
(*                                                                         *)
(* A thread that calls acquire() takes mutex_, goes round the loop of      *)
(* acquire() and leaves with a connection, with an exception, or into      *)
(* cv_.wait_until, which gives mutex_ up.  return_connection() takes       *)
(* mutex_, gives the connection or its slot back, and notifies one waiter  *)
(* after mutex_ is free again.  make_connection() runs with mutex_ held.   *)
(*                                                                         *)
(* A connection is "ok" or "severed" (the server closed its end).          *)
(* is_open() reports the client's own view: it is TRUE of an ok            *)
(* connection and may be TRUE or FALSE of a severed one.                   *)
(*                                                                         *)
(* Definitions named X_... after a definition X are wrong versions of it   *)
(* that the properties are shown to reject; no specification uses them.    *)
(***************************************************************************)
EXTENDS Naturals, Sequences, FiniteSets

CONSTANTS Threads,          \* threads that use the pool
          MinConnections,   \* PoolConfig::min_connections
          MaxConnections,   \* PoolConfig::max_connections
          NoOne             \* nobody holds mutex_

ASSUME ThreadsFinite == IsFiniteSet(Threads) /\ NoOne \notin Threads
ASSUME ConfigAccepted == /\ MinConnections \in Nat \ {0}
                         /\ MaxConnections \in Nat
                         /\ MaxConnections >= MinConnections

VARIABLES
  idle,       \* idle_: the queue of connections nobody holds
  total,      \* total_: connections the pool accounts for
  mutex,      \* the thread that holds mutex_, or NoOne
  pc,         \* where each thread is
  held,       \* the connection inside each thread's PgConnection
  expired,    \* the deadline of the thread's acquire() has passed
  token,      \* the thread was taken out of the wait by notify_one
  up,         \* PostgreSQL accepts connections
  swallowed   \* history: a notified thread left by an exception

vars == <<idle, total, mutex, pc, held, expired, token, up, swallowed>>

Conns == {"ok", "severed"}

\* "enter": blocked on mutex_ in acquire(); "loop": inside the loop, holding
\* mutex_; "waiting": asleep in cv_; "waking": out of cv_, blocked on mutex_;
\* "notify": in return_connection(), between the unlock and notify_one().
Places == {"out", "enter", "loop", "waiting", "waking", "holding", "notify"}

Init == /\ idle = [i \in 1..MinConnections |-> "ok"]
        /\ total = MinConnections
        /\ mutex = NoOne
        /\ pc = [t \in Threads |-> "out"]
        /\ held = [t \in Threads |-> "none"]
        /\ expired = [t \in Threads |-> FALSE]
        /\ token = [t \in Threads |-> FALSE]
        /\ up = TRUE
        /\ swallowed = FALSE

\* What conn->is_open() may answer.
IsOpen(c) == IF c = "ok" THEN {TRUE} ELSE BOOLEAN

-----------------------------------------------------------------------------
(* acquire() *)

Call(t) ==
  /\ pc[t] = "out"
  /\ pc' = [pc EXCEPT ![t] = "enter"]
  /\ UNCHANGED <<idle, total, mutex, held, expired, token, up, swallowed>>

\* unique_lock, then the deadline is computed.
Lock(t) ==
  /\ pc[t] = "enter"
  /\ mutex = NoOne
  /\ mutex' = t
  /\ pc' = [pc EXCEPT ![t] = "loop"]
  /\ expired' = [expired EXCEPT ![t] = FALSE]
  /\ UNCHANGED <<idle, total, held, token, up, swallowed>>

\* acquire() returns a PgConnection around c and mutex_ is released.
LeaveWith(t, c) ==
  /\ held' = [held EXCEPT ![t] = c]
  /\ pc' = [pc EXCEPT ![t] = "holding"]
  /\ mutex' = NoOne
  /\ token' = [token EXCEPT ![t] = FALSE]
  /\ UNCHANGED <<expired, up, swallowed>>

\* acquire() leaves by an exception; a notification it consumed dies with it.
Throw(t) ==
  /\ pc' = [pc EXCEPT ![t] = "out"]
  /\ mutex' = NoOne
  /\ token' = [token EXCEPT ![t] = FALSE]
  /\ swallowed' = (swallowed \/ token[t])
  /\ UNCHANGED <<idle, total, held, expired, up>>

\* The front of idle_ is handed out as it is.
TakeIdle(t) ==
  /\ pc[t] = "loop"
  /\ idle # <<>>
  /\ TRUE \in IsOpen(Head(idle))
  /\ idle' = Tail(idle)
  /\ UNCHANGED total
  /\ LeaveWith(t, Head(idle))

\* The front of idle_ is found closed and a new connection takes its place.
ReplaceDead(t) ==
  /\ pc[t] = "loop"
  /\ idle # <<>>
  /\ FALSE \in IsOpen(Head(idle))
  /\ up
  /\ idle' = Tail(idle)
  /\ UNCHANGED total
  /\ LeaveWith(t, "ok")

\* Wrong: the slot of a connection that could not be replaced stays taken.
DropDead_KeepsSlot(t) ==
  /\ pc[t] = "loop"
  /\ idle # <<>>
  /\ FALSE \in IsOpen(Head(idle))
  /\ ~up
  /\ idle' = Tail(idle)
  /\ UNCHANGED <<total, mutex, pc, held, expired, token, up, swallowed>>

\* ... or cannot be replaced: its slot is given up and the loop goes on,
\* mutex_ still held.
DropDead(t) ==
  /\ pc[t] = "loop"
  /\ idle # <<>>
  /\ FALSE \in IsOpen(Head(idle))
  /\ ~up
  /\ idle' = Tail(idle)
  /\ total' = total - 1
  /\ UNCHANGED <<mutex, pc, held, expired, token, up, swallowed>>

Grow(t) ==
  /\ pc[t] = "loop"
  /\ idle = <<>>
  /\ total < MaxConnections
  /\ up
  /\ total' = total + 1
  /\ UNCHANGED idle
  /\ LeaveWith(t, "ok")

\* make_connection() throws DbConfigError out of acquire().
GrowFails(t) ==
  /\ pc[t] = "loop"
  /\ idle = <<>>
  /\ total < MaxConnections
  /\ ~up
  /\ Throw(t)

\* cv_.wait_until gives mutex_ up.
Wait(t) ==
  /\ pc[t] = "loop"
  /\ idle = <<>>
  /\ total >= MaxConnections
  /\ pc' = [pc EXCEPT ![t] = "waiting"]
  /\ mutex' = NoOne
  /\ token' = [token EXCEPT ![t] = FALSE]
  /\ UNCHANGED <<idle, total, held, expired, up, swallowed>>

DeadlinePasses(t) ==
  /\ pc[t] \in {"loop", "waiting", "waking"}
  /\ ~expired[t]
  /\ expired' = [expired EXCEPT ![t] = TRUE]
  /\ UNCHANGED <<idle, total, mutex, pc, held, token, up, swallowed>>

\* The sleeper wakes by itself: at its deadline, or spuriously.
Awake(t) ==
  /\ pc[t] = "waiting"
  /\ pc' = [pc EXCEPT ![t] = "waking"]
  /\ UNCHANGED <<idle, total, mutex, held, expired, token, up, swallowed>>

AwakeAtDeadline(t) == expired[t] /\ Awake(t)

\* Wrong: a timeout goes round the loop again.
RelockExpired_Retries(t) ==
  /\ pc[t] = "waking"
  /\ mutex = NoOne
  /\ expired[t]
  /\ mutex' = t
  /\ pc' = [pc EXCEPT ![t] = "loop"]
  /\ UNCHANGED <<idle, total, held, expired, token, up, swallowed>>

\* wait_until compares the clock with the deadline after it has mutex_ again:
\* a thread that was notified in time may still report a timeout, and then
\* throws DbPoolExhausted without looking at idle_ or total_.
RelockExpired(t) ==
  /\ pc[t] = "waking"
  /\ mutex = NoOne
  /\ expired[t]
  /\ Throw(t)

Relock(t) ==
  /\ pc[t] = "waking"
  /\ mutex = NoOne
  /\ ~expired[t]
  /\ mutex' = t
  /\ pc' = [pc EXCEPT ![t] = "loop"]
  /\ UNCHANGED <<idle, total, held, expired, token, up, swallowed>>

-----------------------------------------------------------------------------
(* return_connection(), run by the destructor of PgConnection *)

ReturnOpen(t) ==
  /\ pc[t] = "holding"
  /\ mutex = NoOne
  /\ TRUE \in IsOpen(held[t])
  /\ idle' = Append(idle, held[t])
  /\ held' = [held EXCEPT ![t] = "none"]
  /\ pc' = [pc EXCEPT ![t] = "notify"]
  /\ UNCHANGED <<total, mutex, expired, token, up, swallowed>>

\* Wrong: only a connection put back into idle_ is announced.
ReturnClosed_Silent(t) ==
  /\ pc[t] = "holding"
  /\ mutex = NoOne
  /\ FALSE \in IsOpen(held[t])
  /\ total' = total - 1
  /\ held' = [held EXCEPT ![t] = "none"]
  /\ pc' = [pc EXCEPT ![t] = "out"]
  /\ UNCHANGED <<idle, mutex, expired, token, up, swallowed>>

\* Wrong: the slot of a closed connection is not given back.
ReturnClosed_KeepsSlot(t) ==
  /\ pc[t] = "holding"
  /\ mutex = NoOne
  /\ FALSE \in IsOpen(held[t])
  /\ held' = [held EXCEPT ![t] = "none"]
  /\ pc' = [pc EXCEPT ![t] = "notify"]
  /\ UNCHANGED <<idle, total, mutex, expired, token, up, swallowed>>

ReturnClosed(t) ==
  /\ pc[t] = "holding"
  /\ mutex = NoOne
  /\ FALSE \in IsOpen(held[t])
  /\ total' = total - 1
  /\ held' = [held EXCEPT ![t] = "none"]
  /\ pc' = [pc EXCEPT ![t] = "notify"]
  /\ UNCHANGED <<idle, mutex, expired, token, up, swallowed>>

Waiting == {w \in Threads : pc[w] = "waiting"}

\* cv_.notify_one(), with mutex_ already released.
NotifyOne(t, w) ==
  /\ pc[t] = "notify"
  /\ w \in Waiting
  /\ pc' = [pc EXCEPT ![t] = "out", ![w] = "waking"]
  /\ token' = [token EXCEPT ![w] = TRUE]
  /\ UNCHANGED <<idle, total, mutex, held, expired, up, swallowed>>

NotifyNobody(t) ==
  /\ pc[t] = "notify"
  /\ Waiting = {}
  /\ pc' = [pc EXCEPT ![t] = "out"]
  /\ UNCHANGED <<idle, total, mutex, held, expired, token, up, swallowed>>

Notify(t) == NotifyNobody(t) \/ \E w \in Threads : NotifyOne(t, w)

-----------------------------------------------------------------------------
(* The PostgreSQL server: going down severs every connection. *)

Severed(c) == IF c = "ok" THEN "severed" ELSE c

ServerDown ==
  /\ up
  /\ up' = FALSE
  /\ idle' = [i \in 1..Len(idle) |-> Severed(idle[i])]
  /\ held' = [t \in Threads |-> Severed(held[t])]
  /\ UNCHANGED <<total, mutex, pc, expired, token, swallowed>>

ServerUp ==
  /\ ~up
  /\ up' = TRUE
  /\ UNCHANGED <<idle, total, mutex, pc, held, expired, token, swallowed>>

-----------------------------------------------------------------------------

Loop(t) == \/ TakeIdle(t) \/ ReplaceDead(t) \/ DropDead(t)
           \/ Grow(t) \/ GrowFails(t) \/ Wait(t)

Return(t) == ReturnOpen(t) \/ ReturnClosed(t)

Next == \/ \E t \in Threads :
             \/ Call(t) \/ Lock(t) \/ Loop(t)
             \/ DeadlinePasses(t) \/ Awake(t) \/ RelockExpired(t) \/ Relock(t)
             \/ Return(t) \/ Notify(t)
        \/ ServerDown
        \/ ServerUp

Spec == Init /\ [][Next]_vars

\* What a thread does by itself once it has called acquire() or holds a
\* connection.
Step(t) == \/ Lock(t) \/ Loop(t) \/ AwakeAtDeadline(t)
           \/ Relock(t) \/ RelockExpired(t) \/ Return(t) \/ Notify(t)

\* Such a thread keeps being scheduled (it gets mutex_ at last when it finds it
\* free again and again, and its handler gives the connection back), and its
\* deadline passes.  Nothing makes a thread call acquire() and nothing brings the
\* server up or down.
Fairness == \A t \in Threads : SF_vars(Step(t)) /\ WF_vars(DeadlinePasses(t))

FairSpec == Spec /\ Fairness

-----------------------------------------------------------------------------

\* Every variable keeps the type the fields of PgPool have.
TypeOK == /\ idle \in Seq(Conns)
          /\ total \in Nat
          /\ mutex \in Threads \cup {NoOne}
          /\ pc \in [Threads -> Places]
          /\ held \in [Threads -> Conns \cup {"none"}]
          /\ expired \in [Threads -> BOOLEAN]
          /\ token \in [Threads -> BOOLEAN]
          /\ up \in BOOLEAN
          /\ swallowed \in BOOLEAN

Holders == {t \in Threads : held[t] # "none"}

\* mutex_ belongs to the one thread inside the loop, and a thread has a
\* connection exactly while it is outside acquire() and return_connection().
LockDiscipline == /\ \A t \in Threads : pc[t] = "loop" <=> mutex = t
                  /\ \A t \in Threads : held[t] # "none" <=> pc[t] = "holding"
                  /\ \A t \in Threads : token[t] => pc[t] \in {"waking", "loop"}

\* total_ counts exactly the connections that exist (queued or handed out), so
\* that --total_ never wraps a size_t, and never more than max_connections,
\* whatever failed in acquire() and return_connection().
Accounting == /\ total = Len(idle) + Cardinality(Holders)
              /\ total <= MaxConnections

\* A thread goes to sleep only while max_connections connections are in the
\* hands of others: no slot is ever lost to an outage, a failed replacement or a
\* closed connection.
WaitsOnlyWhenAllAreHeld ==
  [][\A t \in Threads : (pc[t] = "loop" /\ pc'[t] = "waiting")
                           => Cardinality(Holders) = MaxConnections]_vars

\* With no more threads than max_connections, and each holding one connection
\* at a time, no acquire() ever waits, so DbPoolExhausted cannot be thrown.
WaitsOnlyWhenOversubscribed ==
  (\E t \in Threads : pc[t] \in {"waiting", "waking"})
     => Cardinality(Threads) > MaxConnections

\* Connections a thread could get without waiting: queued ones and free slots.
Available == Len(idle) + (MaxConnections - total)

\* Wake-ups on their way: a notify_one() still to be called, or a notified
\* thread that has not been round the loop yet.
WakeUps == {t \in Threads : token[t] \/ pc[t] = "notify"}

\* While threads sleep in cv_, each available connection or slot has a wake-up
\* on its way, unless a notified thread threw its notification away (its
\* deadline passed before it had mutex_ again, or its make_connection threw).
NoLostWakeUp ==
  (~swallowed /\ Waiting # {}) => Cardinality(WakeUps) >= Available

\* Every acquire() ends, with a connection or with an exception, even when the
\* server goes down for good and whatever other threads do with the pool.
AcquireEnds ==
  \A t \in Threads : pc[t] = "enter" ~> pc[t] \in {"holding", "out"}

=============================================================================
