---------------------------- MODULE PgPoolProofs ----------------------------
(***************************************************************************)
(* Proofs about PgPool, for every set of threads and every accepted pool   *)
(* configuration.                                                          *)
(***************************************************************************)
EXTENDS PgPool, FiniteSetTheorems, TLAPS

\* The inductive invariant: the accounting is only preserved together with the
\* discipline of mutex_ and of the handed-out connections.
Inv == TypeOK /\ LockDiscipline /\ Accounting

-----------------------------------------------------------------------------
(* The set of holders, and how one thread's connection changes its size. *)

\* Finitely many threads hold finitely many connections.
LEMMA HoldersFinite ==
  /\ IsFiniteSet(Holders)
  /\ Cardinality(Holders) \in Nat
  /\ Cardinality(Threads) \in Nat
<1>1. Holders \subseteq Threads
  BY DEF Holders
<1>2. IsFiniteSet(Holders) /\ Cardinality(Threads) \in Nat
  BY <1>1, ThreadsFinite, FS_Subset, FS_CardinalityType
<1>3. QED
  BY <1>2, FS_CardinalityType

\* Handing a connection to a thread adds one holder.
LEMMA HoldersGain ==
  ASSUME TypeOK, NEW t \in Threads, NEW c \in Conns, held[t] = "none",
         held' = [held EXCEPT ![t] = c]
  PROVE  Cardinality(Holders') = Cardinality(Holders) + 1
<1>1. t \notin Holders
  BY DEF Holders
<1>2. Holders' = Holders \cup {t}
  BY DEF Holders, TypeOK, Conns
<1>3. QED
  BY <1>1, <1>2, HoldersFinite, FS_AddElement

\* Taking it back removes one.
LEMMA HoldersLose ==
  ASSUME TypeOK, NEW t \in Threads, held[t] # "none",
         held' = [held EXCEPT ![t] = "none"]
  PROVE  Cardinality(Holders') = Cardinality(Holders) - 1
<1>1. t \in Holders
  BY DEF Holders
<1>2. Holders' = Holders \ {t}
  BY DEF Holders, TypeOK, Conns
<1>3. QED
  BY <1>1, <1>2, HoldersFinite, FS_RemoveElement

-----------------------------------------------------------------------------
(* Types *)

\* The queue the constructor fills.
LEMMA QueueOfOnes ==
  ASSUME NEW n \in Nat, NEW S, NEW q, q = [i \in 1..n |-> "ok"], "ok" \in S
  PROVE  q \in Seq(S) /\ Len(q) = n
  OBVIOUS

\* What front() and pop() leave of the queue.
LEMMA HeadAndTail ==
  ASSUME NEW S, NEW q \in Seq(S), q # <<>>
  PROVE  Head(q) \in S /\ Tail(q) \in Seq(S) /\ Len(Tail(q)) = Len(q) - 1
  OBVIOUS

\* An outage changes the connections in the queue, not their number.
LEMMA SeveredQueue ==
  ASSUME NEW q \in Seq(Conns)
  PROVE  /\ [i \in 1..Len(q) |-> Severed(q[i])] \in Seq(Conns)
         /\ Len([i \in 1..Len(q) |-> Severed(q[i])]) = Len(q)
<1>1. \A i \in 1..Len(q) : Severed(q[i]) \in Conns
  BY DEF Severed, Conns
<1>2. QED
  BY <1>1

\* The pool the constructor builds satisfies the invariant.
LEMMA InvInit == Init => Inv
<1> SUFFICES ASSUME Init PROVE Inv
  OBVIOUS
<1>1. idle \in Seq(Conns) /\ Len(idle) = total /\ total \in Nat
  BY ConfigAccepted, QueueOfOnes DEF Init, Conns
<1>2. TypeOK
  BY <1>1 DEF Init, TypeOK, Places
<1>3. LockDiscipline
  BY ThreadsFinite DEF Init, LockDiscipline
<1>4. Holders = {}
  BY DEF Init, Holders
<1>5. Accounting
  BY <1>1, <1>4, FS_EmptySet, ConfigAccepted DEF Init, Accounting
<1>6. QED
  BY <1>2, <1>3, <1>5 DEF Inv

\* The steps that leave idle_, total_ and every connection where they are.
LEMMA AccountingKept ==
  ASSUME Inv, UNCHANGED <<idle, total, held>>
  PROVE  Accounting'
  BY DEF Inv, Accounting, Holders

\* Every step of a thread, of the clock or of the server preserves it.
LEMMA InvStep == Inv /\ [Next]_vars => Inv'
<1> SUFFICES ASSUME Inv, [Next]_vars PROVE Inv'
  OBVIOUS
<1> USE DEF Inv
<1>1. ASSUME NEW t \in Threads,
             Call(t) \/ Lock(t) \/ Wait(t) \/ DeadlinePasses(t) \/ Awake(t)
               \/ Relock(t) \/ NotifyNobody(t)
      PROVE Inv'
  <2>1. TypeOK'
    BY <1>1 DEF TypeOK, Places, Call, Lock, Wait, DeadlinePasses, Awake, Relock, NotifyNobody
  <2>2. LockDiscipline'
    BY <1>1, ThreadsFinite
       DEF TypeOK, LockDiscipline, Call, Lock, Wait, DeadlinePasses, Awake, Relock, NotifyNobody
  <2>3. Accounting'
    BY <1>1, AccountingKept DEF Call, Lock, Wait, DeadlinePasses, Awake, Relock, NotifyNobody
  <2>4. QED
    BY <2>1, <2>2, <2>3
<1>2. ASSUME NEW t \in Threads, GrowFails(t) \/ RelockExpired(t)
      PROVE Inv'
  <2>1. TypeOK'
    BY <1>2 DEF TypeOK, Places, GrowFails, RelockExpired, Throw
  <2>2. LockDiscipline'
    BY <1>2, ThreadsFinite DEF TypeOK, LockDiscipline, GrowFails, RelockExpired, Throw
  <2>3. Accounting'
    BY <1>2, AccountingKept DEF GrowFails, RelockExpired, Throw
  <2>4. QED
    BY <2>1, <2>2, <2>3
<1>3. ASSUME NEW t \in Threads, NEW c \in Conns, pc[t] = "loop", LeaveWith(t, c),
             idle' \in Seq(Conns), total' \in Nat,
             total' - Len(idle') = total - Len(idle) + 1, total' <= MaxConnections
      PROVE Inv'
  <2>1. TypeOK'
    BY <1>3 DEF TypeOK, Places, LeaveWith
  <2>2. LockDiscipline'
    BY <1>3, ThreadsFinite DEF TypeOK, LockDiscipline, LeaveWith, Conns
  <2>3. Cardinality(Holders') = Cardinality(Holders) + 1
    BY <1>3, HoldersGain DEF LeaveWith, LockDiscipline
  <2>4. Accounting'
    BY <1>3, <2>3, HoldersFinite DEF TypeOK, Accounting
  <2>5. QED
    BY <2>1, <2>2, <2>4
<1>4. ASSUME NEW t \in Threads, TakeIdle(t) PROVE Inv'
  BY <1>3, <1>4, HeadAndTail DEF TakeIdle, TypeOK, Accounting
<1>5. ASSUME NEW t \in Threads, ReplaceDead(t) PROVE Inv'
  <2>1. "ok" \in Conns
    BY DEF Conns
  <2>2. QED
    BY <2>1, <1>3, <1>5, HeadAndTail DEF ReplaceDead, TypeOK, Accounting
<1>6. ASSUME NEW t \in Threads, Grow(t) PROVE Inv'
  <2>1. "ok" \in Conns
    BY DEF Conns
  <2>2. QED
    BY <2>1, <1>3, <1>6, ConfigAccepted DEF Grow, TypeOK, Accounting
<1>7. ASSUME NEW t \in Threads, DropDead(t) PROVE Inv'
  <2>1. /\ idle' \in Seq(Conns) /\ Len(idle') = Len(idle) - 1
        /\ Len(idle) \in Nat /\ Len(idle') \in Nat
    BY <1>7, HeadAndTail DEF DropDead, TypeOK
  <2>2. Holders' = Holders
    BY <1>7 DEF DropDead, Holders
  <2>3. total' \in Nat /\ Accounting'
    BY <1>7, <2>1, <2>2, HoldersFinite, ConfigAccepted DEF DropDead, TypeOK, Accounting
  <2>4. TypeOK' /\ LockDiscipline'
    BY <1>7, <2>1, <2>3 DEF DropDead, TypeOK, LockDiscipline
  <2>5. QED
    BY <2>3, <2>4
<1>8. ASSUME NEW t \in Threads, Return(t) PROVE Inv'
  <2>1. held[t] \in Conns /\ held[t] # "none"
    BY <1>8 DEF Return, ReturnOpen, ReturnClosed, TypeOK, LockDiscipline, Conns
  <2>2. Cardinality(Holders') = Cardinality(Holders) - 1
    BY <1>8, <2>1, HoldersLose DEF Return, ReturnOpen, ReturnClosed
  <2>3. Cardinality(Holders) >= 1
    <3>1. t \in Holders
      BY <2>1 DEF Holders
    <3>2. QED
      BY <3>1, HoldersFinite, FS_EmptySet
  <2>4. LockDiscipline'
    <3>1. /\ pc[t] = "holding" /\ pc' = [pc EXCEPT ![t] = "notify"]
          /\ held' = [held EXCEPT ![t] = "none"]
          /\ UNCHANGED <<mutex, token>>
      BY <1>8 DEF Return, ReturnOpen, ReturnClosed
    <3>2. \A u \in Threads : /\ pc'[u] = IF u = t THEN "notify" ELSE pc[u]
                            /\ held'[u] = IF u = t THEN "none" ELSE held[u]
      BY <3>1 DEF TypeOK
    <3>3. QED
      BY <3>1, <3>2 DEF LockDiscipline
  <2>5. CASE ReturnOpen(t)
    <3>1. idle' \in Seq(Conns) /\ Len(idle') = Len(idle) + 1
      BY <2>1, <2>5 DEF ReturnOpen, TypeOK
    <3>2. TypeOK'
      BY <2>5, <3>1 DEF ReturnOpen, TypeOK, Places
    <3>3. Accounting'
      BY <2>2, <2>5, <3>1, HoldersFinite DEF ReturnOpen, TypeOK, Accounting
    <3>4. QED
      BY <2>4, <3>2, <3>3
  <2>6. CASE ReturnClosed(t)
    <3>1. total' \in Nat /\ Accounting'
      BY <2>2, <2>3, <2>6, HoldersFinite, ConfigAccepted DEF ReturnClosed, TypeOK, Accounting
    <3>2. TypeOK'
      BY <2>6, <3>1 DEF ReturnClosed, TypeOK, Places
    <3>3. QED
      BY <2>4, <3>1, <3>2
  <2>7. QED
    BY <1>8, <2>5, <2>6 DEF Return
<1>9. ASSUME NEW t \in Threads, NEW w \in Threads, NotifyOne(t, w) PROVE Inv'
  <2>1. TypeOK'
    BY <1>9 DEF TypeOK, Places, NotifyOne
  <2>2. LockDiscipline'
    BY <1>9 DEF TypeOK, LockDiscipline, NotifyOne, Waiting
  <2>3. QED
    BY <1>9, <2>1, <2>2, AccountingKept DEF NotifyOne
<1>10. ASSUME ServerDown PROVE Inv'
  <2>1. idle' \in Seq(Conns) /\ Len(idle') = Len(idle)
    BY <1>10, SeveredQueue DEF ServerDown, TypeOK
  <2>2. \A t \in Threads : /\ held'[t] \in Conns \cup {"none"}
                           /\ held'[t] # "none" <=> held[t] # "none"
    BY <1>10 DEF ServerDown, TypeOK, Severed, Conns
  <2>3. Holders' = Holders
    BY <2>2 DEF Holders
  <2>4. TypeOK'
    BY <1>10, <2>1, <2>2 DEF ServerDown, TypeOK
  <2>5. LockDiscipline'
    BY <1>10, <2>2 DEF ServerDown, LockDiscipline
  <2>6. QED
    BY <1>10, <2>1, <2>3, <2>4, <2>5 DEF ServerDown, Accounting
<1>11. ASSUME ServerUp PROVE Inv'
  BY <1>11, AccountingKept DEF ServerUp, TypeOK, LockDiscipline
<1>12. CASE UNCHANGED vars
  BY <1>12, AccountingKept DEF vars, TypeOK, LockDiscipline
<1>13. QED
  BY <1>1, <1>2, <1>4, <1>5, <1>6, <1>7, <1>8, <1>9, <1>10, <1>11, <1>12
     DEF Next, Loop, Notify

\* The inductive invariant holds in every reachable state of the pool.
THEOREM PoolInvariant == Spec => []Inv
  BY InvInit, InvStep, PTL DEF Spec

\* Type correctness of PgPool for every configuration.
THEOREM TypeCorrect == Spec => []TypeOK
  BY PoolInvariant, PTL DEF Inv

\* total_ is the number of connections in existence and stays within
\* max_connections, for every number of threads and every configuration.
THEOREM AccountingCorrect == Spec => []Accounting
  BY PoolInvariant, PTL DEF Inv

\* mutex_ has one owner, the thread between the locking and the unlocking of
\* acquire() or return_connection(), and connections are used outside them only.
THEOREM LockKept == Spec => []LockDiscipline
  BY PoolInvariant, PTL DEF Inv

-----------------------------------------------------------------------------
(* Waiting *)

\* A thread sleeps only while all max_connections connections are held: the
\* queue is empty and, by the accounting, total_ counts the holders alone.
THEOREM SleepsOnlyWhenAllAreHeld == Spec => WaitsOnlyWhenAllAreHeld
<1>1. ASSUME Inv, [Next]_vars, NEW t \in Threads, pc[t] = "loop", pc'[t] = "waiting"
      PROVE  Cardinality(Holders) = MaxConnections
  <2>1. idle = <<>> /\ total >= MaxConnections
    BY <1>1 DEF Inv, TypeOK, vars, Next, Call, Lock, Loop, TakeIdle, ReplaceDead, DropDead, Grow,
       GrowFails, Wait, LeaveWith, Throw, DeadlinePasses, Awake, RelockExpired, Relock, Return,
       ReturnOpen, ReturnClosed, Notify, NotifyOne, NotifyNobody, ServerDown, ServerUp
  <2>2. Len(idle) = 0
    BY <2>1
  <2>3. QED
    BY <1>1, <2>1, <2>2, HoldersFinite, ConfigAccepted DEF Inv, TypeOK, Accounting
<1>2. Inv /\ [Next]_vars
        => [\A t \in Threads : (pc[t] = "loop" /\ pc'[t] = "waiting")
                                 => Cardinality(Holders) = MaxConnections]_vars
  BY <1>1
<1>3. QED
  BY <1>2, PoolInvariant, PTL DEF Spec, WaitsOnlyWhenAllAreHeld

\* A pool with a connection per thread never makes a thread wait: a thread
\* that waits has seen max_connections connections in the hands of others.
THEOREM NoWaitWhenAmple == Spec => []WaitsOnlyWhenOversubscribed
<1>1. Init => WaitsOnlyWhenOversubscribed
  BY DEF Init, WaitsOnlyWhenOversubscribed
<1>2. ASSUME Inv, WaitsOnlyWhenOversubscribed, [Next]_vars
      PROVE  WaitsOnlyWhenOversubscribed'
  <2>1. ASSUME NEW t \in Threads, Wait(t) PROVE Cardinality(Threads) > MaxConnections
    <3>1. Cardinality(Holders) >= MaxConnections
      BY <1>2, <2>1, HoldersFinite, ConfigAccepted DEF Wait, Inv, TypeOK, Accounting
    <3>2. t \notin Holders /\ Holders \cup {t} \subseteq Threads
      BY <1>2, <2>1 DEF Wait, Inv, LockDiscipline, Holders
    <3>3. Cardinality(Holders \cup {t}) = Cardinality(Holders) + 1
      BY <3>2, HoldersFinite, FS_AddElement
    <3>4. Cardinality(Holders \cup {t}) <= Cardinality(Threads)
      BY <3>2, ThreadsFinite, FS_Subset
    <3>5. QED
      BY <3>1, <3>3, <3>4, HoldersFinite, ConfigAccepted
  <2>2. ASSUME NEW t \in Threads, NEW w \in Threads, NotifyOne(t, w)
        PROVE  WaitsOnlyWhenOversubscribed'
    BY <1>2, <2>2 DEF NotifyOne, Waiting, WaitsOnlyWhenOversubscribed, Inv, TypeOK
  <2>3. ASSUME NEW t \in Threads,
               \/ Call(t) \/ Lock(t) \/ DeadlinePasses(t) \/ Awake(t) \/ Relock(t)
               \/ NotifyNobody(t) \/ DropDead(t) \/ ReturnOpen(t) \/ ReturnClosed(t)
        PROVE  WaitsOnlyWhenOversubscribed'
    BY <1>2, <2>3 DEF Call, Lock, DeadlinePasses, Awake, Relock, NotifyNobody, DropDead,
         ReturnOpen, ReturnClosed, WaitsOnlyWhenOversubscribed, Inv, TypeOK
  <2>4. ASSUME NEW t \in Threads,
               \/ TakeIdle(t) \/ ReplaceDead(t) \/ Grow(t)
               \/ GrowFails(t) \/ RelockExpired(t)
        PROVE  WaitsOnlyWhenOversubscribed'
    BY <1>2, <2>4 DEF TakeIdle, ReplaceDead, Grow, LeaveWith, GrowFails, RelockExpired, Throw,
         WaitsOnlyWhenOversubscribed, Inv, TypeOK
  <2>5. ASSUME ServerDown \/ ServerUp \/ UNCHANGED vars
        PROVE  WaitsOnlyWhenOversubscribed'
    BY <1>2, <2>5 DEF ServerDown, ServerUp, vars, WaitsOnlyWhenOversubscribed
  <2>6. ASSUME NEW t \in Threads, Wait(t) PROVE WaitsOnlyWhenOversubscribed'
    BY <2>1, <2>6 DEF WaitsOnlyWhenOversubscribed
  <2>7. QED
    BY <1>2, <2>2, <2>3, <2>4, <2>5, <2>6 DEF Next, Loop, Return, Notify
<1>3. QED
  BY <1>1, <1>2, PoolInvariant, PTL DEF Spec

-----------------------------------------------------------------------------
(* Wake-ups *)

\* There are finitely many wake-ups.
LEMMA WakeUpsFinite ==
  IsFiniteSet(WakeUps) /\ Cardinality(WakeUps) \in Nat
<1>1. WakeUps \subseteq Threads
  BY DEF WakeUps
<1>2. QED
  BY <1>1, ThreadsFinite, FS_Subset, FS_CardinalityType

\* By the accounting, Available is a number and not negative.
LEMMA AvailableType == Inv => Available \in Nat
  BY ConfigAccepted DEF Inv, TypeOK, Accounting, Available

\* As long as no notified thread threw, the wake-ups on their way cover what a
\* sleeping thread could have: returns cannot be missed by every sleeper.
THEOREM WakeUpsCoverAvailability == Spec => []NoLostWakeUp
<1>1. Init => NoLostWakeUp
  BY DEF Init, NoLostWakeUp, Waiting
<1>2. ASSUME Inv, Inv', NoLostWakeUp, [Next]_vars
      PROVE  NoLostWakeUp'
  <2> USE <1>2 DEF Inv
  <2>0. Available \in Nat /\ Available' \in Nat /\ Cardinality(WakeUps) \in Nat
    BY AvailableType, WakeUpsFinite, ConfigAccepted DEF TypeOK, Accounting, Available
  <2>1. ASSUME NEW t \in Threads,
               Call(t) \/ Lock(t) \/ DeadlinePasses(t) \/ Awake(t) \/ Relock(t)
        PROVE  NoLostWakeUp'
    <3>1. /\ WakeUps' = WakeUps /\ Waiting' \subseteq Waiting
          /\ UNCHANGED <<idle, total, swallowed>>
      BY <2>1 DEF Call, Lock, DeadlinePasses, Awake, Relock, WakeUps, Waiting, TypeOK
    <3>2. QED
      BY <3>1 DEF NoLostWakeUp, Available
  <2>2. ASSUME NEW t \in Threads, Wait(t) PROVE NoLostWakeUp'
    <3>1. Available' = 0
      BY <2>2, ConfigAccepted DEF Wait, Available, TypeOK, Accounting
    <3>2. Cardinality(WakeUps') \in Nat
      <4>1. WakeUps' \subseteq Threads
        BY DEF WakeUps
      <4>2. QED
        BY <4>1, ThreadsFinite, FS_Subset, FS_CardinalityType
    <3>3. QED
      BY <3>1, <3>2 DEF NoLostWakeUp
  <2>3. ASSUME NEW t \in Threads, DropDead(t) PROVE NoLostWakeUp'
    <3>1. Available' = Available /\ WakeUps' = WakeUps /\ Waiting' = Waiting
      BY <2>3, HeadAndTail, ConfigAccepted DEF DropDead, Available, TypeOK, WakeUps, Waiting
    <3>2. QED
      BY <2>3, <3>1 DEF DropDead, NoLostWakeUp
  <2>4. ASSUME NEW t \in Threads, TakeIdle(t) \/ ReplaceDead(t) \/ Grow(t)
        PROVE  NoLostWakeUp'
    <3>1. Available' = Available - 1
      <4>1. total' - Len(idle') = total - Len(idle) + 1
        <5>1. CASE TakeIdle(t) \/ ReplaceDead(t)
          <6>1. Len(idle') = Len(idle) - 1 /\ total' = total
            BY <5>1, HeadAndTail DEF TakeIdle, ReplaceDead, TypeOK
          <6>2. QED
            BY <6>1 DEF TypeOK
        <5>2. CASE Grow(t)
          BY <5>2 DEF Grow, TypeOK
        <5>3. QED
          BY <2>4, <5>1, <5>2
      <4>2. QED
        BY <4>1, ConfigAccepted DEF Available, TypeOK
    <3>2. /\ WakeUps' = WakeUps \ {t} /\ Waiting' \subseteq Waiting
          /\ swallowed' = swallowed
      BY <2>4 DEF TakeIdle, ReplaceDead, Grow, LeaveWith, WakeUps, Waiting, TypeOK
    <3>3. Cardinality(WakeUps') >= Cardinality(WakeUps) - 1
      BY <3>2, WakeUpsFinite, FS_RemoveElement
    <3>4. QED
      BY <2>0, <3>1, <3>2, <3>3, WakeUpsFinite, FS_RemoveElement DEF NoLostWakeUp
  <2>5. ASSUME NEW t \in Threads, GrowFails(t) \/ RelockExpired(t)
        PROVE  NoLostWakeUp'
    <3>1. /\ Waiting' \subseteq Waiting /\ UNCHANGED <<idle, total>>
          /\ swallowed' \in BOOLEAN /\ (~swallowed' => ~swallowed /\ ~token[t])
      BY <2>5 DEF GrowFails, RelockExpired, Throw, Waiting, TypeOK
    <3>2. ~token[t] => WakeUps' = WakeUps
      BY <2>5 DEF GrowFails, RelockExpired, Throw, WakeUps, TypeOK
    <3>3. QED
      BY <3>1, <3>2 DEF NoLostWakeUp, Available
  <2>6. ASSUME NEW t \in Threads, Return(t) PROVE NoLostWakeUp'
    <3>1. Available' = Available + 1
      <4>1. held[t] \in Conns
        <5>1. pc[t] = "holding"
          BY <2>6 DEF Return, ReturnOpen, ReturnClosed
        <5>2. held[t] # "none" /\ held[t] \in Conns \cup {"none"}
          BY <5>1 DEF LockDiscipline, TypeOK
        <5>3. QED
          BY <5>2
      <4>2. CASE ReturnOpen(t)
        <5>1. Len(idle') = Len(idle) + 1 /\ total' = total
          BY <4>1, <4>2 DEF ReturnOpen, TypeOK
        <5>2. QED
          BY <5>1, ConfigAccepted DEF Available, TypeOK
      <4>3. CASE ReturnClosed(t)
        BY <4>3, ConfigAccepted DEF ReturnClosed, Available, TypeOK
      <4>4. QED
        BY <2>6, <4>2, <4>3 DEF Return
    <3>2. /\ WakeUps' = WakeUps \cup {t} /\ t \notin WakeUps
          /\ Waiting' = Waiting /\ swallowed' = swallowed
      <4>1. /\ pc[t] = "holding" /\ pc' = [pc EXCEPT ![t] = "notify"]
            /\ token' = token /\ swallowed' = swallowed /\ ~token[t]
        BY <2>6 DEF Return, ReturnOpen, ReturnClosed, LockDiscipline
      <4>2. QED
        BY <4>1 DEF WakeUps, Waiting, TypeOK
    <3>3. Cardinality(WakeUps') = Cardinality(WakeUps) + 1
      BY <3>2, WakeUpsFinite, FS_AddElement
    <3>4. QED
      BY <2>0, <3>1, <3>2, <3>3 DEF NoLostWakeUp
  <2>7. ASSUME NEW t \in Threads, NEW w \in Threads, NotifyOne(t, w)
        PROVE  NoLostWakeUp'
    <3>1. t \in WakeUps /\ w \notin WakeUps /\ t # w
      BY <2>7 DEF NotifyOne, Waiting, WakeUps, TypeOK, LockDiscipline
    <3>2. /\ WakeUps' = (WakeUps \ {t}) \cup {w}
          /\ Waiting' \subseteq Waiting /\ UNCHANGED <<idle, total, swallowed>>
      BY <2>7, <3>1 DEF NotifyOne, Waiting, WakeUps, TypeOK, LockDiscipline
    <3>3. IsFiniteSet(WakeUps \ {t}) /\ Cardinality(WakeUps \ {t}) = Cardinality(WakeUps) - 1
      BY <3>1, WakeUpsFinite, FS_RemoveElement
    <3>4. Cardinality(WakeUps') = Cardinality(WakeUps)
      BY <2>0, <3>1, <3>2, <3>3, FS_AddElement
    <3>5. QED
      BY <3>2, <3>4 DEF NoLostWakeUp, Available
  <2>8. ASSUME NEW t \in Threads, NotifyNobody(t) PROVE NoLostWakeUp'
    BY <2>8 DEF NotifyNobody, NoLostWakeUp, Waiting, TypeOK
  <2>9. ASSUME ServerDown \/ ServerUp \/ UNCHANGED vars PROVE NoLostWakeUp'
    <3>1. /\ WakeUps' = WakeUps /\ Waiting' = Waiting
          /\ UNCHANGED <<total, swallowed>> /\ Len(idle') = Len(idle)
      BY <2>9, SeveredQueue DEF ServerDown, ServerUp, vars, WakeUps, Waiting, TypeOK
    <3>2. QED
      BY <3>1 DEF NoLostWakeUp, Available
  <2>10. QED
    BY <2>1, <2>2, <2>3, <2>4, <2>5, <2>6, <2>7, <2>8, <2>9 DEF Next, Loop, Notify
<1>3. QED
  BY <1>1, <1>2, PoolInvariant, PTL DEF Spec

-----------------------------------------------------------------------------
(* acquire() ends *)

InAcquire(t) == pc[t] \in {"loop", "waiting", "waking"}
Ended(t)     == pc[t] \in {"holding", "out"}

\* The states after t takes the front of the queue, makes a connection, throws,
\* goes to sleep, gets mutex_, or wakes.
Taken(t)  == <<Tail(idle), total, NoOne, [pc EXCEPT ![t] = "holding"], [held EXCEPT ![t] = Head(idle)],
               expired, [token EXCEPT ![t] = FALSE], up, swallowed>>
Grown(t)  == <<idle, total + 1, NoOne, [pc EXCEPT ![t] = "holding"], [held EXCEPT ![t] = "ok"],
               expired, [token EXCEPT ![t] = FALSE], up, swallowed>>
Thrown(t) == <<idle, total, NoOne, [pc EXCEPT ![t] = "out"], held,
               expired, [token EXCEPT ![t] = FALSE], up, swallowed \/ token[t]>>
Asleep(t) == <<idle, total, NoOne, [pc EXCEPT ![t] = "waiting"], held,
               expired, [token EXCEPT ![t] = FALSE], up, swallowed>>
Locked(t) == <<idle, total, t, [pc EXCEPT ![t] = "loop"], held,
               IF pc[t] = "enter" THEN [expired EXCEPT ![t] = FALSE] ELSE expired,
               token, up, swallowed>>
Woken(t)  == <<idle, total, mutex, [pc EXCEPT ![t] = "waking"], held, expired, token, up, swallowed>>
Late(t)   == <<idle, total, mutex, pc, held, [expired EXCEPT ![t] = TRUE], token, up, swallowed>>

\* Where t can go from each place in acquire().
Onward(t) ==
  CASE pc[t] = "loop" /\ idle # <<>>                                -> Taken(t)
    [] pc[t] = "loop" /\ idle = <<>> /\ total < MaxConnections /\ up  -> Grown(t)
    [] pc[t] = "loop" /\ idle = <<>> /\ total < MaxConnections /\ ~up -> Thrown(t)
    [] pc[t] = "loop" /\ idle = <<>> /\ total >= MaxConnections       -> Asleep(t)
    [] pc[t] = "waking" /\ expired[t]                                 -> Thrown(t)
    [] pc[t] = "enter" \/ (pc[t] = "waking" /\ ~expired[t])           -> Locked(t)
    [] pc[t] = "waiting"                                              -> Woken(t)

\* What t needs to go on by itself: mutex_, its deadline, or nothing.
CanStep(t) == \/ pc[t] = "loop"
              \/ pc[t] \in {"enter", "waking"} /\ mutex = NoOne
              \/ pc[t] = "waiting" /\ expired[t]

\* No thread in acquire() is stuck with what it needs: a thread in the loop has a
\* branch to take whatever idle_, total_ and the server are, and its deadline can
\* always pass.
THEOREM AcquiresCanGoOn ==
  ASSUME TypeOK, NEW t \in Threads
  PROVE  /\ CanStep(t) /\ vars' = Onward(t) => <<Step(t)>>_vars
         /\ InAcquire(t) /\ ~expired[t] /\ vars' = Late(t) => <<DeadlinePasses(t)>>_vars
<1>1. ASSUME CanStep(t), vars' = Onward(t) PROVE Step(t) /\ pc'[t] # pc[t]
  <2>1. CASE pc[t] = "loop" /\ idle # <<>>
    <3>1. vars' = Taken(t)
      BY <1>1, <2>1 DEF Onward
    <3>2. TRUE \in IsOpen(Head(idle))
      BY DEF IsOpen
    <3>3. TakeIdle(t)
      BY <2>1, <3>1, <3>2 DEF vars, Taken, TakeIdle, LeaveWith
    <3>4. pc'[t] # pc[t]
      BY <2>1, <3>1 DEF vars, Taken, TypeOK
    <3>5. QED
      BY <3>3, <3>4 DEF Step, Loop
  <2>2. CASE pc[t] = "loop" /\ idle = <<>> /\ total < MaxConnections /\ up
    <3>1. vars' = Grown(t)
      BY <1>1, <2>2, ConfigAccepted DEF Onward, TypeOK
    <3>2. Grow(t) /\ pc'[t] # pc[t]
      BY <2>2, <3>1 DEF vars, Grown, Grow, LeaveWith, TypeOK
    <3>3. QED
      BY <3>2 DEF Step, Loop
  <2>3. CASE pc[t] = "loop" /\ idle = <<>> /\ total < MaxConnections /\ ~up
    <3>1. vars' = Thrown(t)
      BY <1>1, <2>3, ConfigAccepted DEF Onward, TypeOK
    <3>2. GrowFails(t) /\ pc'[t] # pc[t]
      BY <2>3, <3>1 DEF vars, Thrown, GrowFails, Throw, TypeOK
    <3>3. QED
      BY <3>2 DEF Step, Loop
  <2>4. CASE pc[t] = "loop" /\ idle = <<>> /\ total >= MaxConnections
    <3>1. vars' = Asleep(t)
      BY <1>1, <2>4, ConfigAccepted DEF Onward, TypeOK
    <3>2. Wait(t) /\ pc'[t] # pc[t]
      BY <2>4, <3>1 DEF vars, Asleep, Wait, TypeOK
    <3>3. QED
      BY <3>2 DEF Step, Loop
  <2>5. CASE pc[t] = "waking" /\ expired[t]
    <3>1. vars' = Thrown(t) /\ mutex = NoOne
      BY <1>1, <2>5 DEF Onward, CanStep
    <3>2. RelockExpired(t) /\ pc'[t] # pc[t]
      BY <2>5, <3>1 DEF vars, Thrown, RelockExpired, Throw, TypeOK
    <3>3. QED
      BY <3>2 DEF Step
  <2>6. CASE pc[t] = "enter" \/ (pc[t] = "waking" /\ ~expired[t])
    <3>1. vars' = Locked(t) /\ mutex = NoOne
      BY <1>1, <2>6 DEF Onward, CanStep
    <3>2. (Lock(t) \/ Relock(t)) /\ pc'[t] # pc[t]
      BY <2>6, <3>1 DEF vars, Locked, Lock, Relock, TypeOK
    <3>3. QED
      BY <3>2 DEF Step
  <2>7. CASE pc[t] = "waiting"
    <3>1. vars' = Woken(t) /\ expired[t]
      BY <1>1, <2>7 DEF Onward, CanStep
    <3>2. AwakeAtDeadline(t) /\ pc'[t] # pc[t]
      BY <2>7, <3>1 DEF vars, Woken, AwakeAtDeadline, Awake, TypeOK
    <3>3. QED
      BY <3>2 DEF Step
  <2>8. QED
    BY <1>1, <2>1, <2>2, <2>3, <2>4, <2>5, <2>6, <2>7, ConfigAccepted DEF CanStep, TypeOK
<1>2. ASSUME InAcquire(t), ~expired[t], vars' = Late(t)
      PROVE  DeadlinePasses(t) /\ expired'[t] # expired[t]
  BY <1>2 DEF vars, InAcquire, Late, DeadlinePasses, TypeOK
<1>3. QED
  BY <1>1, <1>2 DEF vars

\* What a step can do to a thread in acquire(): another thread's step can only
\* wake it, and its deadline, once passed, stays passed until acquire() ends.
LEMMA AcquireStep ==
  ASSUME TypeOK, NEW t \in Threads, [Next]_vars
  PROVE  /\ pc[t] = "enter" => pc'[t] \in {"enter", "loop"}
         /\ pc[t] = "loop" => pc'[t] \in {"loop", "waiting", "holding", "out"}
         /\ pc[t] = "waiting" => pc'[t] \in {"waiting", "waking"}
         /\ pc[t] = "waking" => /\ pc'[t] \in {"waking", "loop", "out"}
                                /\ expired[t] => pc'[t] # "loop"
         /\ InAcquire(t) /\ expired[t] => expired'[t]
<1> DEFINE Goal == /\ pc[t] = "enter" => pc'[t] \in {"enter", "loop"}
                   /\ pc[t] = "loop" => pc'[t] \in {"loop", "waiting", "holding", "out"}
                   /\ pc[t] = "waiting" => pc'[t] \in {"waiting", "waking"}
                   /\ pc[t] = "waking" => /\ pc'[t] \in {"waking", "loop", "out"}
                                          /\ expired[t] => pc'[t] # "loop"
                   /\ InAcquire(t) /\ expired[t] => expired'[t]
<1>1. ASSUME NEW u \in Threads, Call(u) \/ Lock(u) \/ DeadlinePasses(u) PROVE Goal
  BY <1>1 DEF TypeOK, InAcquire, Call, Lock, DeadlinePasses
<1>2. ASSUME NEW u \in Threads, Loop(u) PROVE Goal
  BY <1>2 DEF TypeOK, InAcquire, Loop, TakeIdle, ReplaceDead, DropDead, Grow, GrowFails, Wait, LeaveWith,
              Throw
<1>3. ASSUME NEW u \in Threads, Awake(u) \/ RelockExpired(u) \/ Relock(u) PROVE Goal
  BY <1>3 DEF TypeOK, InAcquire, Awake, RelockExpired, Relock, Throw
<1>4. ASSUME NEW u \in Threads, Return(u) PROVE Goal
  BY <1>4 DEF TypeOK, InAcquire, Return, ReturnOpen, ReturnClosed
<1>5. ASSUME NEW u \in Threads, Notify(u) PROVE Goal
  BY <1>5 DEF TypeOK, InAcquire, Notify, NotifyOne, NotifyNobody, Waiting
<1>6. CASE ServerDown \/ ServerUp \/ UNCHANGED vars
  BY <1>6 DEF TypeOK, InAcquire, ServerDown, ServerUp, vars
<1>7. QED
  BY <1>1, <1>2, <1>3, <1>4, <1>5, <1>6 DEF Next

\* What t's own steps do for it: with mutex_ free it gets mutex_ on the way in,
\* and the exception when it finds its deadline passed.
LEMMA OwnStep ==
  ASSUME TypeOK, NEW t \in Threads
  PROVE  /\ pc[t] = "enter" /\ Step(t) => pc'[t] = "loop"
         /\ pc[t] = "loop" /\ Step(t) => (mutex' = NoOne \/ Len(idle') < Len(idle))
         /\ pc[t] = "waiting" /\ Step(t) => pc'[t] = "waking"
         /\ pc[t] = "waking" /\ expired[t] /\ Step(t) => pc'[t] = "out"
         /\ DeadlinePasses(t) => pc'[t] = pc[t] /\ expired'[t]
<1> DEFINE Others == Return(t) \/ Notify(t)
<1>1. Others => pc[t] \in {"holding", "notify"}
  BY DEF Return, ReturnOpen, ReturnClosed, Notify, NotifyOne, NotifyNobody
<1>2. pc[t] = "enter" /\ Step(t) => pc'[t] = "loop"
  BY <1>1 DEF Step, Lock, Loop, TakeIdle, ReplaceDead, DropDead, Grow, GrowFails, Wait, AwakeAtDeadline,
              Awake, Relock, RelockExpired, TypeOK
<1>3. pc[t] = "loop" /\ Step(t) => (mutex' = NoOne \/ Len(idle') < Len(idle))
  <2>1. DropDead(t) => Len(idle') < Len(idle)
    BY HeadAndTail DEF DropDead, TypeOK
  <2>2. (TakeIdle(t) \/ ReplaceDead(t) \/ Grow(t) \/ GrowFails(t) \/ Wait(t)) => mutex' = NoOne
    BY DEF TakeIdle, ReplaceDead, Grow, GrowFails, Wait, LeaveWith, Throw
  <2>3. QED
    BY <1>1, <2>1, <2>2 DEF Step, Loop, Lock, AwakeAtDeadline, Awake, Relock, RelockExpired
<1>4. pc[t] = "waiting" /\ Step(t) => pc'[t] = "waking"
  BY <1>1 DEF Step, Lock, Loop, TakeIdle, ReplaceDead, DropDead, Grow, GrowFails, Wait, AwakeAtDeadline,
              Awake, Relock, RelockExpired, TypeOK
<1>5. pc[t] = "waking" /\ expired[t] /\ Step(t) => pc'[t] = "out"
  BY <1>1 DEF Step, Lock, Loop, TakeIdle, ReplaceDead, DropDead, Grow, GrowFails, Wait, AwakeAtDeadline,
              Awake, Relock, RelockExpired, Throw, TypeOK
<1>6. DeadlinePasses(t) => pc'[t] = pc[t] /\ expired'[t]
  BY DEF DeadlinePasses, TypeOK
<1>7. QED
  BY <1>2, <1>3, <1>4, <1>5, <1>6

\* The thread inside the loop is the only one that changes idle_ in number, and
\* it keeps mutex_ only with a shorter queue.
LEMMA OwnerStep ==
  ASSUME Inv, NEW t \in Threads, mutex = t, [Next]_vars
  PROVE  \/ mutex' = NoOne
         \/ mutex' = t /\ Len(idle') <= Len(idle)
<1>0. /\ t # NoOne /\ pc[t] = "loop" /\ idle \in Seq(Conns)
      /\ \A u \in Threads : pc[u] = "loop" => u = t
  BY ThreadsFinite DEF Inv, LockDiscipline, TypeOK
<1>1. ASSUME NEW u \in Threads, Loop(u) PROVE mutex' = NoOne \/ (mutex' = t /\ Len(idle') <= Len(idle))
  <2>1. DropDead(u) => mutex' = t /\ Len(idle') <= Len(idle)
    BY <1>0, HeadAndTail DEF DropDead
  <2>2. (TakeIdle(u) \/ ReplaceDead(u) \/ Grow(u) \/ GrowFails(u) \/ Wait(u)) => mutex' = NoOne
    BY DEF TakeIdle, ReplaceDead, Grow, GrowFails, Wait, LeaveWith, Throw
  <2>3. QED
    BY <1>1, <2>1, <2>2 DEF Loop
<1>2. ASSUME NEW u \in Threads, Call(u) \/ DeadlinePasses(u) \/ Awake(u) \/ Notify(u)
      PROVE  mutex' = t /\ idle' = idle
  BY <1>2 DEF Call, DeadlinePasses, Awake, Notify, NotifyOne, NotifyNobody
<1>3. ASSUME NEW u \in Threads, Lock(u) \/ RelockExpired(u) \/ Relock(u) \/ Return(u)
      PROVE  FALSE
  BY <1>0, <1>3 DEF Lock, RelockExpired, Relock, Return, ReturnOpen, ReturnClosed
<1>4. CASE ServerDown \/ ServerUp \/ UNCHANGED vars
  BY <1>0, <1>4, SeveredQueue DEF ServerDown, ServerUp, vars
<1>5. Len(idle) \in Nat /\ (idle' = idle => Len(idle') <= Len(idle))
  BY <1>0
<1>6. QED
  BY <1>1, <1>2, <1>3, <1>4, <1>5 DEF Next

\* mutex_ is given up: a thread that is kept scheduled leaves the loop, or goes
\* round it with a shorter queue, for every length of the queue.
THEOREM LockIsGivenUp ==
  ASSUME NEW t \in Threads, NEW n \in Nat
  PROVE  Spec /\ SF_vars(Step(t)) /\ [](CanStep(t) => ENABLED <<Step(t)>>_vars)
         => ((mutex = t /\ Len(idle) = n)
               ~> (mutex = NoOne \/ (mutex = t /\ Len(idle) < n)))
<1> DEFINE P == mutex = t /\ Len(idle) = n
           Q == mutex = NoOne \/ (mutex = t /\ Len(idle) < n)
<1>1. Inv /\ P /\ [Next]_vars => P' \/ Q'
  <2>1. ASSUME Inv, P, [Next]_vars PROVE P' \/ Q'
    <3>1. idle \in Seq(Conns)
      BY <2>1 DEF Inv, TypeOK
    <3>2. mutex' = NoOne \/ (mutex' = t /\ Len(idle') <= Len(idle))
      BY <2>1, OwnerStep
    <3>3. idle' \in Seq(Conns)
      BY <2>1, InvStep DEF Inv, TypeOK
    <3>4. Len(idle) \in Nat /\ Len(idle') \in Nat
      BY <3>1, <3>3
    <3>5. QED
      BY <2>1, <3>2, <3>4
  <2>2. QED
    BY <2>1
<1>2. Inv /\ P /\ [Next]_vars /\ <<Step(t)>>_vars => Q'
  <2>1. ASSUME Inv, P, [Next]_vars, Step(t) PROVE Q'
    <3>1. pc[t] = "loop"
      BY <2>1 DEF Inv, LockDiscipline
    <3>2. mutex' = NoOne \/ Len(idle') < Len(idle)
      BY <2>1, <3>1, OwnStep DEF Inv
    <3>3. mutex' = NoOne \/ mutex' = t
      BY <2>1, OwnerStep
    <3>4. QED
      BY <2>1, <3>2, <3>3
  <2>2. QED
    BY <2>1
<1>3. Inv /\ P => CanStep(t)
  BY DEF Inv, LockDiscipline, CanStep
<1> HIDE DEF P, Q
<1>4. Spec /\ SF_vars(Step(t)) /\ [](CanStep(t) => ENABLED <<Step(t)>>_vars) => (P ~> Q)
  BY <1>1, <1>2, <1>3, PoolInvariant, PTL DEF Spec
<1>5. QED
  BY <1>4, PTL DEF P, Q

\* AcquireEnds for each thread, from mutex_ being free again and again
\* (LockIsGivenUp is one step of that): an acquire() ends, although each time
\* mutex_ is free another thread may take it, and each time it wakes it may go
\* back to sleep until its deadline has passed.
THEOREM AcquireEndsEventually ==
  ASSUME NEW t \in Threads
  PROVE  /\ Spec /\ SF_vars(Step(t)) /\ WF_vars(DeadlinePasses(t))
         /\ [](CanStep(t) => ENABLED <<Step(t)>>_vars)
         /\ [](InAcquire(t) /\ ~expired[t] => ENABLED <<DeadlinePasses(t)>>_vars)
         /\ []<>(mutex = NoOne)
         => (pc[t] = "enter" ~> pc[t] \in {"holding", "out"})
<1> DEFINE Free    == mutex = NoOne
           Over    == expired[t]
           Enter   == pc[t] = "enter"
           Loops   == pc[t] = "loop"
           Waits   == pc[t] = "waiting"
           Wakes   == pc[t] = "waking"
           End     == pc[t] \in {"holding", "out"}
           In      == InAcquire(t)
           Can     == CanStep(t)
<1>1. Inv /\ [Next]_vars =>
        /\ Enter => Enter' \/ Loops'
        /\ Loops => Loops' \/ Waits' \/ End'
        /\ Waits => Waits' \/ Wakes'
        /\ Wakes => Wakes' \/ Loops' \/ End'
        /\ Wakes /\ Over => ~Loops'
        /\ In /\ Over => Over'
  BY AcquireStep DEF Inv
<1>2. /\ Inv /\ Enter /\ <<Step(t)>>_vars => Loops'
      /\ Inv /\ Waits /\ <<Step(t)>>_vars => Wakes'
      /\ Inv /\ Wakes /\ Over /\ <<Step(t)>>_vars => End'
      /\ Inv /\ <<DeadlinePasses(t)>>_vars => Over'
  BY OwnStep DEF Inv
<1>3. Inv => /\ Loops => ~Free
             /\ ~(Loops /\ Waits) /\ ~(Loops /\ Wakes) /\ ~(Waits /\ Wakes) /\ ~(Enter /\ Loops)
             /\ In <=> Loops \/ Waits \/ Wakes
             /\ Enter /\ Free => Can
             /\ Wakes /\ Free => Can
             /\ Waits /\ Over => Can
  BY ThreadsFinite DEF Inv, LockDiscipline, InAcquire, CanStep
<1> HIDE DEF Free, Over, Enter, Loops, Waits, Wakes, End, In, Can
<1>4. /\ Spec /\ SF_vars(Step(t)) /\ WF_vars(DeadlinePasses(t))
      /\ [](Can => ENABLED <<Step(t)>>_vars)
      /\ [](In /\ ~Over => ENABLED <<DeadlinePasses(t)>>_vars)
      /\ []<>Free
      => (Enter ~> End)
  BY <1>1, <1>2, <1>3, PoolInvariant, PTL DEF Spec
<1>5. QED
  BY <1>4, PTL DEF Free, Over, Enter, End, In, Can
=============================================================================
