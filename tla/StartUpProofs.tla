--------------------------- MODULE StartUpProofs ----------------------------
(***************************************************************************)
(* Proofs about MigrationRunner and StartUp, for any number of instances,  *)
(* of migration files and of failures, any timeout of the probe and any    *)
(* number of pieces of its request.                                        *)
(*                                                                         *)
(* The system implements MigrationRunner, so that what is proved of that   *)
(* module holds of it; the probe's verdict then follows from what the      *)
(* listener, the answer and the verdict each depend on.                    *)
(***************************************************************************)
EXTENDS StartUp, TLAPS

-----------------------------------------------------------------------------
(* The migrations of the instances, as MigrationRunner has them *)

\* What an instance knows: its snapshot is still in the table, every version
\* the loop has passed is recorded, and the one it is about to record has taken
\* effect.
Progress(r) ==
  /\ pc[r] \in {"loop", "record"} => /\ snapshot[r] \subseteq recorded
                                     /\ \A v \in Versions : v < version[r] => v \in recorded
  /\ pc[r] = "record" => version[r] \in applied

ProgressKept == \A r \in Runners : Progress(r)

Inv == TypeOK /\ RecordedMeansApplied /\ AppliedInOrder /\ ReadyMeansMigrated /\ ProgressKept

\* An empty database and no instance running satisfy the invariant.
LEMMA InvInit == Init => Inv
  BY FilesAssumption DEF Init, Inv, TypeOK, Versions, Places, RecordedMeansApplied,
     AppliedInOrder, ReadyMeansMigrated, ProgressKept, Progress

\* Both sets of versions only grow, whatever an instance does.
LEMMA Monotone == TypeOK /\ Next => recorded \subseteq recorded' /\ applied \subseteq applied'
  BY DEF TypeOK, Next, Advance, Start, EnsureMigrationsTable, AppliedVersions, Skip, Execute,
     ExecuteRejected, ExecuteFails, ExecuteInDoubt, Runs, Record, Finish, Stop, locals

\* When the loop is at a version, all lower ones have taken effect.
LEMMA LowerApplied ==
  ASSUME Inv, NEW r \in Runners, Due(r)
  PROVE  /\ version[r] \in Versions
         /\ \A v \in Versions : v < version[r] => v \in applied
  BY DEF Inv, Due, ProgressKept, Progress, RecordedMeansApplied

\* Running a file keeps the order and makes only true claims.
LEMMA RunsStep ==
  ASSUME Inv, NEW r \in Runners, Due(r), Runs(version[r])
  PROVE  /\ recorded' \subseteq Versions /\ applied' \subseteq Versions
         /\ RecordedMeansApplied' /\ AppliedInOrder'
         /\ recorded \subseteq recorded' /\ version[r] \in applied'
         /\ UNCHANGED locals
<1>1. /\ version[r] \in Versions
      /\ \A v \in Versions : v < version[r] => v \in applied
  BY LowerApplied
<1>2. /\ applied' = applied \cup {version[r]}
      /\ recorded' \subseteq recorded \cup {version[r]} /\ recorded \subseteq recorded'
      /\ UNCHANGED locals
  BY DEF Runs
<1>3. recorded' \subseteq Versions /\ applied' \subseteq Versions /\ RecordedMeansApplied'
  BY <1>1, <1>2 DEF Inv, TypeOK, RecordedMeansApplied
<1>4. AppliedInOrder'
  <2> SUFFICES ASSUME NEW v \in applied', NEW w \in 1..v PROVE w \in applied'
    BY DEF AppliedInOrder
  <2>1. CASE v \in applied
    BY <1>2, <2>1 DEF Inv, AppliedInOrder
  <2>2. CASE v = version[r]
    <3>1. w = v \/ (w \in Versions /\ w < v)
      BY <1>1, <2>2, FilesAssumption DEF Versions
    <3>2. QED
      BY <1>1, <1>2, <2>2, <3>1
  <2>3. QED
    BY <1>2, <2>1, <2>2
<1>5. QED
  BY <1>2, <1>3, <1>4

\* An instance that does not move keeps what it knows, because nothing is ever
\* taken out of the database.
LEMMA OthersKeep ==
  ASSUME Inv, NEW q \in Runners, pc'[q] = pc[q], snapshot'[q] = snapshot[q],
         version'[q] = version[q], recorded \subseteq recorded', applied \subseteq applied',
         recorded' \subseteq Versions
  PROVE  Progress(q)' /\ (pc'[q] = "ready" => recorded' = Versions)
  BY DEF Inv, ProgressKept, Progress, ReadyMeansMigrated

\* Every step of an instance preserves the invariant.
LEMMA InvStep == Inv /\ [Next]_vars => Inv'
<1> SUFFICES ASSUME Inv, [Next]_vars PROVE Inv'
  OBVIOUS
<1>1. CASE UNCHANGED vars
  BY <1>1 DEF vars, Inv, TypeOK, RecordedMeansApplied, AppliedInOrder, ReadyMeansMigrated,
     ProgressKept, Progress
<1>2. CASE Next
  <2> USE DEF locals
  <2>1. PICK r \in Runners : Advance(r) \/ ExecuteFails(r) \/ ExecuteInDoubt(r) \/ Stop(r)
    BY <1>2 DEF Next
  <2>2. recorded \subseteq recorded' /\ applied \subseteq applied'
    BY <1>2, Monotone DEF Inv
  <2>3. \A q \in Runners \ {r} : /\ pc'[q] = pc[q] /\ snapshot'[q] = snapshot[q]
                                 /\ version'[q] = version[q]
    BY <2>1 DEF Inv, TypeOK, Advance, Start, EnsureMigrationsTable, AppliedVersions, Skip, Execute,
       ExecuteRejected, ExecuteFails, ExecuteInDoubt, Runs, Record, Finish, Stop, GoTo
  <2>4. ASSUME TypeOK', RecordedMeansApplied', AppliedInOrder', Progress(r)',
               pc'[r] = "ready" => recorded' = Versions
        PROVE  Inv'
    <3>1. \A q \in Runners : Progress(q)' /\ (pc'[q] = "ready" => recorded' = Versions)
      <4> SUFFICES ASSUME NEW q \in Runners
                   PROVE  Progress(q)' /\ (pc'[q] = "ready" => recorded' = Versions)
        OBVIOUS
      <4>1. CASE q = r
        BY <2>4, <4>1
      <4>2. CASE q # r
        <5>1. recorded' \subseteq Versions
          BY <2>4 DEF TypeOK
        <5>2. QED
          BY <2>2, <2>3, <4>2, <5>1, OthersKeep
      <4>3. QED
        BY <4>1, <4>2
    <3>2. QED
      BY <2>4, <3>1 DEF Inv, ProgressKept, ReadyMeansMigrated
  <2>5. CASE \/ Start(r) \/ EnsureMigrationsTable(r) \/ ExecuteRejected(r)
             \/ ExecuteFails(r) \/ Stop(r)
    <3>1. /\ UNCHANGED <<recorded, applied, snapshot, version>>
          /\ pc' = [pc EXCEPT ![r] = pc'[r]] /\ pc'[r] \in {"down", "ensure", "read"}
          /\ stops' \in 0..MaxStops
      BY <2>5, FilesAssumption DEF Inv, TypeOK, Start, EnsureMigrationsTable, ExecuteRejected,
         ExecuteFails, Stop, GoTo
    <3>2. TypeOK'
      BY <3>1 DEF Inv, TypeOK, Places
    <3>3. RecordedMeansApplied' /\ AppliedInOrder' /\ Progress(r)' /\ pc'[r] # "ready"
      BY <3>1 DEF Inv, RecordedMeansApplied, AppliedInOrder, Progress
    <3>4. QED
      BY <2>4, <3>2, <3>3
  <2>6. CASE AppliedVersions(r)
    <3>1. TypeOK'
      BY <2>6, FilesAssumption DEF Inv, TypeOK, AppliedVersions, GoTo, Places
    <3>2. RecordedMeansApplied' /\ AppliedInOrder'
      BY <2>6 DEF Inv, AppliedVersions, RecordedMeansApplied, AppliedInOrder
    <3>3. Progress(r)' /\ pc'[r] # "ready"
      BY <2>6, FilesAssumption DEF Inv, TypeOK, AppliedVersions, GoTo, Progress, Versions
    <3>4. QED
      BY <2>4, <3>1, <3>2, <3>3
  <2>7. CASE Skip(r)
    <3>1. TypeOK'
      BY <2>7, FilesAssumption DEF Inv, TypeOK, Skip, Versions
    <3>2. RecordedMeansApplied' /\ AppliedInOrder'
      BY <2>7 DEF Inv, Skip, RecordedMeansApplied, AppliedInOrder
    <3>3. Progress(r)' /\ pc'[r] # "ready"
      BY <2>7, FilesAssumption DEF Inv, TypeOK, Skip, ProgressKept, Progress, Versions
    <3>4. QED
      BY <2>4, <3>1, <3>2, <3>3
  <2>8. CASE Execute(r) \/ ExecuteInDoubt(r)
    <3>1. Due(r) /\ Runs(version[r]) /\ stops' \in 0..MaxStops
          /\ pc' = [pc EXCEPT ![r] = pc'[r]] /\ pc'[r] \in {"down", "record"}
      BY <2>8, FilesAssumption DEF Inv, TypeOK, Execute, ExecuteInDoubt, GoTo
    <3>2. /\ recorded' \subseteq Versions /\ applied' \subseteq Versions
          /\ RecordedMeansApplied' /\ AppliedInOrder'
          /\ recorded \subseteq recorded' /\ version[r] \in applied'
          /\ UNCHANGED <<snapshot, version>>
      BY <3>1, RunsStep
    <3>3. TypeOK'
      BY <3>1, <3>2 DEF Inv, TypeOK, Places
    <3>4. Progress(r)' /\ pc'[r] # "ready"
      BY <3>1, <3>2 DEF Inv, ProgressKept, Progress, Due
    <3>5. QED
      BY <2>4, <3>2, <3>3, <3>4
  <2>9. CASE Record(r)
    <3>1. version[r] \in applied /\ version[r] \in Versions
      BY <2>9 DEF Record, Inv, TypeOK, ProgressKept, Progress
    <3>2. TypeOK'
      <4>1. version[r] + 1 \in 1..(Last + 1)
        BY <3>1, FilesAssumption DEF Versions
      <4>2. QED
        BY <2>9, <3>1, <4>1 DEF Inv, TypeOK, Record, GoTo, Places
    <3>3. RecordedMeansApplied' /\ AppliedInOrder'
      BY <2>9, <3>1 DEF Inv, Record, RecordedMeansApplied, AppliedInOrder
    <3>4. Progress(r)' /\ pc'[r] # "ready"
      BY <2>9, <3>1, FilesAssumption DEF Inv, TypeOK, Record, GoTo, ProgressKept, Progress, Versions
    <3>5. QED
      BY <2>4, <3>2, <3>3, <3>4
  <2>10. CASE Finish(r)
    <3>1. TypeOK'
      BY <2>10 DEF Inv, TypeOK, Finish, GoTo, Places
    <3>2. RecordedMeansApplied' /\ AppliedInOrder' /\ Progress(r)'
      BY <2>10 DEF Inv, TypeOK, Finish, GoTo, RecordedMeansApplied, AppliedInOrder, Progress
    <3>3. recorded' = Versions
      <4>1. \A v \in Versions : v < version[r] => v \in recorded
        BY <2>10 DEF Inv, Finish, ProgressKept, Progress
      <4>2. \A v \in Versions : v < version[r]
        BY <2>10, FilesAssumption DEF Inv, TypeOK, Finish, Versions
      <4>3. QED
        BY <2>10, <4>1, <4>2 DEF Inv, TypeOK, Finish
    <3>4. QED
      BY <2>4, <3>1, <3>2, <3>3
  <2>11. QED
    BY <2>1, <2>5, <2>6, <2>7, <2>8, <2>9, <2>10 DEF Advance
<1>3. QED
  BY <1>1, <1>2

\* The inductive invariant holds in every reachable state.
THEOREM MigrationInvariant == Spec => []Inv
  BY InvInit, InvStep, PTL DEF Spec

\* Type correctness of MigrationRunner for any number of instances and files.
THEOREM TypeCorrect == Spec => []TypeOK
<1>1. Inv => TypeOK
  BY DEF Inv
<1>2. QED
  BY <1>1, MigrationInvariant, PTL

\* schema_migrations never claims a migration that has not taken effect.
THEOREM RecordIsTruthful == Spec => []RecordedMeansApplied
<1>1. Inv => RecordedMeansApplied
  BY DEF Inv
<1>2. QED
  BY <1>1, MigrationInvariant, PTL

\* Files take effect in the order of their versions.
THEOREM OrderKept == Spec => []AppliedInOrder
<1>1. Inv => AppliedInOrder
  BY DEF Inv
<1>2. QED
  BY <1>1, MigrationInvariant, PTL

\* No server becomes ready before the whole schema is there and recorded.
THEOREM ReadyImpliesSchema == Spec => []ReadyMeansMigrated
<1>1. Inv => ReadyMeansMigrated
  BY DEF Inv
<1>2. QED
  BY <1>1, MigrationInvariant, PTL

-----------------------------------------------------------------------------
(* The migrations of the whole system *)

\* A step of the system is a step of an instance's migrations or leaves the
\* database and the instances' progress alone.
LEMMA SystemStep == [SystemNext]_systemVars => [Next]_vars
<1> SUFFICES ASSUME [SystemNext]_systemVars PROVE [Next]_vars
  OBVIOUS
<1>1. CASE \E r \in Runners : Migrate(r) \/ Die(r)
  BY <1>1 DEF Next, Migrate, Die
<1>2. CASE \/ \E r \in Runners : Serve(r) \/ Connect(r)
           \/ Respond \/ Close \/ Probe \/ Tick \/ UNCHANGED systemVars
  BY <1>2 DEF Serve, Connect, Respond, Close, Probe, Connected, Send, Receive, ReceiveEnd,
     TimedOut, Tick, systemVars
<1>3. QED
  BY <1>1, <1>2 DEF SystemNext

\* Start-up with its listener, its deaths and the probe implements
\* MigrationRunner: registering the probe and the listener beside the
\* migrations gives no instance a step that migrate() does not have.
THEOREM StartUpMigrates == SystemSpec => Spec
<1>1. SystemInit => Init
  BY DEF SystemInit
<1>2. QED
  BY <1>1, SystemStep, PTL DEF SystemSpec, Spec

-----------------------------------------------------------------------------
(* The probe *)

\* Only instances whose migrate() has returned listen.
ServingIsReady == \A r \in serving : pc[r] = "ready"

\* The probe waits for an answer only after its whole request, and an answer
\* comes from an instance on a migrated database.
AnswerIsMigrated == /\ probe = "recv" => sent = Pieces
                    /\ status # "none" => recorded = Versions

ProbeInv == ProbeTypeOK /\ ServingIsReady /\ AnswerIsMigrated /\ HealthyMeansAnswered

\* No listener and no probe satisfy the invariant.
LEMMA ProbeInvInit == SystemInit => ProbeInv
<1> SUFFICES ASSUME SystemInit PROVE ProbeInv
  OBVIOUS
<1>1. ProbeTypeOK
  <2>1. left \in 0..Timeout /\ sent \in 0..Pieces
    BY ProbeAssumption DEF SystemInit
  <2>2. arrived \in 0..WholeLine /\ head \in 0..arrived
    BY DEF SystemInit, WholeLine
  <2>3. QED
    BY <2>1, <2>2 DEF SystemInit, ProbeTypeOK
<1>2. ServingIsReady /\ AnswerIsMigrated /\ HealthyMeansAnswered
  BY DEF SystemInit, ServingIsReady, AnswerIsMigrated, HealthyMeansAnswered
<1>3. QED
  BY <1>1, <1>2 DEF ProbeInv

\* Once the whole schema is recorded it stays so.
LEMMA SchemaStays == Inv /\ Inv' /\ [Next]_vars /\ recorded = Versions => recorded' = Versions
<1> SUFFICES ASSUME Inv, Inv', [Next]_vars, recorded = Versions PROVE recorded' = Versions
  OBVIOUS
<1>1. recorded \subseteq recorded'
  BY Monotone DEF Inv, vars
<1>2. QED
  BY <1>1 DEF Inv, TypeOK

\* A serving instance has no step of migrate() left, and another's step does not
\* move it.
LEMMA MigrateKeepsServing ==
  ASSUME Inv, ProbeTypeOK, ServingIsReady, NEW r \in Runners, Migrate(r)
  PROVE  ServingIsReady'
<1>1. pc[r] # "ready" /\ serving' = serving
  BY DEF Migrate, startVars, Advance, Start, EnsureMigrationsTable, AppliedVersions, Skip, Execute,
     ExecuteRejected, ExecuteFails, ExecuteInDoubt, Due, Record, Finish
<1>2. \A q \in serving : q # r /\ pc'[q] = pc[q]
  BY <1>1 DEF Migrate, Inv, TypeOK, ProbeTypeOK, ServingIsReady, Advance, Start, EnsureMigrationsTable,
     AppliedVersions, Skip, Execute, ExecuteRejected, ExecuteFails, ExecuteInDoubt, Runs, Record,
     Finish, GoTo, locals
<1>3. QED
  BY <1>1, <1>2 DEF ServingIsReady

\* Every step of the system preserves the invariant of the probe.
LEMMA ProbeInvStep == Inv /\ Inv' /\ ProbeInv /\ [SystemNext]_systemVars => ProbeInv'
<1> SUFFICES ASSUME Inv, Inv', ProbeInv, [SystemNext]_systemVars PROVE ProbeInv'
  OBVIOUS
<1>1. recorded = Versions => recorded' = Versions
  BY SystemStep, SchemaStays
<1> USE ProbeAssumption DEF ProbeInv, Twelve, WholeLine
<1>2. ASSUME NEW r \in Runners, Migrate(r) PROVE ProbeInv'
  <2>1. ServingIsReady'
    BY <1>2, MigrateKeepsServing
  <2>2. QED
    BY <1>1, <1>2, <2>1 DEF Migrate, startVars, ProbeTypeOK, AnswerIsMigrated, HealthyMeansAnswered
<1>3. ASSUME NEW r \in Runners, Serve(r) PROVE ProbeInv'
  BY <1>3 DEF Serve, vars, request, ProbeTypeOK, ServingIsReady, AnswerIsMigrated,
     HealthyMeansAnswered
<1>4. ASSUME NEW r \in Runners, Die(r) PROVE ProbeInv'
  <2>1. ServingIsReady'
    BY <1>4 DEF Die, Stop, GoTo, Inv, TypeOK, ServingIsReady, ProbeTypeOK
  <2>2. ProbeTypeOK' /\ AnswerIsMigrated' /\ HealthyMeansAnswered'
    BY <1>1, <1>4 DEF Die, request, ProbeTypeOK, AnswerIsMigrated, HealthyMeansAnswered
  <2>3. QED
    BY <2>1, <2>2
<1>5. ASSUME NEW r \in Runners, Connect(r) PROVE ProbeInv'
  <2>1. healthy' = FALSE /\ status' = "none" /\ probe' \in {"connect", "done"}
    BY <1>5 DEF Connect, Result
  <2>2. ProbeTypeOK'
    <3>1. left' \in 0..Timeout /\ sent' \in 0..Pieces
      BY <1>5 DEF Connect
    <3>2. arrived' \in 0..WholeLine /\ head' \in 0..arrived'
      BY <1>5 DEF Connect
    <3>3. link' \in {"open", "closed"}
      BY <1>5 DEF Connect, Result
    <3>4. QED
      BY <1>5, <2>1, <3>1, <3>2, <3>3 DEF Connect, ProbeTypeOK
  <2>3. QED
    BY <1>5, <2>1, <2>2 DEF Connect, vars, ServingIsReady, AnswerIsMigrated, HealthyMeansAnswered
<1>6. CASE Respond
  <2>1. recorded = Versions
    BY <1>6 DEF Respond, ServingIsReady, ProbeTypeOK, Inv, ReadyMeansMigrated
  <2>2. ~healthy
    BY <1>6 DEF Respond, HealthyMeansAnswered
  <2>3. ProbeTypeOK'
    BY <1>6 DEF Respond, ProbeTypeOK
  <2>4. QED
    BY <1>1, <1>6, <2>1, <2>2, <2>3 DEF Respond, vars, ServingIsReady, AnswerIsMigrated,
       HealthyMeansAnswered
<1>7. CASE Close \/ Tick
  BY <1>7 DEF Close, Tick, vars, request, ProbeTypeOK, ServingIsReady, AnswerIsMigrated,
     HealthyMeansAnswered
<1>8. CASE Connected \/ Send \/ TimedOut
  <2>1. healthy' = FALSE
    <3>1. healthy = FALSE
      BY <1>8 DEF Connected, Send, TimedOut, ProbeTypeOK, HealthyMeansAnswered
    <3>2. healthy' = healthy \/ healthy' = FALSE
      BY <1>8 DEF Connected, Send, TimedOut, Result, GoOn
    <3>3. QED
      BY <3>1, <3>2
  <2>2. ProbeTypeOK'
    <3>1. sent' = sent \/ sent' \in (sent + 1)..Pieces
      BY <1>8 DEF Connected, Send, TimedOut, request
    <3>2. sent' \in 0..Pieces
      BY <3>1 DEF ProbeTypeOK
    <3>3. /\ probe' \in {"send", "recv", "done"} /\ link' \in {link, "closed"}
          /\ UNCHANGED <<serving, target, left, status, arrived, head>>
      BY <1>8 DEF Connected, Send, TimedOut, Result, GoOn, request
    <3>4. QED
      BY <2>1, <3>2, <3>3 DEF ProbeTypeOK
  <2>3. ServingIsReady' /\ AnswerIsMigrated'
    BY <1>8 DEF Connected, Send, TimedOut, Result, GoOn, vars, request, ServingIsReady,
       AnswerIsMigrated
  <2>4. QED
    BY <2>1, <2>2, <2>3 DEF HealthyMeansAnswered
<1>9. CASE Receive \/ ReceiveEnd
  <2>1. UNCHANGED <<vars, serving, request, left>> /\ probe = "recv" /\ sent = Pieces /\ ~healthy
    BY <1>9 DEF Receive, ReceiveEnd, AnswerIsMigrated, HealthyMeansAnswered
  <2>2. head' \in 0..arrived
    <3>1. arrived \in Nat /\ head \in 0..arrived
      BY DEF ProbeTypeOK
    <3>2. head' = head \/ head' \in (head + 1)..arrived
      BY <1>9 DEF Receive, ReceiveEnd
    <3>3. QED
      BY <3>1, <3>2
  <2>3. \/ probe' = "recv" /\ UNCHANGED <<healthy, link>>
        \/ probe' = "done" /\ healthy' \in BOOLEAN /\ link' = "closed"
    BY <1>9 DEF Receive, ReceiveEnd, Healthy, Result, GoOn
  <2>4. healthy' => probe' = "done" /\ status = "200" /\ head' >= Twelve
    BY <1>9, <2>1 DEF Receive, ReceiveEnd, Healthy, Result, GoOn
  <2>5. ProbeTypeOK'
    BY <2>1, <2>2, <2>3 DEF request, ProbeTypeOK
  <2>6. QED
    BY <2>1, <2>3, <2>4, <2>5 DEF vars, request, ServingIsReady, AnswerIsMigrated,
       HealthyMeansAnswered
<1>10. CASE UNCHANGED systemVars
  BY <1>10 DEF systemVars, startVars, vars, ProbeTypeOK, ServingIsReady, AnswerIsMigrated,
     HealthyMeansAnswered
<1>11. QED
  BY <1>2, <1>3, <1>4, <1>5, <1>6, <1>7, <1>8, <1>9, <1>10 DEF SystemNext, Probe

\* The invariant of the probe and that of the migrations hold in every reachable
\* state of the system.
THEOREM SystemInvariant == SystemSpec => [](Inv /\ ProbeInv)
<1>1. SystemSpec => []Inv
  BY StartUpMigrates, MigrationInvariant, PTL
<1>2. QED
  BY <1>1, ProbeInvInit, ProbeInvStep, PTL DEF SystemSpec

\* Type correctness of the probe: remaining_ms() stays between zero and the
\* timeout for every timeout.
THEOREM ProbeTypeCorrect == SystemSpec => []ProbeTypeOK
<1>1. ProbeInv => ProbeTypeOK
  BY DEF ProbeInv
<1>2. QED
  BY <1>1, SystemInvariant, PTL

\* A probe says "healthy" only of a migrated database: no order of start-ups,
\* deaths and restarts, and no cut in the connection, gets a listener or an
\* answer before migrate() has returned.
THEOREM HealthyImpliesMigrated == SystemSpec => []HealthyMeansMigrated
<1>1. ProbeInv => HealthyMeansMigrated
  BY DEF ProbeInv, HealthyMeansAnswered, AnswerIsMigrated, HealthyMeansMigrated
<1>2. QED
  BY <1>1, SystemInvariant, PTL

\* "healthy" is said only after the whole request and a status of 200 that was
\* not cut off, into however many pieces the two were cut.
THEOREM HealthyImpliesAnswered == SystemSpec => []HealthyMeansAnswered
<1>1. ProbeInv => HealthyMeansAnswered
  BY DEF ProbeInv
<1>2. QED
  BY <1>1, SystemInvariant, PTL

-----------------------------------------------------------------------------
(* Probes end *)

Probing == probe \in {"connect", "send", "recv"}

\* The state after a tick, and after a probe gave up: that they are results of
\* Tick and of Probe says that these are enabled.
OneTickLater == <<vars, <<serving, probe, target, left - 1, sent, link, status, arrived, head, healthy>>>>
GivenUp      == <<vars, <<serving, "done", target, left, sent, "closed", status, arrived, head, FALSE>>>>

\* A probe that waits is never left without a next step: time can pass before the
\* deadline, and at the deadline the probe can give up, in whichever of its three
\* waits it is and whatever the server did with the connection.
THEOREM ProbesCanGoOn ==
  /\ ProbeTypeOK /\ Probing /\ left > 0 /\ systemVars' = OneTickLater => <<Tick>>_systemVars
  /\ ProbeTypeOK /\ Probing /\ left = 0 /\ systemVars' = GivenUp => <<Probe>>_systemVars
<1>1. ASSUME ProbeTypeOK, Probing, left > 0, systemVars' = OneTickLater
      PROVE  <<Tick>>_systemVars
  <2>1. left' = left - 1 /\ left' # left
    BY <1>1, ProbeAssumption DEF systemVars, startVars, OneTickLater, ProbeTypeOK
  <2>2. Tick
    BY <1>1, <2>1 DEF systemVars, startVars, OneTickLater, Probing, Tick, request
  <2>3. QED
    BY <2>1, <2>2 DEF systemVars, startVars
<1>2. ASSUME ProbeTypeOK, Probing, left = 0, systemVars' = GivenUp
      PROVE  <<Probe>>_systemVars
  <2>1. TimedOut
    BY <1>2 DEF systemVars, startVars, GivenUp, Probing, TimedOut, Result, request
  <2>2. probe' # probe
    BY <1>2 DEF systemVars, startVars, GivenUp, Probing
  <2>3. QED
    BY <2>1, <2>2 DEF systemVars, startVars, Probe
<1>3. QED
  BY <1>1, <1>2

\* While a probe is on its way no step but a tick touches its deadline: sending
\* and reading piece by piece, and whatever the server does, win no time.
LEMMA DeadlineKept ==
  ASSUME ProbeTypeOK, [SystemNext]_systemVars, Probing
  PROVE  /\ Probing' \/ probe' = "done"
         /\ left' = left \/ Tick
         /\ Tick => Probing' /\ left > 0 /\ left' = left - 1
         /\ left = 0 /\ Probe => probe' = "done"
<1>1. Tick => Probing' /\ left > 0 /\ left' = left - 1
  BY DEF Tick, Probing
<1>2. left = 0 /\ Probe => probe' = "done"
  BY DEF Probe, Connected, Send, Receive, ReceiveEnd, TimedOut, Result
<1>3. (Probing' \/ probe' = "done") /\ (left' = left \/ Tick)
  <2>1. CASE \E r \in Runners : Migrate(r) \/ Serve(r) \/ Die(r)
    BY <2>1 DEF Probing, Migrate, Serve, Die, startVars
  <2>2. CASE \E r \in Runners : Connect(r)
    BY <2>2 DEF Probing, Connect
  <2>3. CASE Respond \/ Close
    BY <2>3 DEF Probing, Respond, Close
  <2>4. CASE Probe
    BY <2>4 DEF Probing, Probe, Connected, Send, Receive, ReceiveEnd, TimedOut, Result, GoOn
  <2>5. CASE Tick
    BY <2>5, <1>1
  <2>6. CASE UNCHANGED systemVars
    BY <2>6 DEF Probing, systemVars, startVars
  <2>7. QED
    BY <2>1, <2>2, <2>3, <2>4, <2>5, <2>6 DEF SystemNext
<1>4. QED
  BY <1>1, <1>2, <1>3

\* Each rung of ProbesEnd: with n ticks left, a probe ends or has n - 1 left
\* before long, as time passes.
THEOREM DeadlineRunsDown ==
  ASSUME NEW n \in 1..Timeout
  PROVE  FairSystemSpec /\ [](Probing /\ left > 0 => ENABLED <<Tick>>_systemVars)
           => (Probing /\ left = n ~> probe = "done" \/ (Probing /\ left = n - 1))
<1> DEFINE Here  == Probing /\ left = n
           Below == probe = "done" \/ (Probing /\ left = n - 1)
<1>1. ProbeTypeOK /\ Here /\ [SystemNext]_systemVars => (Here \/ Below)'
  BY DeadlineKept DEF Probing
<1>2. ProbeTypeOK /\ Here /\ [SystemNext]_systemVars /\ <<Tick>>_systemVars => Below'
  BY DeadlineKept DEF Probing
<1>3. Here => Probing /\ left > 0
  BY ProbeAssumption
<1>4. QED
  BY <1>1, <1>2, <1>3, ProbeTypeCorrect, PTL DEF FairSystemSpec, SystemSpec, SystemFairness

\* The foot of the ladder: at its deadline a probe ends, whatever it waits for.
THEOREM DeadlineEndsProbe ==
  FairSystemSpec /\ [](Probing /\ left = 0 => ENABLED <<Probe>>_systemVars)
    => (Probing /\ left = 0 ~> probe = "done")
<1>1. ProbeTypeOK /\ Probing /\ left = 0 /\ [SystemNext]_systemVars
        => (Probing /\ left = 0)' \/ (probe = "done")'
  BY DeadlineKept DEF Probing
<1>2. ProbeTypeOK /\ Probing /\ left = 0 /\ [SystemNext]_systemVars /\ <<Probe>>_systemVars
        => (probe = "done")'
  BY DeadlineKept
<1>3. QED
  BY <1>1, <1>2, ProbeTypeCorrect, PTL DEF FairSystemSpec, SystemSpec, SystemFairness

-----------------------------------------------------------------------------
(* Instances come to serve *)

\* A file that cannot run twice and has run is recorded: nothing a crash left
\* behind makes it fail at every start.
OnceIsRecorded == applied \ Idempotent \subseteq recorded

\* A crash between a file and its row leaves only files that may run again without
\* their row, whichever of the two transactions it hits.
THEOREM NoFileBlocksStartUp == Spec => []OnceIsRecorded
<1>1. Init => OnceIsRecorded
  BY DEF Init, OnceIsRecorded
<1>2. TypeOK /\ OnceIsRecorded /\ [Next]_vars => OnceIsRecorded'
  <2> SUFFICES ASSUME TypeOK, OnceIsRecorded, [Next]_vars PROVE OnceIsRecorded'
    OBVIOUS
  <2>1. ASSUME NEW v \in Versions, Runs(v) PROVE OnceIsRecorded'
    BY <2>1, FilesAssumption DEF Runs, OnceIsRecorded
  <2>2. CASE \E r \in Runners : Execute(r) \/ ExecuteInDoubt(r)
    BY <2>1, <2>2 DEF Execute, ExecuteInDoubt, Due
  <2>3. CASE \E r \in Runners : Record(r)
    BY <2>3 DEF Record, OnceIsRecorded
  <2>4. CASE \/ \E r \in Runners : \/ Start(r) \/ EnsureMigrationsTable(r) \/ AppliedVersions(r)
                                   \/ Skip(r) \/ ExecuteRejected(r) \/ Finish(r)
                                   \/ ExecuteFails(r) \/ Stop(r)
             \/ UNCHANGED vars
    BY <2>4 DEF Start, EnsureMigrationsTable, AppliedVersions, Skip, ExecuteRejected, Finish,
       ExecuteFails, Stop, vars, OnceIsRecorded
  <2>5. QED
    BY <2>2, <2>3, <2>4 DEF Next, Advance
<1>3. QED
  BY <1>1, <1>2, TypeCorrect, PTL DEF Spec

\* What an instance may do next by itself: migrate, or listen.
Advances(r) == Advance(r) /\ UNCHANGED startVars

\* The state after instance r went to place p with that snapshot and version.
Moves(r, p, s, v) ==
  <<<<recorded, applied, [pc EXCEPT ![r] = p], [snapshot EXCEPT ![r] = s],
      [version EXCEPT ![r] = v], stops>>, startVars>>

\* The state after instance r ran the file it is at, or recorded its version.
Executed(r) ==
  <<<<IF version[r] \in SelfRecording THEN recorded \cup {version[r]} ELSE recorded,
      applied \cup {version[r]}, [pc EXCEPT ![r] = "record"], snapshot, version, stops>>, startVars>>
Recorded(r) ==
  <<<<recorded \cup {version[r]}, applied, [pc EXCEPT ![r] = "loop"], snapshot,
      [version EXCEPT ![r] = version[r] + 1], stops>>, startVars>>

\* A state that instance r can always go on to, written without primes.
Onward(r) ==
  CASE pc[r] = "down"   -> Moves(r, "ensure", snapshot[r], version[r])
    [] pc[r] = "ensure" -> Moves(r, "read", snapshot[r], version[r])
    [] pc[r] = "read"   -> Moves(r, "loop", recorded, 1)
    [] pc[r] = "record" -> Recorded(r)
    [] pc[r] = "loop" /\ version[r] \notin Versions -> Moves(r, "ready", snapshot[r], version[r])
    [] pc[r] = "loop" /\ version[r] \in snapshot[r] -> Moves(r, "loop", snapshot[r], version[r] + 1)
    [] Due(r) /\ version[r] \in applied \ Idempotent -> Moves(r, "down", snapshot[r], version[r])
    [] Due(r) /\ version[r] \notin applied \ Idempotent -> Executed(r)

\* Wherever an instance is on its way to "ready", it has a next step, whatever
\* others did to the database meanwhile.
THEOREM InstancesCanGoOn ==
  ASSUME TypeOK, NEW r \in Runners, pc[r] # "ready", systemVars' = Onward(r)
  PROVE  <<Advances(r)>>_systemVars
<1> USE DEF Advances, Advance, systemVars, vars, locals, GoTo
<1>1. /\ [snapshot EXCEPT ![r] = snapshot[r]] = snapshot
      /\ [version EXCEPT ![r] = version[r]] = version
      /\ [pc EXCEPT ![r] = pc[r]] = pc
  BY DEF TypeOK
<1>2. version[r] \in 1..(Last + 1) /\ snapshot[r] \subseteq Versions /\ pc[r] \in Places
  BY DEF TypeOK
<1>3. CASE pc[r] = "down"
  <2>1. systemVars' = Moves(r, "ensure", snapshot[r], version[r])
    BY <1>3 DEF Onward, Due
  <2>2. Start(r) /\ pc'[r] = "ensure"
    BY <1>1, <1>3, <2>1 DEF Moves, Start, TypeOK
  <2>3. QED
    BY <1>3, <2>1, <2>2 DEF Moves
<1>4. CASE pc[r] = "ensure"
  <2>1. systemVars' = Moves(r, "read", snapshot[r], version[r])
    BY <1>4 DEF Onward, Due
  <2>2. EnsureMigrationsTable(r) /\ pc'[r] = "read"
    BY <1>1, <1>4, <2>1 DEF Moves, EnsureMigrationsTable, TypeOK
  <2>3. QED
    BY <1>4, <2>1, <2>2 DEF Moves
<1>5. CASE pc[r] = "read"
  <2>1. systemVars' = Moves(r, "loop", recorded, 1)
    BY <1>5 DEF Onward, Due
  <2>2. AppliedVersions(r) /\ pc'[r] = "loop"
    BY <1>5, <2>1 DEF Moves, AppliedVersions, TypeOK
  <2>3. QED
    BY <1>5, <2>1, <2>2 DEF Moves
<1>6. CASE pc[r] = "record"
  <2>1. systemVars' = Recorded(r)
    BY <1>6 DEF Onward, Due
  <2>2. Record(r) /\ pc'[r] = "loop"
    BY <1>6, <2>1 DEF Recorded, Record, TypeOK
  <2>3. QED
    BY <1>6, <2>1, <2>2 DEF Recorded
<1>7. CASE pc[r] = "loop" /\ version[r] \notin Versions
  <2>1. systemVars' = Moves(r, "ready", snapshot[r], version[r])
    BY <1>7, <1>2 DEF Onward, Due
  <2>2. version[r] > Last
    BY <1>2, <1>7, FilesAssumption DEF Versions
  <2>3. Finish(r) /\ pc'[r] = "ready"
    BY <1>1, <1>7, <2>1, <2>2 DEF Moves, Finish, TypeOK
  <2>4. QED
    BY <1>7, <2>1, <2>3 DEF Moves
<1>8. CASE pc[r] = "loop" /\ version[r] \in Versions /\ version[r] \in snapshot[r]
  <2>1. systemVars' = Moves(r, "loop", snapshot[r], version[r] + 1)
    BY <1>8 DEF Onward, Due
  <2>2. Skip(r) /\ version'[r] = version[r] + 1
    BY <1>1, <1>8, <2>1 DEF Moves, Skip, TypeOK
  <2>3. version'[r] # version[r]
    BY <1>2, <2>2, FilesAssumption
  <2>4. QED
    BY <2>1, <2>2, <2>3 DEF Moves
<1>9. CASE Due(r) /\ version[r] \in applied \ Idempotent
  <2>1. systemVars' = Moves(r, "down", snapshot[r], version[r])
    BY <1>9 DEF Onward, Due
  <2>2. ExecuteRejected(r) /\ pc'[r] = "down"
    BY <1>1, <1>9, <2>1 DEF Moves, ExecuteRejected, TypeOK
  <2>3. QED
    BY <1>9, <2>1, <2>2 DEF Moves, Due
<1>10. CASE Due(r) /\ version[r] \notin applied \ Idempotent
  <2>1. systemVars' = Executed(r)
    BY <1>10 DEF Onward, Due
  <2>2. Execute(r) /\ pc'[r] = "record"
    BY <1>10, <2>1 DEF Executed, Execute, Runs, TypeOK
  <2>3. QED
    BY <1>10, <2>1, <2>2 DEF Executed, Due
<1>11. QED
  BY <1>2, <1>3, <1>4, <1>5, <1>6, <1>7, <1>8, <1>9, <1>10 DEF Places, Due

\* Where an instance's own step takes it.
LEMMA AdvanceCases ==
  ASSUME Inv, OnceIsRecorded, NEW r \in Runners, Advances(r)
  PROVE  /\ UNCHANGED startVars /\ recorded \subseteq recorded'
         /\ \/ pc[r] = "down" /\ pc'[r] = "ensure"
            \/ pc[r] = "ensure" /\ pc'[r] = "read"
            \/ pc[r] = "read" /\ pc'[r] = "loop" /\ version'[r] = 1 /\ snapshot'[r] = recorded
            \/ pc[r] = "loop" /\ version[r] \in Versions /\ pc'[r] = "loop" /\ version'[r] = version[r] + 1
            \/ pc[r] = "loop" /\ version[r] \in Versions /\ pc'[r] = "record" /\ version'[r] = version[r]
            \/ /\ pc[r] = "loop" /\ pc'[r] = "down"
               /\ version[r] \in recorded \ snapshot[r] /\ snapshot'[r] = snapshot[r]
            \/ pc[r] = "loop" /\ version[r] > Last /\ pc'[r] = "ready"
            \/ pc[r] = "record" /\ pc'[r] = "loop" /\ version'[r] = version[r] + 1
<1> USE DEF Inv, TypeOK, Advances, GoTo, locals
<1>1. recorded \subseteq recorded'
  <2>1. Next
    BY DEF Next
  <2>2. QED
    BY <2>1, Monotone
<1>2. CASE Start(r)
  BY <1>1, <1>2 DEF Start
<1>3. CASE EnsureMigrationsTable(r)
  BY <1>1, <1>3 DEF EnsureMigrationsTable
<1>4. CASE AppliedVersions(r)
  BY <1>1, <1>4 DEF AppliedVersions
<1>5. CASE Skip(r)
  BY <1>1, <1>5 DEF Skip
<1>6. CASE Execute(r)
  BY <1>1, <1>6 DEF Execute, Due, Runs
<1>7. CASE ExecuteRejected(r)
  BY <1>1, <1>7 DEF ExecuteRejected, Due, OnceIsRecorded
<1>8. CASE Record(r)
  BY <1>1, <1>8 DEF Record
<1>9. CASE Finish(r)
  BY <1>1, <1>9 DEF Finish
<1>10. QED
  BY <1>2, <1>3, <1>4, <1>5, <1>6, <1>7, <1>8, <1>9 DEF Advance

\* An instance that nothing stops is moved by its own steps only.
LEMMA InstanceStep ==
  ASSUME Inv, NEW r \in Runners, [SystemNext]_systemVars, stops' = stops
  PROVE  /\ recorded \subseteq recorded'
         /\ \/ pc'[r] = pc[r] /\ snapshot'[r] = snapshot[r] /\ version'[r] = version[r]
            \/ Advances(r)
         /\ serving \subseteq serving'
<1>1. stops \in Nat
  BY FilesAssumption DEF Inv, TypeOK
<1>2. recorded \subseteq recorded'
  <2>1. [Next]_vars
    BY SystemStep
  <2>2. QED
    BY <2>1, Monotone DEF Inv, vars
<1>3. CASE \E q \in Runners : Migrate(q)
  <2>1. PICK q \in Runners : Migrate(q)
    BY <1>3
  <2>2. Advances(q)
    BY <1>1, <2>1 DEF Migrate, ExecuteFails, ExecuteInDoubt, Advances
  <2>3. q # r => pc'[r] = pc[r] /\ snapshot'[r] = snapshot[r] /\ version'[r] = version[r]
    BY <2>2 DEF Inv, TypeOK, Advances, Advance, Start, EnsureMigrationsTable, AppliedVersions, Skip, Execute,
       ExecuteRejected, Runs, Record, Finish, GoTo, locals
  <2>4. QED
    BY <1>2, <2>2, <2>3 DEF Advances, startVars
<1>4. CASE \E q \in Runners : Die(q)
  BY <1>1, <1>4 DEF Die, Stop
<1>5. CASE \E q \in Runners : Serve(q) \/ Connect(q)
  BY <1>2, <1>5 DEF Serve, Connect, vars
<1>6. CASE Respond \/ Close \/ Probe \/ Tick \/ UNCHANGED systemVars
  BY <1>2, <1>6 DEF Respond, Close, Probe, Connected, Send, Receive, ReceiveEnd, TimedOut, Tick,
     systemVars, startVars, vars
<1>7. QED
  BY <1>3, <1>4, <1>5, <1>6 DEF SystemNext

\* What the theorems below assume of instance r: it keeps running when it can,
\* and it can when InstancesCanGoOn says so.
KeepsGoing(r) ==
  /\ WF_systemVars(Advances(r))
  /\ [](pc[r] # "ready" => ENABLED <<Advances(r)>>_systemVars)

\* From n failures on, none is added: crashes and failed calls have an end.
Quiet(n) == [](stops = n)

\* The first rung of EveryoneServes: an instance that is down comes to the first
\* version, with a snapshot that has every version S recorded by then: an instance
\* that lost a race does not lose the same one again.
THEOREM RestartsSeeRecords ==
  ASSUME NEW r \in Runners, NEW n \in Nat, NEW S \in SUBSET Versions
  PROVE  SystemSpec /\ KeepsGoing(r) =>
           [](Quiet(n) /\ pc[r] \in {"down", "ensure", "read"} /\ S \subseteq recorded
                => <>(pc[r] = "loop" /\ version[r] = 1 /\ S \subseteq snapshot[r]))
<1> DEFINE D == pc[r] = "down" /\ S \subseteq recorded
           E == pc[r] = "ensure" /\ S \subseteq recorded
           R == pc[r] = "read" /\ S \subseteq recorded
           L == pc[r] = "loop" /\ version[r] = 1 /\ S \subseteq snapshot[r]
           Still == stops = n /\ (stops = n)' /\ [SystemNext]_systemVars
           I == Inv /\ OnceIsRecorded
<1>1. pc[r] \in {"down", "ensure", "read"} /\ S \subseteq recorded <=> D \/ E \/ R
  OBVIOUS
<1>2. I /\ D /\ Still => (D \/ E)'
  BY InstanceStep, AdvanceCases
<1>3. I /\ E /\ Still => (E \/ R)'
  BY InstanceStep, AdvanceCases
<1>4. I /\ R /\ Still => (R \/ L)'
  BY InstanceStep, AdvanceCases
<1>5. I /\ D /\ Still /\ <<Advances(r)>>_systemVars => E'
  BY InstanceStep, AdvanceCases
<1>6. I /\ E /\ Still /\ <<Advances(r)>>_systemVars => R'
  BY InstanceStep, AdvanceCases
<1>7. I /\ R /\ Still /\ <<Advances(r)>>_systemVars => L'
  BY InstanceStep, AdvanceCases
<1>8. D \/ E \/ R => pc[r] # "ready"
  OBVIOUS
<1>9. SystemSpec => []I
  BY SystemInvariant, StartUpMigrates, NoFileBlocksStartUp, PTL
<1>10. QED
  BY <1>1, <1>2, <1>3, <1>4, <1>5, <1>6, <1>7, <1>8, <1>9, PTL DEF SystemSpec, KeepsGoing, Quiet

\* The rungs in the middle: at version v, an instance comes to the next version, or
\* it is rejected, and then another instance has recorded v since its snapshot.
THEOREM VersionsPass ==
  ASSUME NEW r \in Runners, NEW n \in Nat, NEW v \in Versions
  PROVE  SystemSpec /\ KeepsGoing(r) =>
           [](Quiet(n) /\ pc[r] \in {"loop", "record"} /\ version[r] = v
                => <>(\/ pc[r] = "loop" /\ version[r] = v + 1
                      \/ pc[r] = "down" /\ v \in recorded \ snapshot[r]))
<1> DEFINE A == pc[r] = "loop" /\ version[r] = v
           B == pc[r] = "record" /\ version[r] = v
           Z == \/ pc[r] = "loop" /\ version[r] = v + 1
                \/ pc[r] = "down" /\ v \in recorded \ snapshot[r]
           Still == stops = n /\ (stops = n)' /\ [SystemNext]_systemVars
           I == Inv /\ OnceIsRecorded
<1>1. pc[r] \in {"loop", "record"} /\ version[r] = v <=> A \/ B
  OBVIOUS
<1>2. v \in 1..Last /\ ~(v > Last)
  BY FilesAssumption DEF Versions
<1>3. I /\ A /\ Still => (A \/ B \/ Z)'
  BY <1>2, InstanceStep, AdvanceCases
<1>4. I /\ B /\ Still => (B \/ Z)'
  BY <1>2, InstanceStep, AdvanceCases
<1>5. I /\ A /\ Still /\ <<Advances(r)>>_systemVars => (B \/ Z)'
  BY <1>2, InstanceStep, AdvanceCases
<1>6. I /\ B /\ Still /\ <<Advances(r)>>_systemVars => Z'
  BY <1>2, InstanceStep, AdvanceCases
<1>7. A \/ B => pc[r] # "ready"
  OBVIOUS
<1>8. SystemSpec => []I
  BY SystemInvariant, StartUpMigrates, NoFileBlocksStartUp, PTL
<1>9. QED
  BY <1>1, <1>3, <1>4, <1>5, <1>6, <1>7, <1>8, PTL DEF SystemSpec, KeepsGoing, Quiet

\* The state in which instance r listens.
Listens(r) == <<vars, <<serving \cup {r}, probe, target, left, sent, link, status, arrived, head, healthy>>>>

\* A migrated instance can listen.
THEOREM ReadyCanListen ==
  ASSUME NEW r \in Runners, pc[r] = "ready", r \notin serving, systemVars' = Listens(r)
  PROVE  <<Serve(r)>>_systemVars
<1>1. Serve(r)
  BY DEF Listens, Serve, systemVars, startVars, request
<1>2. serving' # serving
  BY DEF Listens, systemVars, startVars
<1>3. QED
  BY <1>1, <1>2 DEF systemVars, startVars

\* The last rungs: past the last version an instance is ready, and then listens,
\* and if nothing stops it any more it does so for ever.
THEOREM MigratedInstancesServe ==
  ASSUME NEW r \in Runners, NEW n \in Nat
  PROVE  /\ SystemSpec /\ KeepsGoing(r) =>
              [](Quiet(n) /\ pc[r] = "loop" /\ version[r] = Last + 1 => <>(pc[r] = "ready"))
         /\ /\ SystemSpec /\ WF_systemVars(Serve(r))
            /\ [](pc[r] = "ready" /\ r \notin serving => ENABLED <<Serve(r)>>_systemVars)
            => [](Quiet(n) /\ pc[r] = "ready" => <>[](r \in serving))
<1> DEFINE L == pc[r] = "loop" /\ version[r] = Last + 1
           A == pc[r] = "ready"
           Still == stops = n /\ (stops = n)' /\ [SystemNext]_systemVars
           I == Inv /\ OnceIsRecorded
<1>1. Last \in Nat /\ Last + 1 \notin Versions /\ Last + 1 > Last
  BY FilesAssumption DEF Versions
<1>2. ASSUME I, L, Still
      PROVE  (L \/ A)' /\ (<<Advances(r)>>_systemVars => A')
  <2>1. recorded \subseteq Versions
    BY <1>2 DEF Inv, TypeOK
  <2>2. version[r] \notin Versions /\ version[r] \notin recorded
    BY <1>1, <1>2, <2>1
  <2>3. Advances(r) => A'
    BY <1>2, <2>2, AdvanceCases
  <2>4. QED
    BY <1>2, <2>3, InstanceStep
<1>3. /\ I /\ L /\ Still => (L \/ A)'
      /\ I /\ L /\ Still /\ <<Advances(r)>>_systemVars => A'
  BY <1>2
<1>4. L => pc[r] # "ready"
  OBVIOUS
<1>5. SystemSpec => []I
  BY SystemInvariant, StartUpMigrates, NoFileBlocksStartUp, PTL
<1>6. I /\ A /\ Still => A'
  BY InstanceStep, AdvanceCases
<1>7. I /\ r \in serving /\ Still => (r \in serving)'
  BY InstanceStep
<1>8. Serve(r) => (r \in serving)'
  BY DEF Serve
<1>9. r \notin serving <=> ~(r \in serving)
  OBVIOUS
<1>10. QED
  BY <1>3, <1>4, <1>5, <1>6, <1>7, <1>8, <1>9, PTL DEF SystemSpec, KeepsGoing, Quiet
=============================================================================
