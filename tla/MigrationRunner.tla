-------------------------- MODULE MigrationRunner ---------------------------
(***************************************************************************)
(* corvus::db::MigrationRunner (src/src/db/migration_runner.cpp) as main() *)
(* runs it: several instances of the server start, stop, crash and start   *)
(* again against one database.                                             *)
(*                                                                         *)
(* apply() runs the SQL of a file, which is one transaction, and then      *)
(* records its version in a second transaction.  A file may insert its own *)
(* row into schema_migrations, as 0001 does, or be safe to run again, as   *)
(* 0002 is; a file that is neither fails when its objects exist already.   *)
(* A MigrationError ends the process; it is started again later.           *)
(*                                                                         *)
(* Definitions named X_... are wrong versions of X that the properties are *)
(* shown to reject; no specification uses them.                            *)
(***************************************************************************)
EXTENDS Naturals

CONSTANTS Runners,         \* the instances of the server
          Last,            \* the files have the versions 1..Last
          SelfRecording,   \* versions of the files that record themselves
          Idempotent,      \* versions of the files that may run again
          MaxStops         \* bound on crashes and failed calls

Versions == 1..Last

\* True of the files in src/db/migrations: 0001 records itself, 0002 may run
\* again.
ASSUME FilesAssumption == /\ Last \in Nat /\ MaxStops \in Nat
                          /\ SelfRecording \cup Idempotent = Versions
                          /\ SelfRecording \cap Idempotent = {}

VARIABLES
  recorded,   \* the versions in schema_migrations
  applied,    \* the versions whose effects are in the schema
  pc,         \* where each instance is
  snapshot,   \* the result of applied_versions()
  version,    \* the file the loop of migrate() is at
  stops       \* crashes and failed calls so far

vars == <<recorded, applied, pc, snapshot, version, stops>>
locals == <<snapshot, version>>

\* "down": not running; "record": between the two transactions of apply();
\* "ready": migrate() has returned and the server starts.
Places == {"down", "ensure", "read", "loop", "record", "ready"}

Init == /\ recorded = {} /\ applied = {}
        /\ pc = [r \in Runners |-> "down"]
        /\ snapshot = [r \in Runners |-> {}]
        /\ version = [r \in Runners |-> 1]
        /\ stops = 0

GoTo(r, p) == pc' = [pc EXCEPT ![r] = p]

\* main() builds the runner and discover() lists the files, sorted.
Start(r) ==
  /\ pc[r] = "down"
  /\ GoTo(r, "ensure")
  /\ UNCHANGED <<recorded, applied, locals, stops>>

\* CREATE TABLE IF NOT EXISTS schema_migrations
EnsureMigrationsTable(r) ==
  /\ pc[r] = "ensure"
  /\ GoTo(r, "read")
  /\ UNCHANGED <<recorded, applied, locals, stops>>

\* The snapshot that the loop of migrate() works from.
AppliedVersions(r) ==
  /\ pc[r] = "read"
  /\ snapshot' = [snapshot EXCEPT ![r] = recorded]
  /\ version' = [version EXCEPT ![r] = 1]
  /\ GoTo(r, "loop")
  /\ UNCHANGED <<recorded, applied, stops>>

\* The loop of migrate() at a version that the snapshot has.
Skip(r) ==
  /\ pc[r] = "loop"
  /\ version[r] \in Versions
  /\ version[r] \in snapshot[r]
  /\ version' = [version EXCEPT ![r] = @ + 1]
  /\ UNCHANGED <<recorded, applied, pc, snapshot, stops>>

\* The loop is at a version that the snapshot does not have.
Due(r) == pc[r] = "loop" /\ version[r] \in Versions /\ version[r] \notin snapshot[r]

\* Wrong: a file's own row is left to the second transaction.
Runs_WithoutOwnRow(v) == /\ v \notin applied \/ v \in Idempotent
                         /\ applied' = applied \cup {v}
                         /\ UNCHANGED <<recorded, locals>>

\* Running a file commits all of its effects.
Runs(v) == /\ v \notin applied \/ v \in Idempotent
           /\ applied' = applied \cup {v}
           /\ recorded' = IF v \in SelfRecording THEN recorded \cup {v} ELSE recorded
           /\ UNCHANGED locals

Execute(r) ==
  /\ Due(r)
  /\ Runs(version[r])
  /\ GoTo(r, "record")
  /\ UNCHANGED stops

\* A file that another instance ran meanwhile, or that ran before a crash,
\* fails on its own objects.
ExecuteRejected(r) ==
  /\ Due(r)
  /\ version[r] \in applied \ Idempotent
  /\ GoTo(r, "down")
  /\ UNCHANGED <<recorded, applied, locals, stops>>

\* Wrong: the error is logged and the loop goes on to record the version.
ExecuteFails_Ignored(r) ==
  /\ Due(r)
  /\ stops < MaxStops
  /\ stops' = stops + 1
  /\ GoTo(r, "record")
  /\ UNCHANGED <<recorded, applied, locals>>

\* Wrong: the error is logged and the loop goes on to the next version.
ExecuteFails_Continues(r) ==
  /\ Due(r)
  /\ stops < MaxStops
  /\ stops' = stops + 1
  /\ version' = [version EXCEPT ![r] = @ + 1]
  /\ UNCHANGED <<recorded, applied, pc, snapshot>>

\* The file fails for another reason and is rolled back.
ExecuteFails(r) ==
  /\ Due(r)
  /\ stops < MaxStops
  /\ stops' = stops + 1
  /\ GoTo(r, "down")
  /\ UNCHANGED <<recorded, applied, locals>>

\* The connection is lost after the file's COMMIT: exec() throws all the same.
ExecuteInDoubt(r) ==
  /\ Due(r)
  /\ stops < MaxStops
  /\ stops' = stops + 1
  /\ Runs(version[r])
  /\ GoTo(r, "down")

\* INSERT ... ON CONFLICT DO NOTHING
Record(r) ==
  /\ pc[r] = "record"
  /\ recorded' = recorded \cup {version[r]}
  /\ version' = [version EXCEPT ![r] = @ + 1]
  /\ GoTo(r, "loop")
  /\ UNCHANGED <<applied, snapshot, stops>>

\* migrate() returns and current_version() is logged.
Finish(r) ==
  /\ pc[r] = "loop"
  /\ version[r] > Last
  /\ GoTo(r, "ready")
  /\ UNCHANGED <<recorded, applied, locals, stops>>

\* The process dies, or a call to the database fails without effect and main()
\* returns 1.
Stop(r) ==
  /\ pc[r] # "down"
  /\ stops < MaxStops
  /\ stops' = stops + 1
  /\ GoTo(r, "down")
  /\ UNCHANGED <<recorded, applied, locals>>

Advance(r) == \/ Start(r) \/ EnsureMigrationsTable(r) \/ AppliedVersions(r)
              \/ Skip(r) \/ Execute(r) \/ ExecuteRejected(r) \/ Record(r) \/ Finish(r)

Next == \E r \in Runners : Advance(r) \/ ExecuteFails(r) \/ ExecuteInDoubt(r) \/ Stop(r)

Spec == Init /\ [][Next]_vars

-----------------------------------------------------------------------------

\* The types of the database's and of the instances' variables.
TypeOK == /\ recorded \subseteq Versions /\ applied \subseteq Versions
          /\ pc \in [Runners -> Places]
          /\ snapshot \in [Runners -> SUBSET Versions]
          /\ version \in [Runners -> 1..(Last + 1)]
          /\ stops \in 0..MaxStops

\* schema_migrations never claims a migration whose effects are not there,
\* wherever an instance died and however instances ran apply() side by side.
RecordedMeansApplied == recorded \subseteq applied

\* A file takes effect only after all files of lower versions, although every
\* instance works from a snapshot that others make obsolete.
AppliedInOrder == \A v \in applied : 1..v \subseteq applied

\* A server that goes on to serve requests has the whole schema, recorded.
ReadyMeansMigrated == \A r \in Runners : pc[r] = "ready" => recorded = Versions
=============================================================================
