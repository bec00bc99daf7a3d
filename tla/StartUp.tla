------------------------------ MODULE StartUp -------------------------------
(***************************************************************************)
(* main() (src/src/main.cpp) from its first to its last step, and the      *)
(* health probe that the container runs beside it, main() with             *)
(* --health-check (src/src/gateway/health_probe.cpp).                      *)
(*                                                                         *)
(* An instance migrates the database, connects to Redis, registers its     *)
(* advices and routes and only then listens.  A probe connects to one      *)
(* instance, sends a request in pieces and reads the status line in pieces *)
(* on a non-blocking socket; poll() waits, up to one deadline for all of   *)
(* it.  EINTR and EAGAIN change nothing: the loops go round.               *)
(*                                                                         *)
(* Definitions named X_... are wrong versions of X that the properties are *)
(* shown to reject; no specification uses them.                            *)
(***************************************************************************)
EXTENDS MigrationRunner, Integers

CONSTANTS Timeout,   \* of a probe, in ticks
          Pieces     \* that the request may be sent in

ASSUME ProbeAssumption == Timeout \in Nat \ {0} /\ Pieces \in Nat \ {0}

VARIABLES
  serving,   \* the instances that listen
  probe,     \* where the probe is: "idle", "connect", "send", "recv", "done"
  target,    \* the instance it probes
  left,      \* remaining_ms(deadline)
  sent,      \* pieces of the request sent
  link,      \* the connection: "open", "closed" by the instance or "reset"
  status,    \* what the instance answers: "none", "200" or "other"
  arrived,   \* how much of the status line has been sent
  head,      \* and how much of it the probe has read
  healthy    \* its result

startVars == <<serving, probe, target, left, sent, link, status, arrived, head, healthy>>
systemVars == <<vars, startVars>>

\* How much of a status line there is: nothing (0), a part that is cut off in or
\* before the status (1), at least twelve characters, and a whole line.
Twelve == 2
WholeLine == 3

SystemInit ==
  /\ Init
  /\ serving = {}
  /\ probe = "idle" /\ target \in Runners /\ left = 0
  /\ sent = 0 /\ link = "closed" /\ status = "none" /\ arrived = 0 /\ head = 0
  /\ healthy = FALSE

request == <<target, sent, status, arrived>>

-----------------------------------------------------------------------------
(* main() *)

Migrate(r) == (Advance(r) \/ ExecuteFails(r) \/ ExecuteInDoubt(r)) /\ UNCHANGED startVars

\* Wrong: the listener is opened before the migrations.
Serve_Early(r) ==
  /\ pc[r] # "down" /\ r \notin serving
  /\ serving' = serving \cup {r}
  /\ UNCHANGED <<vars, probe, request, left, link, head, healthy>>

\* Redis answers, and app().run() listens.
Serve(r) ==
  /\ pc[r] = "ready" /\ r \notin serving
  /\ serving' = serving \cup {r}
  /\ UNCHANGED <<vars, probe, request, left, link, head, healthy>>

\* The process ends, or a step of main() fails, Redis included, and it returns 1;
\* the kernel closes or resets its connections.
Die(r) ==
  /\ Stop(r)
  /\ serving' = serving \ {r}
  /\ link' \in IF target = r /\ link = "open" THEN {"closed", "reset"} ELSE {link}
  /\ UNCHANGED <<probe, request, left, head, healthy>>

-----------------------------------------------------------------------------
(* The instance's end of the connection *)

\* The kernel and the server send the next part of the status line.  Only a whole
\* request is answered.
Respond ==
  /\ probe = "recv" /\ link = "open" /\ target \in serving
  /\ arrived < WholeLine
  /\ arrived' \in (arrived + 1)..WholeLine
  /\ status' \in IF status = "none" THEN {"200", "other"} ELSE {status}
  /\ UNCHANGED <<vars, serving, probe, target, left, sent, link, head, healthy>>

\* The server closes the connection.
Close ==
  /\ probe \in {"send", "recv"} /\ link = "open"
  /\ link' = "closed"
  /\ UNCHANGED <<vars, serving, probe, request, left, head, healthy>>

-----------------------------------------------------------------------------
(* probe_http_health() *)

\* The probe returns, which closes its socket, or goes on.
Result(ok) == probe' = "done" /\ healthy' = ok /\ link' = "closed"
GoOn(p)    == probe' = p /\ UNCHANGED <<healthy, link>>

\* connect() is refused, or under way.
Connect(r) ==
  /\ probe \in {"idle", "done"}
  /\ target' = r /\ left' = Timeout
  /\ sent' = 0 /\ status' = "none" /\ arrived' = 0 /\ head' = 0
  /\ \/ r \notin serving /\ Result(FALSE)
     \/ r \in serving /\ link' = "open" /\ probe' = "connect" /\ healthy' = FALSE
  /\ UNCHANGED <<vars, serving>>

\* poll() reports POLLOUT in time and SO_ERROR tells whether there is a connection.
Connected ==
  /\ probe = "connect" /\ left > 0
  /\ \/ link # "reset" /\ GoOn("send")
     \/ link # "open" /\ Result(FALSE)
  /\ UNCHANGED <<vars, serving, request, left, head>>

\* send() may still take what a closed connection will not deliver.
Send ==
  /\ probe = "send" /\ left > 0
  /\ \/ /\ link # "reset"
        /\ sent' \in (sent + 1)..Pieces
        /\ GoOn(IF sent' = Pieces THEN "recv" ELSE "send")
     \/ link # "open" /\ Result(FALSE) /\ UNCHANGED sent
  /\ UNCHANGED <<vars, serving, target, status, arrived, left, head>>

\* Wrong: any line that begins with HTTP/1. and is not an error is taken for
\* "200", a line that was cut off too.
Healthy_Prefix(n) == status = "200" /\ n > 0

\* At least twelve characters, with 200 at the ninth.
Healthy(n) == status = "200" /\ n >= Twelve

\* recv(): what has arrived is read up to the end of the line.
Receive ==
  /\ probe = "recv" /\ left > 0 /\ link # "reset"
  /\ head < arrived
  /\ head' \in (head + 1)..arrived
  /\ IF head' = WholeLine THEN Result(Healthy(head')) ELSE GoOn("recv")
  /\ UNCHANGED <<vars, serving, request, left>>

\* recv() returns 0 at the end of the stream, or an error after a reset.
ReceiveEnd ==
  /\ probe = "recv" /\ left > 0
  /\ \/ link = "closed" /\ head = arrived /\ Result(Healthy(head))
     \/ link = "reset" /\ Result(FALSE)
  /\ UNCHANGED <<vars, serving, request, left, head>>

\* Wrong: the wait for the answer starts again.
TimedOut_Retries ==
  /\ probe \in {"connect", "send", "recv"} /\ left = 0
  /\ \/ probe = "recv" /\ left' = Timeout /\ GoOn("recv")
     \/ probe # "recv" /\ Result(FALSE) /\ UNCHANGED left
  /\ UNCHANGED <<vars, serving, request, head>>

\* wait_for() at the deadline.
TimedOut ==
  /\ probe \in {"connect", "send", "recv"} /\ left = 0
  /\ Result(FALSE)
  /\ UNCHANGED <<vars, serving, request, left, head>>

\* Time passes: remaining_ms() goes down to zero and stays there.
Tick ==
  /\ probe \in {"connect", "send", "recv"} /\ left > 0
  /\ left' = left - 1
  /\ UNCHANGED <<vars, serving, probe, request, link, head, healthy>>

-----------------------------------------------------------------------------

Probe == Connected \/ Send \/ Receive \/ ReceiveEnd \/ TimedOut

SystemNext == \/ \E r \in Runners : Migrate(r) \/ Serve(r) \/ Die(r) \/ Connect(r)
              \/ Respond \/ Close \/ Probe \/ Tick

SystemSpec == SystemInit /\ [][SystemNext]_systemVars

\* An instance that is down is started again and one that runs goes on; time
\* passes, and a probe that has something to do does it.  Nothing makes a probe
\* start or an instance answer.
SystemFairness ==
  /\ \A r \in Runners : WF_systemVars(Advance(r) /\ UNCHANGED startVars) /\ WF_systemVars(Serve(r))
  /\ WF_systemVars(Tick) /\ WF_systemVars(Probe)

FairSystemSpec == SystemSpec /\ SystemFairness

-----------------------------------------------------------------------------
(* Properties *)

\* The types of the probe's variables; remaining_ms() is never negative.
ProbeTypeOK ==
  /\ serving \subseteq Runners
  /\ probe \in {"idle", "connect", "send", "recv", "done"}
  /\ target \in Runners /\ left \in 0..Timeout /\ sent \in 0..Pieces
  /\ link \in {"open", "closed", "reset"}
  /\ status \in {"none", "200", "other"}
  /\ arrived \in 0..WholeLine /\ head \in 0..arrived
  /\ healthy \in BOOLEAN

\* A probe that says "healthy" has spoken to an instance on a database with the
\* whole schema, recorded: no instance listens before migrate() has returned, and
\* no crash or restart on either side of the connection lets a probe take
\* something else for an answer.
HealthyMeansMigrated == healthy => recorded = Versions

\* "healthy" is said only at the end of a probe that has read a status of 200, not
\* cut off, in answer to the whole of its request, however the request and the
\* answer were cut into pieces.
HealthyMeansAnswered ==
  healthy => probe = "done" /\ sent = Pieces /\ status = "200" /\ head >= Twelve

\* Every probe ends, at a server that accepts and never answers as well as at one
\* that sends its answer piece by piece or dies.
ProbesEnd == probe \in {"connect", "send", "recv"} ~> probe = "done"

\* Whatever crashed between which two transactions, and although an instance that
\* lost a race dies of it, in the end every instance serves.
EveryoneServes == <>[](serving = Runners)
=============================================================================
