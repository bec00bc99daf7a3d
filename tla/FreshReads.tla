----------------------------- MODULE FreshReads -----------------------------
(***************************************************************************)
(* What ResourceService promises the readers of one resource.              *)
(*                                                                         *)
(* Committed writes number the revisions of the row.  A fence is raised    *)
(* when a write has been carried through to the cache.  A read answers     *)
(* with a revision that is no older than the fence it started under; after *)
(* a lapse (see ResourceCache) it may answer with any older revision.      *)
(***************************************************************************)
EXTENDS Naturals

CONSTANT Threads

VARIABLES
  committed,  \* the number of the row's current revision
  fence,      \* the newest revision whose predecessors no read may return
  lapsed,     \* the version that guards the fills was forgotten under one
  status,     \* each thread: "idle", "reading" or "answered"
  floor,      \* the fence when the thread's read began
  answer      \* the revision the thread's read answers with

vars == <<committed, fence, lapsed, status, floor, answer>>

Init == /\ committed = 0
        /\ fence = 0
        /\ lapsed = FALSE
        /\ status = [t \in Threads |-> "idle"]
        /\ floor = [t \in Threads |-> 0]
        /\ answer = [t \in Threads |-> 0]

Begin(t) == /\ status[t] = "idle"
            /\ status' = [status EXCEPT ![t] = "reading"]
            /\ floor' = [floor EXCEPT ![t] = fence]
            /\ UNCHANGED <<committed, fence, lapsed, answer>>

Fresh(t) == {r \in 0..committed : lapsed \/ r >= floor[t]}

Answer(t) == /\ status[t] = "reading"
             /\ status' = [status EXCEPT ![t] = "answered"]
             /\ \E r \in Fresh(t) : answer' = [answer EXCEPT ![t] = r]
             /\ UNCHANGED <<committed, fence, lapsed, floor>>

\* The answer is delivered, or the read fails.
Finish(t) == /\ status[t] # "idle"
             /\ status' = [status EXCEPT ![t] = "idle"]
             /\ floor' = [floor EXCEPT ![t] = 0]
             /\ answer' = [answer EXCEPT ![t] = 0]
             /\ UNCHANGED <<committed, fence, lapsed>>

Write == /\ committed' = committed + 1
         /\ UNCHANGED <<fence, lapsed, status, floor, answer>>

RaiseFence == /\ fence' = committed
              /\ UNCHANGED <<committed, lapsed, status, floor, answer>>

Lapse == /\ lapsed' = TRUE
         /\ UNCHANGED <<committed, fence, status, floor, answer>>

\* The process restarts: every read in progress is gone.
Restart == /\ status' = [t \in Threads |-> "idle"]
           /\ floor' = [t \in Threads |-> 0]
           /\ answer' = [t \in Threads |-> 0]
           /\ UNCHANGED <<committed, fence, lapsed>>

Next == \/ \E t \in Threads : Begin(t) \/ Answer(t) \/ Finish(t)
        \/ Write \/ RaiseFence \/ Lapse \/ Restart

Spec == Init /\ [][Next]_vars
=============================================================================
