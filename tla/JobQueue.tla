------------------------------- MODULE JobQueue -------------------------------
(***************************************************************************)
(* The life of the jobs of one BullMQ queue, as its workers see it: a job  *)
(* is handed to a worker, which completes it, throws, or dies; a job that  *)
(* was thrown is handed out again until its attempts are used up, and one  *)
(* whose worker died is handed out again once. Each worker's module extends *)
(* this one with what the worker does while it holds the job.              *)
(***************************************************************************)
EXTENDS Naturals

CONSTANTS
  Jobs,
  MaxTries   \* attempts of a job

QueueAssumption == MaxTries \in Nat /\ MaxTries > 0

VARIABLES
  place,   \* where each job is
  tries,   \* attempts that ended in an error
  stalls   \* workers that died holding it

queueVars == <<place, tries, stalls>>

Over == {"completed", "failed"}

QueueTypeOK ==
  /\ place \in [Jobs -> {"none", "waiting", "active"} \cup Over]
  /\ tries \in [Jobs -> 0 .. MaxTries]
  /\ stalls \in [Jobs -> 0 .. 2]

QueueInit ==
  /\ place = [j \in Jobs |-> "none"]
  /\ tries = [j \in Jobs |-> 0]
  /\ stalls = [j \in Jobs |-> 0]

Moves(j, from, to) ==
  /\ place[j] = from
  /\ place' = [place EXCEPT ![j] = to]
  /\ UNCHANGED <<tries, stalls>>

Add(j) == Moves(j, "none", "waiting")

\* A worker of the source takes one job at a time.
TakeOneOf(alike, j) ==
  /\ \A other \in alike : place[other] # "active"
  /\ Moves(j, "waiting", "active")
Completes(j) == Moves(j, "active", "completed")

\* UnrecoverableError: no further attempt.
GivesUp(j) == Moves(j, "active", "failed")

\* Injected faults: an attempt too many, and attempts that are not counted.
ThrowsOnceMore(j) ==
  /\ place[j] = "active"
  /\ tries' = [tries EXCEPT ![j] = @ + 1]
  /\ place' = [place EXCEPT ![j] = IF tries[j] < MaxTries THEN "waiting" ELSE "failed"]
  /\ UNCHANGED stalls
ThrowsUncounted(j) == Moves(j, "active", "waiting")

Throws(j) ==
  /\ place[j] = "active"
  /\ tries' = [tries EXCEPT ![j] = @ + 1]
  /\ place' = [place EXCEPT ![j] = IF tries[j] + 1 < MaxTries THEN "waiting" ELSE "failed"]
  /\ UNCHANGED stalls

\* The worker dies; maxStalledCount is 1.
Dies(j) ==
  /\ place[j] = "active"
  /\ stalls' = [stalls EXCEPT ![j] = @ + 1]
  /\ place' = [place EXCEPT ![j] = IF stalls[j] = 0 THEN "waiting" ELSE "failed"]
  /\ UNCHANGED tries

\* How often a job has been handed out at most.
HandedOut(j) == tries[j] + stalls[j] + 1
=============================================================================
