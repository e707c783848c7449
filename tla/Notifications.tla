----------------------------- MODULE Notifications -----------------------------
(***************************************************************************)
(* NotificationWorker and NotificationsService for one user: the table,    *)
(* and the number of unread rows that Redis keeps for five minutes. The    *)
(* number is looked at, changed and set by calls of their own, beside the  *)
(* table, by the worker and by concurrent requests.                        *)
(***************************************************************************)
EXTENDS JobQueue, Integers, FiniteSets

CONSTANTS
  Requests,   \* HTTP calls, each made once
  NoCounter

NotificationAssumption ==
  /\ Requests \cap Jobs = {} /\ NoCounter \notin Int

VARIABLES
  rows,      \* the notifications; a job that is handed out again writes another
  counter,   \* notifications:unread:<user>
  lasting,   \* has the key lost its expiry?
  stage,     \* how far each request, and the worker with each job, is
  at,        \* the row that each request is about
  counted,   \* the number each getUnreadCount has counted
  alone      \* since the key was absent and nobody busy: no two calls overlapped,
             \* none failed, and the key did not expire during one

vars == <<queueVars, rows, counter, lasting, stage, at, counted, alone>>

Actors == Requests \cup Jobs
Row == [job : Jobs, turn : Nat, read : BOOLEAN]
NoRow == [job |-> NoCounter, turn |-> 0, read |-> FALSE]

TypeOK ==
  /\ QueueTypeOK
  /\ rows \subseteq Row
  /\ counter \in Int \cup {NoCounter}
  /\ lasting \in BOOLEAN
  /\ stage \in [Actors -> {"idle", "done", "inserting", "looking", "increasing", "finishing",
                           "counting", "setting", "resetting", "marking", "getting", "decreasing",
                           "gettingFirst", "decreasingFirst", "removing"}]
  /\ at \in [Requests -> Row \cup {NoRow}]
  /\ counted \in [Requests -> Nat]
  /\ alone \in BOOLEAN

Init ==
  /\ QueueInit
  /\ rows = {}
  /\ counter = NoCounter
  /\ lasting = FALSE
  /\ stage = [a \in Actors |-> "idle"]
  /\ at = [r \in Requests |-> NoRow]
  /\ counted = [r \in Requests |-> 0]
  /\ alone = TRUE

Unread == Cardinality({n \in rows : ~n.read})
Busy == {a \in Actors : stage[a] \notin {"idle", "done"}}

Goes(a, next) ==
  /\ stage' = [stage EXCEPT ![a] = next]
  /\ alone' = (alone /\ Busy \subseteq {a})
Breaks(a, next) == stage' = [stage EXCEPT ![a] = next] /\ alone' = FALSE
SameCounter == UNCHANGED <<counter, lasting>>

\* INCRBY creates a key that is absent, without an expiry; SETEX gives it one.
IncrBy(n) ==
  IF counter = NoCounter THEN counter' = n /\ lasting' = TRUE
                         ELSE counter' = counter + n /\ UNCHANGED lasting
SetEx(n) == counter' = n /\ lasting' = FALSE

Expire ==
  /\ counter # NoCounter /\ ~lasting
  /\ counter' = NoCounter
  /\ alone' = (Busy = {})
  /\ UNCHANGED <<queueVars, rows, lasting, stage, at, counted>>
-----------------------------------------------------------------------------
(* The worker.                                                             *)

Enqueue(j) ==
  /\ Add(j)
  /\ UNCHANGED <<rows, counter, lasting, stage, at, counted, alone>>

Start(j) ==
  /\ TakeOneOf(Jobs, j) /\ Goes(j, "inserting")
  /\ SameCounter /\ UNCHANGED <<rows, at, counted>>

Insert(j) ==
  /\ stage[j] = "inserting"
  /\ rows' = rows \cup {[job |-> j, turn |-> HandedOut(j), read |-> FALSE]}
  /\ Goes(j, "looking")
  /\ SameCounter /\ UNCHANGED <<queueVars, at, counted>>

\* Injected fault: a key that is absent is increased as well.
LookAway(j) ==
  /\ stage[j] = "looking"
  /\ Goes(j, "increasing")
  /\ SameCounter /\ UNCHANGED <<queueVars, rows, at, counted>>

Look(j) ==
  /\ stage[j] = "looking"
  /\ Goes(j, IF counter = NoCounter THEN "finishing" ELSE "increasing")
  /\ SameCounter /\ UNCHANGED <<queueVars, rows, at, counted>>

Increase(j) ==
  /\ stage[j] = "increasing"
  /\ IncrBy(1) /\ Goes(j, "finishing")
  /\ UNCHANGED <<queueVars, rows, at, counted>>

Finish(j) ==
  /\ stage[j] = "finishing"
  /\ Completes(j) /\ Goes(j, "done")
  /\ SameCounter /\ UNCHANGED <<rows, at, counted>>

\* Injected fault: the worker logs the error and goes on.
WorkFailsQuietly(j) ==
  /\ stage[j] \in {"inserting", "looking", "increasing"}
  /\ Completes(j) /\ Breaks(j, "done")
  /\ SameCounter /\ UNCHANGED <<rows, at, counted>>

WorkFails(j) ==
  /\ stage[j] \in {"inserting", "looking", "increasing"}
  /\ Throws(j) /\ Breaks(j, "idle")
  /\ SameCounter /\ UNCHANGED <<rows, at, counted>>

WorkerDies(j) ==
  /\ Dies(j) /\ Breaks(j, "idle")
  /\ SameCounter /\ UNCHANGED <<rows, at, counted>>
-----------------------------------------------------------------------------
(* The requests.                                                           *)

\* getUnreadCount: the key, or else the table, and then the key is set.
GetUnreadCount(r) ==
  /\ \/ /\ stage[r] = "idle"
        /\ Goes(r, IF counter = NoCounter THEN "counting" ELSE "done")
        /\ SameCounter /\ UNCHANGED counted
     \/ /\ stage[r] = "counting"
        /\ counted' = [counted EXCEPT ![r] = Unread]
        /\ Goes(r, "setting") /\ SameCounter
     \/ /\ stage[r] = "setting"
        /\ SetEx(counted[r]) /\ Goes(r, "done") /\ UNCHANGED counted
  /\ UNCHANGED <<queueVars, rows, at>>

\* markRead and delete look the row up first; delete changes the number before
\* the table.
Find(r, n) ==
  /\ stage[r] = "idle" /\ n \in rows
  /\ at' = [at EXCEPT ![r] = n]
  /\ SameCounter /\ UNCHANGED <<queueVars, rows, counted>>
FindToMark(r) == \E n \in rows : Find(r, n) /\ Goes(r, IF n.read THEN "done" ELSE "marking")
FindToDelete(r) ==
  \E n \in rows : Find(r, n) /\ Goes(r, IF n.read THEN "removing" ELSE "gettingFirst")

Stored(n) == {m \in rows : m.job = n.job /\ m.turn = n.turn}

\* The update of a row that was deleted meanwhile throws.
Mark(r) ==
  /\ stage[r] = "marking"
  /\ IF Stored(at[r]) = {}
     THEN Breaks(r, "done") /\ UNCHANGED rows
     ELSE /\ rows' = (rows \ Stored(at[r])) \cup {[at[r] EXCEPT !.read = TRUE]}
          /\ Goes(r, "getting")
  /\ SameCounter /\ UNCHANGED <<queueVars, at, counted>>

Getting == {"getting", "gettingFirst"}
Decreasing(st) == IF st = "gettingFirst" THEN "decreasingFirst" ELSE "decreasing"
AfterCounter(st) == IF st \in {"gettingFirst", "decreasingFirst"} THEN "removing" ELSE "done"

\* Injected fault: a number that is not there is decreased as well.
GetAnyway(r) ==
  /\ stage[r] \in Getting
  /\ Goes(r, Decreasing(stage[r]))
  /\ SameCounter /\ UNCHANGED <<queueVars, rows, at, counted>>

Get(r) ==
  /\ stage[r] \in Getting
  /\ Goes(r, IF counter # NoCounter /\ counter > 0 THEN Decreasing(stage[r]) ELSE AfterCounter(stage[r]))
  /\ SameCounter /\ UNCHANGED <<queueVars, rows, at, counted>>

Decrease(r) ==
  /\ stage[r] \in {"decreasing", "decreasingFirst"}
  /\ IncrBy(-1) /\ Goes(r, AfterCounter(stage[r]))
  /\ UNCHANGED <<queueVars, rows, at, counted>>

Remove(r) ==
  /\ stage[r] = "removing"
  /\ rows' = rows \ Stored(at[r])
  /\ IF Stored(at[r]) = {} THEN Breaks(r, "done") ELSE Goes(r, "done")
  /\ SameCounter /\ UNCHANGED <<queueVars, at, counted>>

MarkAllRead(r) ==
  /\ \/ /\ stage[r] = "idle"
        /\ rows' = {[n EXCEPT !.read = TRUE] : n \in rows}
        /\ Goes(r, "resetting") /\ SameCounter
     \/ /\ stage[r] = "resetting"
        /\ SetEx(0) /\ Goes(r, "done") /\ UNCHANGED rows
  /\ UNCHANGED <<queueVars, at, counted>>

\* A query or a call to Redis fails, and the request with it.
RequestFails(r) ==
  /\ r \in Busy
  /\ Breaks(r, "done")
  /\ SameCounter /\ UNCHANGED <<queueVars, rows, at, counted>>

Work(j) == Start(j) \/ Insert(j) \/ Look(j) \/ Increase(j) \/ Finish(j) \/ WorkFails(j)

Request(r) ==
  \/ GetUnreadCount(r) \/ MarkAllRead(r) \/ FindToMark(r) \/ FindToDelete(r)
  \/ Mark(r) \/ Get(r) \/ Decrease(r) \/ Remove(r)

Next ==
  \/ Expire
  \/ \E j \in Jobs : Enqueue(j) \/ Work(j) \/ WorkerDies(j)
  \/ \E r \in Requests : Request(r) \/ RequestFails(r)

Spec == Init /\ [][Next]_vars
FairSpec == Spec /\ WF_vars(\E j \in Jobs : Work(j))
-----------------------------------------------------------------------------
\* Calls that do not overlap, and do not fail, keep the number in Redis that of
\* the table, whatever their order and wherever the key expires between them; and
\* the key keeps its expiry.
ExactWhenAlone == alone /\ Busy = {} => counter \in {NoCounter, Unread} /\ ~lasting

\* A user is told once for each time the job is handed out, and a job that has
\* completed has told the user.
ToldByItsJob ==
  \A j \in Jobs :
    LET told == {n \in rows : n.job = j} IN
    /\ Cardinality(told) <= HandedOut(j)
    /\ place[j] = "completed" /\ told = {} => \E r \in Requests : at[r].job = j

\* Every notification that was queued is worked off.
JobsEnd == []<>(\A j \in Jobs : place[j] \in {"none"} \cup Over)
=============================================================================
