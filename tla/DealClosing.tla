----------------------------- MODULE DealClosing -----------------------------
(***************************************************************************)
(* DealsService on one deal of one pipeline: concurrent requests create,   *)
(* update, move and delete it, and workflows write some of its fields. A   *)
(* move reads the deal, writes stage, status and history in one            *)
(* transaction, and then feeds the automation, webhook, notification,      *)
(* registration and payment queues one call after another, outside of it,  *)
(* so that it can stop anywhere in between.                                *)
(***************************************************************************)
EXTENDS Naturals, Sequences, SequencesExt

CONSTANTS
  Requests,   \* HTTP calls, each creates or moves the deal once
  Stages,     \* of the pipeline
  WonStages, LostStages,
  Values,     \* what the deal can be worth, 0 included
  Overrides,  \* the statuses that the tenant's workflows set
  Wallets,    \* the tenant's active operating wallets on Polygon
  NoDeal, NoStage, NoJob

VARIABLES
  deal,       \* the row
  history,    \* deal_stage_history, in the order of the commits
  step,       \* how far each request is
  move,       \* the stages each request has read
  closing,    \* what updatedDeal is worth in USDC, of each request that won
  owned,      \* whether the updatedDeal of each request has an owner
  adding,     \* the add calls of Promise.all that have not landed, per request
  queued,     \* the jobs that reached their queue
  intentJob,  \* the request whose create_intent job holds the job id
  overruled   \* whether a workflow has written the status since the deal was closed last

vars == <<deal, history, step, move, closing, owned, adding, queued, intentJob, overruled>>

Statuses == {"OPEN", "WON", "LOST", "ON_HOLD"}

Deal == [stage : Stages, status : Statuses, currency : {"USD", "USDC"}, value : Values,
         hasOwner : BOOLEAN]

DealAssumption ==
  /\ WonStages \subseteq Stages /\ LostStages \subseteq Stages
  /\ WonStages \cap LostStages = {}
  /\ NoStage \notin Stages /\ NoJob \notin Requests /\ NoDeal \notin Deal
  /\ Values \subseteq Nat
  /\ Overrides \subseteq Statuses

Job == [queue : {"automation", "webhook", "notification", "blockchain", "payment"},
        by : Requests]

TypeOK ==
  /\ deal \in Deal \cup {NoDeal}
  /\ history \in Seq([from : Stages \cup {NoStage}, to : Stages, by : Requests])
  /\ step \in [Requests -> {"idle", "created", "read", "written", "announced", "notified",
                            "registered", "done", "failed"}]
  /\ move \in [Requests -> [from : Stages \cup {NoStage}, to : Stages \cup {NoStage}]]
  /\ closing \in [Requests -> Values \cup {0}]
  /\ owned \in [Requests -> BOOLEAN]
  /\ adding \in [Requests -> SUBSET {"automation", "webhook"}]
  /\ queued \subseteq Job
  /\ intentJob \in Requests \cup {NoJob}
  /\ overruled \in BOOLEAN

\* No deal yet, one that was seeded, or one that the conversion of a lead made: OPEN in
\* whatever stage the caller named, in dollars and without an owner. The API takes currencies
\* of three letters, so that a deal in USDC can only be a seeded one.
Seeded == {d \in Deal : d.status = "OPEN" /\ d.stage \notin WonStages \cup LostStages}
Converted == {d \in Deal : d.status = "OPEN" /\ d.currency = "USD" /\ ~d.hasOwner}

Init ==
  /\ deal \in Seeded \cup Converted \cup {NoDeal}
  /\ history = <<>>
  /\ step = [r \in Requests |-> "idle"]
  /\ move = [r \in Requests |-> [from |-> NoStage, to |-> NoStage]]
  /\ closing = [r \in Requests |-> 0]
  /\ owned = [r \in Requests |-> FALSE]
  /\ adding = [r \in Requests |-> {}]
  /\ queued = {}
  /\ intentJob = NoJob
  /\ overruled = FALSE

Go(r, next) == step' = [step EXCEPT ![r] = next]

Add(r, queue) == queued' = queued \cup {[queue |-> queue, by |-> r]}

InUsdc(d) == IF d.currency = "USDC" THEN d.value ELSE 0

Created(r) == move[r].from = NoStage
IsWin(r) == ~Created(r) /\ move[r].to \in WonStages
Closes(r) == ~Created(r) /\ move[r].to \in WonStages \cup LostStages

-----------------------------------------------------------------------------
(* create: the row and its first history row are written apart.            *)

Create(r) ==
  /\ step[r] = "idle" /\ deal = NoDeal /\ \A o \in Requests : step[o] = "idle"
  /\ \E s \in Stages, v \in Values :
       /\ deal' = [stage |-> s, status |-> "OPEN", currency |-> "USD", value |-> v,
                   hasOwner |-> TRUE]
       /\ move' = [move EXCEPT ![r].to = s]
  /\ Go(r, "created")
  /\ UNCHANGED <<history, closing, owned, adding, queued, intentJob, overruled>>

\* Fails when the deal has been deleted in between: a foreign key.
RecordCreation(r) ==
  /\ step[r] = "created"
  /\ IF deal = NoDeal
     THEN Go(r, "failed") /\ UNCHANGED <<history, adding>>
     ELSE /\ history' = Append(history, [from |-> NoStage, to |-> move[r].to, by |-> r])
          /\ adding' = [adding EXCEPT ![r] = {"automation", "webhook"}]
          /\ Go(r, "written")
  /\ UNCHANGED <<deal, move, closing, owned, queued, intentJob, overruled>>

(* update and delete.                                                      *)

Update ==
  /\ deal # NoDeal
  /\ \E v \in Values, c \in {"USD", deal.currency} :
       deal' = [deal EXCEPT !.value = v, !.currency = c]
  /\ UNCHANGED <<history, step, move, closing, owned, adding, queued, intentJob, overruled>>

Delete ==
  /\ deal # NoDeal
  /\ deal' = NoDeal
  /\ history' = <<>>
  /\ UNCHANGED <<step, move, closing, owned, adding, queued, intentJob, overruled>>

\* UPDATE_FIELD of a workflow, which may name status and value among others. (Its
\* ASSIGN_OWNER looks for the deal's id where no event has it, and writes nothing.)
UpdateField ==
  /\ deal # NoDeal
  /\ \/ \E v \in Overrides : deal' = [deal EXCEPT !.status = v] /\ overruled' = TRUE
     \/ \E v \in Values : deal' = [deal EXCEPT !.value = v] /\ UNCHANGED overruled
  /\ UNCHANGED <<history, step, move, closing, owned, adding, queued, intentJob>>

(* moveStage.                                                              *)

\* findById and the lookup of the stage, both before the transaction.
ReadDeal(r) ==
  /\ step[r] = "idle" /\ deal # NoDeal
  /\ \E s \in Stages : move' = [move EXCEPT ![r] = [from |-> deal.stage, to |-> s]]
  /\ Go(r, "read")
  /\ UNCHANGED <<deal, history, closing, owned, adding, queued, intentJob, overruled>>

\* Injected fault: a deal that is moved on keeps no status.
WriteMoveOnly(r) ==
  /\ step[r] = "read" /\ deal # NoDeal
  /\ deal' = [deal EXCEPT !.stage = move[r].to,
                          !.status = IF move[r].to \in WonStages THEN "WON" ELSE "MOVED"]
  /\ Go(r, "written")
  /\ UNCHANGED <<history, move, closing, owned, adding, queued, intentJob, overruled>>

\* Injected fault: a deal that was won when it was read stays so.
WriteMoveStale(r) ==
  /\ step[r] = "read" /\ deal # NoDeal
  /\ deal' = [deal EXCEPT !.stage = move[r].to,
                          !.status = IF {move[r].from, move[r].to} \cap WonStages # {} THEN "WON"
                                     ELSE IF move[r].to \in LostStages THEN "LOST" ELSE @]
  /\ history' = Append(history, [from |-> move[r].from, to |-> move[r].to, by |-> r])
  /\ closing' = [closing EXCEPT ![r] = InUsdc(deal)]
  /\ owned' = [owned EXCEPT ![r] = deal.hasOwner]
  /\ adding' = [adding EXCEPT ![r] = {"automation", "webhook"}]
  /\ Go(r, "written")
  /\ UNCHANGED <<move, queued, intentJob, overruled>>

\* The transaction; it rolls back when the deal is gone. A deal that leaves a
\* closing stage keeps its status.
WriteMove(r) ==
  /\ step[r] = "read"
  /\ IF deal = NoDeal
     THEN Go(r, "failed") /\ UNCHANGED <<deal, history, closing, owned, adding, overruled>>
     ELSE /\ deal' = [deal EXCEPT !.stage = move[r].to,
                        !.status = IF move[r].to \in WonStages THEN "WON"
                                   ELSE IF move[r].to \in LostStages THEN "LOST" ELSE @]
          /\ history' = Append(history, [from |-> move[r].from, to |-> move[r].to, by |-> r])
          /\ closing' = [closing EXCEPT ![r] = IF IsWin(r) THEN InUsdc(deal) ELSE 0]
          /\ owned' = [owned EXCEPT ![r] = deal.hasOwner]
          /\ overruled' = (overruled /\ ~Closes(r))
          /\ adding' = [adding EXCEPT ![r] = {"automation", "webhook"}]
          /\ Go(r, "written")
  /\ UNCHANGED <<move, queued, intentJob>>

\* The two calls of Promise.all land in either order; when one has failed, the
\* other may still.
Announce(r, queue) ==
  /\ step[r] \in {"written", "failed"} /\ queue \in adding[r]
  /\ Add(r, queue)
  /\ adding' = [adding EXCEPT ![r] = @ \ {queue}]
  /\ UNCHANGED <<deal, history, step, move, closing, owned, intentJob, overruled>>

\* Injected fault: the two adds are started and not waited for.
AnnouncedUnawaited(r) ==
  /\ step[r] = "written"
  /\ Go(r, IF Created(r) THEN "done" ELSE "announced")
  /\ UNCHANGED <<deal, history, move, closing, owned, adding, queued, intentJob, overruled>>

Announced(r) ==
  /\ step[r] = "written" /\ adding[r] = {}
  /\ Go(r, IF Created(r) THEN "done" ELSE "announced")
  /\ UNCHANGED <<deal, history, move, closing, owned, adding, queued, intentJob, overruled>>

\* Injected fault: the call returns when the owner is told.
NotifyAndReturn(r) ==
  /\ step[r] = "announced"
  /\ IF Closes(r) /\ owned[r] THEN Add(r, "notification") ELSE UNCHANGED queued
  /\ Go(r, "done")
  /\ UNCHANGED <<deal, history, move, closing, owned, adding, intentJob, overruled>>

\* Only an owner can be told.
Notify(r) ==
  /\ step[r] = "announced"
  /\ IF Closes(r) /\ owned[r] THEN Add(r, "notification") ELSE UNCHANGED queued
  /\ Go(r, IF Closes(r) THEN "notified" ELSE "done")
  /\ UNCHANGED <<deal, history, move, closing, owned, adding, intentJob, overruled>>

Register(r) ==
  /\ step[r] = "notified"
  /\ IF IsWin(r) THEN Add(r, "blockchain") /\ Go(r, "registered")
                ELSE Go(r, "done") /\ UNCHANGED queued
  /\ UNCHANGED <<deal, history, move, closing, owned, adding, intentJob, overruled>>

\* Injected fault: every won deal is billed.
QueueIntentAlways(r) ==
  /\ step[r] = "registered"
  /\ IF intentJob = NoJob
     THEN Add(r, "payment") /\ intentJob' = r ELSE UNCHANGED <<queued, intentJob>>
  /\ Go(r, "done")
  /\ UNCHANGED <<deal, history, move, closing, owned, adding, overruled>>

\* The wallet is looked up and the job added unless one with its id is still
\* there; a failure of either is caught.
QueueIntent(r) ==
  /\ step[r] = "registered"
  /\ IF closing[r] > 0 /\ Wallets # {} /\ intentJob = NoJob
     THEN Add(r, "payment") /\ intentJob' = r
     ELSE UNCHANGED <<queued, intentJob>>
  /\ Go(r, "done")
  /\ UNCHANGED <<deal, history, move, closing, owned, adding, overruled>>

IntentLost(r) ==
  /\ step[r] = "registered"
  /\ Go(r, "done")
  /\ UNCHANGED <<deal, history, move, closing, owned, adding, queued, intentJob, overruled>>

\* The queue drops its oldest ended jobs, and their ids with them.
ForgetIntentJob ==
  /\ intentJob # NoJob
  /\ intentJob' = NoJob
  /\ UNCHANGED <<deal, history, step, move, closing, owned, adding, queued, overruled>>

\* A query or an add fails, and the call with it.
Fault(r) ==
  /\ step[r] \in {"created", "read", "written", "announced", "notified"}
  /\ Go(r, "failed")
  /\ \E lost \in SUBSET adding[r] :
       adding' = [adding EXCEPT ![r] = @ \ lost]
  /\ UNCHANGED <<deal, history, move, closing, owned, queued, intentJob, overruled>>

Step(r) ==
  \/ RecordCreation(r) \/ WriteMove(r) \/ Announced(r) \/ Notify(r)
  \/ Register(r) \/ QueueIntent(r)
  \/ \E q \in {"automation", "webhook"} : Announce(r, q)

Next ==
  \/ \E r \in Requests :
       Create(r) \/ ReadDeal(r) \/ Step(r) \/ IntentLost(r) \/ Fault(r)
  \/ Update \/ UpdateField \/ Delete \/ ForgetIntentJob

Spec == Init /\ [][Next]_vars

\* The server finishes the calls it has begun.
FairSpec == Spec /\ WF_vars(\E r \in Requests : Step(r))
-----------------------------------------------------------------------------
\* The status is that of the closing stage a deal was moved to last, however
\* moves overlap: one that closes the deal never leaves the status of another. Only a
\* workflow can overrule it, until the deal is closed again.
LastCloseCounts ==
  LET closes == {i \in DOMAIN history : history[i].from # NoStage
                                         /\ history[i].to \in WonStages \cup LostStages} IN
  deal # NoDeal /\ closes # {} /\ ~overruled =>
    LET last == CHOOSE i \in closes : \A j \in closes : j <= i IN
    deal.status = IF history[last].to \in WonStages THEN "WON" ELSE "LOST"

QueuedBy(r) == {j.queue : j \in {j \in queued : j.by = r}}

\* A deal whose hash is registered, or which is billed, has been announced to
\* automation, webhooks and the owner, if it had one when it was won, whichever
\* calls fail. A deal that a conversion made has none.
ClosedInOrder ==
  \A r \in Requests :
    /\ QueuedBy(r) \cap {"blockchain", "payment"} # {} =>
         {"automation", "webhook"} \cup (IF owned[r] THEN {"notification"} ELSE {}) \subseteq QueuedBy(r)
    /\ "payment" \in QueuedBy(r) => "blockchain" \in QueuedBy(r)

\* Every win that commits is sent to the chain, unless its call fails.
WinsAreRegistered ==
  []<>(\A r \in Requests :
         step[r] \notin {"idle", "created", "read", "failed"} /\ IsWin(r) =>
           \E j \in queued : j.by = r /\ j.queue = "blockchain")
=============================================================================
