------------------------------- MODULE Webhooks -------------------------------
(***************************************************************************)
(* WebhooksService and WebhookWorker: a job of the webhook queue is posted *)
(* to every active webhook it finds, to all of them at once; each delivery *)
(* is recorded and then counted in failureCount, on its own. What happens  *)
(* to a delivery never reaches the queue: the worker waits with            *)
(* Promise.allSettled. All webhooks here listen to the jobs' event.        *)
(***************************************************************************)
EXTENDS JobQueue, FiniteSets

CONSTANTS
  Hooks,
  OwnerOf,    \* [Hooks -> tenants]
  TenantOf,   \* [Jobs -> tenants, NoTenant or Test]: retryDelivery and testWebhook
              \* name a webhook and no tenant
  NoTenant, Test

VARIABLES
  hook,         \* webhook_configs: is each active, inactive, or deleted
  failures,     \* failureCount
  deliveries,   \* webhook_deliveries
  sending       \* how far the delivery of each job to each webhook is

vars == <<queueVars, hook, failures, deliveries, sending>>

\* A delivery is one of a turn: a time the job was handed out.
Delivery == [job : Jobs, hook : Hooks, turn : Nat, success : BOOLEAN]

TypeOK ==
  /\ QueueTypeOK
  /\ hook \in [Hooks -> {"active", "inactive", "deleted"}]
  /\ failures \in [Hooks -> Nat]
  /\ deliveries \subseteq Delivery
  /\ sending \in [Jobs -> [Hooks ->
       {"idle", "posting", "taken", "refused", "takenLogged", "refusedLogged", "settled"}]]

Init ==
  /\ QueueInit
  /\ hook = [h \in Hooks |-> "active"]
  /\ failures = [h \in Hooks |-> 0]
  /\ deliveries = {}
  /\ sending = [j \in Jobs |-> [h \in Hooks |-> "idle"]]

Goes(j, h, next) == sending' = [sending EXCEPT ![j][h] = next]
Idle(j) == \A h \in Hooks : sending[j][h] = "idle"
Rests(j) == sending' = [sending EXCEPT ![j] = [h \in Hooks |-> "idle"]]
FailedDeliveries(h) == {d \in deliveries : d.hook = h /\ ~d.success}

\* create with its defaults, update of isActive, and delete.
Toggle(h) ==
  /\ hook[h] # "deleted"
  /\ hook' = [hook EXCEPT ![h] = IF @ = "active" THEN "inactive" ELSE "active"]
  /\ UNCHANGED <<queueVars, failures, deliveries, sending>>

\* The deliveries go with their webhook.
Delete(h) ==
  /\ hook[h] # "deleted"
  /\ hook' = [hook EXCEPT ![h] = "deleted"]
  /\ failures' = [failures EXCEPT ![h] = 0]
  /\ deliveries' = {d \in deliveries : d.hook # h}
  /\ UNCHANGED <<queueVars, sending>>

\* An event is announced; or testWebhook, of a webhook that is active.
Announce(j) ==
  /\ TenantOf[j] # NoTenant
  /\ TenantOf[j] = Test => \E h \in Hooks : hook[h] = "active"
  /\ Add(j)
  /\ UNCHANGED <<hook, failures, deliveries, sending>>

\* retryDelivery: of a delivery that failed.
RetryDelivery(j) ==
  /\ TenantOf[j] = NoTenant
  /\ \E d \in deliveries : ~d.success
  /\ Add(j)
  /\ UNCHANGED <<hook, failures, deliveries, sending>>
-----------------------------------------------------------------------------
(* The worker.                                                             *)

Start(j) ==
  /\ TakeOneOf(Jobs, j)
  /\ UNCHANGED <<hook, failures, deliveries, sending>>

\* findMany ignores a tenantId that is undefined.
Found(j) == {h \in Hooks : hook[h] = "active" /\ TenantOf[j] \in {OwnerOf[h], NoTenant}}

FindHooks(j) ==
  /\ place[j] = "active" /\ Idle(j) /\ TenantOf[j] # Test
  /\ sending' = [sending EXCEPT ![j] =
       [h \in Hooks |-> IF h \in Found(j) THEN "posting" ELSE "settled"]]
  /\ UNCHANGED <<queueVars, hook, failures, deliveries>>

\* The query fails; that for TEST always does: it is no WebhookEvent.
FindFails(j) ==
  /\ Idle(j)
  /\ Throws(j)
  /\ UNCHANGED <<hook, failures, deliveries, sending>>

\* A good answer, or another, or none within ten seconds.
Post(j, h) ==
  /\ sending[j][h] = "posting"
  /\ Goes(j, h, "taken") \/ Goes(j, h, "refused")
  /\ UNCHANGED <<queueVars, hook, failures, deliveries>>

\* A delivery needs a tenant and its webhook.
Record(j, h) ==
  /\ sending[j][h] \in {"taken", "refused"}
  /\ TenantOf[j] # NoTenant /\ hook[h] # "deleted"
  /\ deliveries' = deliveries \cup
       {[job |-> j, hook |-> h, turn |-> HandedOut(j), success |-> sending[j][h] = "taken"]}
  /\ Goes(j, h, IF sending[j][h] = "taken" THEN "takenLogged" ELSE "refusedLogged")
  /\ UNCHANGED <<queueVars, hook, failures>>

\* Injected fault: the failure is counted before it is recorded.
CountEarly(j, h) ==
  /\ sending[j][h] \in {"refused", "refusedLogged"} /\ hook[h] # "deleted"
  /\ failures' = [failures EXCEPT ![h] = @ + 1]
  /\ Goes(j, h, "settled")
  /\ UNCHANGED <<queueVars, hook, deliveries>>

Count(j, h) ==
  /\ sending[j][h] \in {"takenLogged", "refusedLogged"} /\ hook[h] # "deleted"
  /\ failures' = [failures EXCEPT ![h] = IF sending[j][h] = "takenLogged" THEN 0 ELSE @ + 1]
  /\ Goes(j, h, "settled")
  /\ UNCHANGED <<queueVars, hook, deliveries>>

\* An insert or an update fails: this delivery settles as rejected.
Reject(j, h) ==
  /\ sending[j][h] \in {"taken", "refused", "takenLogged", "refusedLogged"}
  /\ Goes(j, h, "settled")
  /\ UNCHANGED <<queueVars, hook, failures, deliveries>>

Finish(j) ==
  /\ \A h \in Hooks : sending[j][h] = "settled"
  /\ Completes(j) /\ Rests(j)
  /\ UNCHANGED <<hook, failures, deliveries>>

WorkerDies(j) ==
  /\ Dies(j) /\ Rests(j)
  /\ UNCHANGED <<hook, failures, deliveries>>

Work(j) ==
  \/ Start(j) \/ FindHooks(j) \/ FindFails(j) \/ Finish(j)
  \/ \E h \in Hooks : Post(j, h) \/ Record(j, h) \/ Count(j, h) \/ Reject(j, h)

Next ==
  \/ \E h \in Hooks : Toggle(h) \/ Delete(h)
  \/ \E j \in Jobs : Announce(j) \/ RetryDelivery(j) \/ Work(j) \/ WorkerDies(j)

Spec == Init /\ [][Next]_vars
FairSpec == Spec /\ WF_vars(\E j \in Jobs : Work(j))
-----------------------------------------------------------------------------
\* The counter of a webhook never tells of a failure that its deliveries do not
\* show, however deliveries of several jobs are recorded, counted and reset.
FailuresAreRecorded == \A h \in Hooks : failures[h] <= Cardinality(FailedDeliveries(h))

\* Every job ends: a webhook that fails does not hold it up.
JobsEnd == []<>(\A j \in Jobs : place[j] \in {"none"} \cup Over)
=============================================================================
