# Formal models of the CRM

TLA+ models of the parts of this repository in which several actors change
shared state in several steps, the TLC runs that check them on small
instances, and TLAPS proofs of what matters most for every instance. Paths are
relative to `crm-backend/src/` unless they start with a top-level directory.

- [1. The system](#1-the-system)
- [2. The modules](#2-the-modules)
- [3. What the runs check](#3-what-the-runs-check)
- [4. What is proved](#4-what-is-proved)
- [5. Where the code departs from what it says](#5-where-the-code-departs-from-what-it-says)
- [6. What is not modelled, and the plan](#6-what-is-not-modelled-and-the-plan)

## 1. The system

A NestJS backend (PostgreSQL through Prisma, Redis with BullMQ queues, MongoDB
for AI logs), a Next.js frontend, and a Solidity registry contract. HTTP
handlers write rows and enqueue jobs; ten workers consume the queues; one
service listens to the chain. There is no lock other than PostgreSQL's row
locks and unique indexes and BullMQ's job ids, so the interesting behaviour is
what happens *between* two awaits of a handler.

### Components that move money

| Component | State | Operations | Interacts through | Hard part | Correct when |
|---|---|---|---|---|---|
| Blockchain listener (`modules/blockchain/listener`) | provider and contract maps, reconnect timers | start, reconnect, handle a Transfer, shut down | WebSocket; `blockchain-events` queue | error and close both reconnect; timers and live sockets interleave | it is never left without a subscription or a timer; a log is queued once |
| Events worker (`jobs/workers/blockchain-events.worker.ts`) | `blockchain_transactions` | match, check the amount, detect, enqueue the poll | `payments`, `transaction-confirmation` queue | five awaits; concurrency; retries after any of them | a transfer takes one payment it covers out of PENDING |
| Confirmation worker (`jobs/workers/transaction-confirmation.worker.ts`) | `blockchain_transactions` | poll, fail, settle, recheck | RPC node; PaymentsService | receipts vanish; a job re-adds its own id | a confirmed payment is settled, a dropped one failed |
| Payments service (`modules/payments`) | `payments`, `payment_events` | create, detect, confirm, settle, expire, refund | ledger; `webhook-outbound` queue | status read and written in different awaits, update by id | status, event, ledger and webhook agree |
| Payment worker (`jobs/workers/payment-processing.worker.ts`) | none | create_intent, expire_sweep, balance_sync jobs | PaymentsService, WalletsService | retries | a key has one payment |
| Ledger (`modules/ledger`) | `ledger_accounts`, `ledger_entries` | ensure accounts, settle | called inside a settlement, with a transaction of its own | concurrent creation; recursion; rounding | balances agree with entries; fees within the rate |
| Wallets and custody (`modules/wallets`, `modules/blockchain/custody`) | `wallets`, balance cache | provision, sync, withdraw | custody provider; ledger | check then create; lost answers; stale balance | a withdrawal's key pays once, as asked |
| Deal registry (`jobs/workers/blockchain.worker.ts`, `modules/blockchain`) | `blockchain_records`, the contract | register, verify | chain; `blockchain` queue | a wait that times out while the transaction is mined | CONFIRMED means the contract has the record's hash, also when a deal is won twice |
| Deals (`modules/deals`) | `deals`, `deal_stage_history` | create, move stage, update, delete | five enqueues after the commit | a crash between enqueues; concurrent moves | status and history agree; what a win sets going comes in order |
| Billing (`modules/billing`) | `billing_info` | checkout, subscribe, activate, upgrade, cancel, refund, crypto payments, provider events | Stripe, PayPal | calls read, ask the provider, write; events repeated and reordered | the plan was bought; the end of a subscription ends it |

### What users and workers do besides

| Component | State | Hard part | Correct when |
|---|---|---|---|
| Auth (`modules/auth`) | `refresh_sessions`, blacklist in Redis | concurrent refreshes look like a replay; a reset meets a login half done | a login has one line of sessions; what has ended stays ended |
| Users, roles, guards (`modules/users`, `modules/rbac`, `common/guards`) | `users.role`, `users.status` | a token carries the role of when it was made | an old role is of use for one life of a token and the time a login or refresh takes; guards and permission map agree |
| Communications (`modules/communications`, email and SMS workers) | `communications` | sent, then the update fails, then sent again | SENT is true; one sending for each time a job is handed out |
| Webhooks (`modules/webhooks`, `jobs/workers/webhook.worker.ts`) | `webhook_deliveries`, failure counters | deliveries side by side, settled whatever happens | a counted failure has a delivery that shows it |
| Notifications (`modules/notifications`) | `notifications`, an unread counter in Redis | counter and table are updated apart | calls that do not overlap keep the counter right |
| Embeddings (`modules/ai`, `jobs/workers/ai-embedding.worker.ts`) | `ai_embeddings` | duplicates dropped; row and vector written apart | a vector of another text has a job that did not complete |
| RAG, copilot, scoring, analytics (`modules/ai`, `modules/analytics`) | cache entries, `leads.score` | caches on caches; score writes nobody waits for | an answer is as recent as its caches explain |
| Automation (`modules/automation`) | `workflows`, `workflow_executions` | a workflow fails, or is deleted, in the middle of the loop | every workflow of an event comes to an end; the record tells what was done |
| Leads (`modules/leads`) | `leads`, contacts and deals made of them | check then act by overlapping calls | a converted lead has its contact and deal, an address one contact; an answered assignment was told |
| Pipelines (`modules/pipelines`) | default flag, positions of stages | the flag moves in two queries; rows are locked one by one | calls alone keep one default unless asked otherwise; two reorderings never mix |
| API client (`crm-frontend/src/lib/api/client.ts`) | access token, queue of requests | several requests fail with 401 together | one refresh; every request ends |
| Pages (`crm-frontend/src/app/(dashboard)`) | the query cache | a call changes what a query under way has read | a query the call touched is loaded again |
| Tickets, tasks, contacts, companies, activities, templates, integrations, tenant | one row each | none | - |
| Core: Prisma scope, Redis client, WebSocket gateway, filters, health | connections | - | - |

`PROJECT.json` lists each with its sources and status, and the hazards of the
code, each at its line.

## 2. The modules

```
PaymentStateMachine            the transition table
  └ PaymentRail                detection -> confirmation -> settlement, expiry, refund
      ├ MCPaymentRail          instances for TLC
      ├ PaymentRailProofs      type correctness and safety
      │   └ PaymentRailPromise the implementation of SettlementPromise
      └ SettlementPromise      what the rail promises about money (INSTANCE)

Deposits                       what a deposit meets besides the rail
  ├ Ledger                     accounts, settlePayment
  ├ PaymentIntents             createPaymentIntent
  ├ BlockchainListener         subscription and reconnects
  ├ MCDeposits                 an instance for TLC
  └ DepositsProofs             the three parts, and Deposits

Deals                          what a deal sets going
  ├ DealRegistry               won deals on the chain
  ├ DealPayments               composes the two below
  │   ├ DealClosing            create, update, move, delete and their enqueues
  │   └ PaymentIntents         the create_intent jobs of wins
  ├ Automation                 events and workflows
  ├ MCDeals                    an instance for TLC
  └ DealsProofs                the parts, and Deals

Queues                         the queues and those who wait in them
  ├ Messages, Webhooks, Notifications, Embeddings   each on JobQueue
  ├ ApiClient                  the refresh of the frontend
  ├ MCQueues                   an instance for TLC
  └ QueuesProofs               the five parts, and Queues

Desk                           what users ask of the API
  ├ Sessions                   tokens, rotation, logout, reset
  │   └ SessionLines           what rotation promises (INSTANCE)
  ├ Billing, Wallets           the plan of a tenant; custody
  ├ Team                       users and their roles, on Access: routes, permissions
  ├ Leads, Pipelines, Insights
  ├ Pages                      the query cache
  ├ MCDesk                     an instance for TLC, with the tables of Screens
  └ DeskProofs                 Team, Leads, Pages, Insights, Pipelines, and Desk; on
      ├ SessionsProofs         Sessions
      └ PurchasesProofs        Billing and Wallets
```

`Deposits`, `Deals`, `Queues` and `Desk` put components side by side that share no
state: a variable `part`, fixed in a behaviour, says which is at work, and the others
stay in one of their initial states. That is several state spaces in one run, added and not
multiplied, and nothing is lost by it, since no action of one reads a variable
of another. They take every constant of their parts as a parameter, so that what
the MC modules check on an instance can be stated, and is proved, for all of them. `MCDesk`
also keeps the parts that are not at work in *one* initial state, to save memory.
Where components do share state they are composed
(`DealPayments`) or one module (`PaymentRail`).

Operators named "Injected fault" in the modules are not part of the
specifications: each is an action or a helper with a plausible bug, used to see
that a property notices it.

### PaymentRail

One action is the code between two awaits that touch shared state; what was
read before an await is kept in the phase of the job, so it can be stale when
used. A job is a variable per transfer (`evPhase`) or per payment (`cfPhase`).

| Variable | Code |
|---|---|
| `status`, `txHash` | `payments.status`, `payments.txHash` (unique unless null) |
| `trail` | `payment_events` of a payment, in order, as `<<from, to>>` |
| `posted` | committed calls of `LedgerService.settlePayment` for a payment |
| `chainTx` | `blockchain_transactions.status` |
| `evPhase`, `evPayment`, `evTries` | the `process_transfer` job of a transfer: next step, matched payment, attempts used |
| `cfPhase`, `cfTx`, `cfTries` | the job `confirm:<payment>`: next step, the transaction it polls, attempts used |
| `sweep` | what a running expiry sweep still does to a payment |
| `refund`, `refunded` | a refund call between its check and its transaction |
| `outbox` | webhook jobs enqueued for a payment |
| `chain` | what the RPC node answers about a transaction |

| Action | Code |
|---|---|
| `MatchPayment`, `DiscardTransfer` | `findPendingByAddress`, the upsert of the chain transaction, the amount check |
| `FailUnderpaid` | the underpayment branch |
| `FindDetected`, `CommitDetected`, `RefuseDetected` | `handleTxDetected`: read, transaction, unique violation |
| `EnqueueConfirm` | the poll's `Queue.add` |
| `PollStart`, `ReadChain` | `findAllConfirming`; receipt and block number; update of the chain transaction |
| `FailPayment`, `LogFailure` | `failPayment` |
| `FindConfirming`, `CountConfirmations`, `ScheduleRecheck` | `handleConfirmationUpdate` and `scheduleRecheck` |
| `BeginSettle`, `PostLedger`, `CommitSettle`, `NotifySettled` | `settlePayment`: open transaction and row lock, the ledger's own commit, the outer commit, the webhook |
| `SweepSelect`, `SweepExpire`, `SweepLog`, `SweepFault` | `expireStalePendingPayments` |
| `RefundRead`, `RefundCommit` | `handleRefund` |
| `EventFault`, `ConfirmFault`, `ForgetConfirmJob` | a query, the queue or the process fails; attempts run out; a finished job is removed |
| `DepositQueued`, `ChainMoves` | the environment: the listener queues a transfer, blocks are mined or reorganised |

Details that matter and are easy to miss:

- `findById(id, '')` filters on `tenantId`, so the workers' lookups find a
  payment only of the tenants in `WorkerSees`. For the source that is `{}`:
  `''` is the id of no tenant. The other runs set it to all tenants. They show
  what the rail does once its lookup finds payments, which is where all its
  other behaviour lies; what it does as written is the run `lookup` and the
  theorem `SourceSettlesNothing`.
- A settlement is one Prisma transaction around another. Between them the
  payment's row is locked (`RowLocked`), so no other update of it is enabled;
  when the outer one rolls back (`ConfirmFault` in phase `posted`), the inner
  one stays.
- `Queue.add` with a `jobId` that exists, in whatever state, is dropped
  (`AddConfirmJob`), the running job's own id included (`ScheduleRecheck`).

### SettlementPromise

What the rail promises about money: a payment is booked only against a
confirmed deposit that covers it, settled only once booked, refunded only once
settled, and nothing of this is taken back. `PaymentRail.Promise` maps it to the
detailed state (backed: a covering transfer in a transaction with enough
confirmations; settled and returned: the payment events). It does *not* promise
that a payment is booked once: see `SettledTogether` below.

### PaymentIntents

`createPaymentIntent` is three queries: the key (over all tenants: the query is
a `findUnique`), the wallet, the insert. Callers are API requests or
`create_intent` jobs; a job that throws is tried again, up to `MaxTries`. A fault can come
anywhere, also after the insert and before the answer.

### Ledger

Accounts are created by three parallel upserts, by `settlePayment` itself or by
wallet provisioning at the same time, and `settlePayment` calls itself after it
has ensured them. An entry adds its amount to both accounts, as the two UPDATEs
do. Amounts are integers in atomic units: the columns have six decimals and the
fee is floored to six. An open transaction's UPDATEs hold row locks, so one
settlement's entries are one step.

### BlockchainListener

One chain with a WebSocket endpoint. A connection is `free`, `connecting`
(awaiting `getBlockNumber`) or `live`; its socket is `open`, `broken` (errored or
destroyed, its `close` still to come) or `closed`. `current` is what the two
maps hold, which is at most one connection although several may hear.
`scheduleReconnect` drops `current`, whichever connection the event came from.

### DealRegistry

| Variable | Code |
|---|---|
| `configured` | RPC URL, key and contract address are set |
| `won` | committed transactions of `moveStage` to a won stage |
| `job`, `tries` | the `register` job of each win and its failed attempts |
| `record` | `blockchain_records`: one row per deal, with status and hash |
| `mempool` | the signer's transactions that are not mined, in nonce order |
| `receipt` | what `tx.wait` of a job's latest attempt has to return |
| `registry` | the contract's `records` |

| Action | Code |
|---|---|
| `CommitWon`, `EnqueueRegister` | `moveStage`: the transaction, and the enqueue after it |
| `Upsert` | the worker's first step: the deal's row becomes PENDING with this job's hash |
| `SkipUnconfigured`, `Submit`, `Confirm` | `registerOnChain` |
| `Throws`, `WriteFailure` | what the `try` catches (a refused transaction, the timeout of the wait, a revert, a failed update), and the catch block |
| `Complete`, `Fault` | the job ends; a query or the process fails, and the job is run again |
| `Mine`, `NodeDrops` | a block takes the transaction with the lowest nonce and `registerDeal` writes its hash; the node forgets the youngest one |

The hash commits `wonAt`, so every win has its own, and a win stands for its
hash. `registerDeal` updates a deal it knows: the last transaction mined
prevails. The worker runs one job at a time (`WorkerIdle`), but a job whose
attempt has failed waits outside, so wins of a deal can alternate, and a
transaction the worker has given up on can be mined at any later time. A job
has no id of its own: a deal won twice has two.

### DealClosing and DealPayments

One deal, and requests that each create or move it, with updates, workflows and a
deletion between them. It is seeded, created, or made by the conversion of a lead,
without an owner (`Converted`). A move is `ReadDeal` (the stage it is moved from),
`WriteMove` (stage, status and history in one transaction, whose result also says
who owns the deal: `owned`) and then one step for each call of a queue: automation
and webhook are added by one `Promise.all` and so in either order (`Announced`, with
what has not landed in `adding`), then `Notify`, which adds nothing for a deal
without an owner, `Register`, `QueueIntent`. A workflow's `UPDATE_FIELD` may write
status and value (`UpdateField`); `overruled` notes that it has written the status
since a move last closed the deal. `Fault` stops a request
before any of them; `IntentLost` is the failure that `moveStage` swallows. The
id `deal-won:<deal>` is taken from the add until the job is dropped
(`ForgetIntentJob`), so of two wins only one is collected meanwhile. The API
takes a currency of three letters, so only a seeded deal is in USDC and worth a
payment (`InUsdc`). `DealPayments` hands those jobs to `PaymentIntents`.

### Automation

`processEvent` is one loop over the workflows found at its start, with an
execution record for each. One action is the code up to the next query:
`FindWorkflows`; `StartExecution` (the insert, and the conditions, which pass or
do not); `Skip`; `ExecuteAction` for each action in order; `RecordResults`;
`CountRun`. `Throws` is whatever the `try` block catches, `RecordError` and `CountError` the
catch block, `Fault` what nothing catches: the job fails and the whole loop is
run again. Meanwhile `ToggleActive` and `Delete` change the table; a delete cascades to
the executions, so the loop's updates of them throw.

### JobQueue and the modules on it

`JobQueue` is the life of a BullMQ job as its worker sees it: `waiting`,
`active`, `completed` or `failed`, with the attempts that threw (`tries`) and the
workers that died holding it (`stalls`, one of which is forgiven). A worker of the
source takes one job at a time (`TakeOneOf`). Each module on it adds what the worker
does while it holds the job, and what requests do meanwhile.

| Module | State besides the queue | Steps of a worker | What requests do |
|---|---|---|---|
| `Messages` | `communications.status`, how often the provider took it, the template | `Start`, `NoBody`, `Accept` or `Refuse`, `WriteSent`, `WriteFailed`, `Finish` | `Create`, `Enqueue`, `Delete`, `DeleteTemplate` |
| `Webhooks` | `webhook_configs`, `failureCount`, `webhook_deliveries`; how far each delivery is | `FindHooks`, then for every webhook side by side `Post`, `Record`, `Count` or `Reject`; `Finish` | `Toggle`, `Delete`, `Announce`, `RetryDelivery` |
| `Notifications` | the rows; the number in Redis and whether it still has its expiry | `Insert`, `Look`, `Increase`, `Finish` | `GetUnreadCount`, `markRead`, `markAllRead`, `delete`, call by call |
| `Embeddings` | the text's version; the row of `ai_embeddings`, its vector; who holds the id | `GenerateEmbedding`, `UpsertRow`, `WriteVector`, `Remove` | `Write`, `Delete` |

`findMany` with a `tenantId` that is undefined finds the webhooks of all tenants
(`Found`), which is what a repeated delivery passes. `INCR` on an absent key makes
one without an expiry (`IncrBy`). In `Embeddings` an add whose id stands for another
job, one that has ended included, is dropped (`Write`), and the raw `UPDATE` that
writes the vector names `tenant_id` where the migration has `"tenantId"`: with
`ColumnsMatch` FALSE, as in the source, `WriteVector` always fails.

### ApiClient

The two interceptors of one page: a request is sent with the store's token; a
401 either starts the refresh or joins `failedQueue`; the refresh answers all of
them or rejects all and logs the page out. The server is which tokens it accepts
and whether the session goes on. `SendsRefresh` says whether the call of refresh
carries the refresh token; in the source it has no body.

### Sessions and SessionLines

One user. A token is the second it was signed in: a JWT of the source has
nothing else that differs, so two of one second are one string with one hash.
Every query is a step: `CheckLogin`, `Sign`, `Store`, `Answer`; `FindSession`,
`ConsumeSession`, `DeleteReplayed`; `Logout`, `ResetPassword`, `DeleteAll`. The clock (`Tick`)
ends tokens and the entries of the blacklist. `Logout` writes its entry, or Redis
fails: the blacklist's service catches that, and the logout goes on to delete the
sessions and to answer success (`unlisted`). `line` and `dates` are history: the
login a session goes back to, and the password it was checked with.
`SessionLines` is the abstract specification: a login opens one line, a line that
has ended never comes back. The mapping takes a line as live while it has a row
or a request that is about to store one.

### Billing

The row, the subscriptions as the providers see them, and the events on the
way. A call is read, provider, write in separate steps (`FetchPayPal` and
`WriteActivation`, and so on), and events come between them, in order or not as
`ordered` says. An event carries the price it tells of, and `PlanFound` turns it into
a plan: Pro if no plan has it. A subscription of Stripe has Stripe's statuses, which
it goes through by itself (`MoveOn`), and an update writes its plan whatever the
status. `late` notes a call that writes what the provider has ended
meanwhile. The crypto payment of the row is asked for, cleaned up when
expired, and confirmed by an administrator, each by steps of its own.

### Wallets

Provisioning: `FindWallet`, `GenerateWallet`, `CreateWallet`, `EnsureAccounts`;
`syncBalance`: `GetBalance`, `UpdateBalanceCache`; a withdrawal: `CheckWithdrawal`
against the cache, `Pay` with the provider's idempotency key, and answers that get
lost (`PayFails`). `AmountRaw` and `AmountRead` are the two conversions of an amount,
to atomic units and back.

### Leads and Pipelines

In `Leads`, `update`, `assign` and `convert` each `Read` the lead and write it later, so that
they overlap. An update writes any of status, assignee and address, and announces
the status only; an assignment writes the status that was read (`seen`); `Convert` is
one transaction that makes contact, lead and deal, with the address that was read. A call
whose queue fails has written the row and told nobody (`untold`). `RunRule` is a
workflow's `UPDATE_FIELD` on the row, which tells nobody either.

`Pipelines` has two independent halves. The default flag: `ClearFlag` and `SetFlag`
move it in two queries; a call with `isDefault: false` (`Plain`) only takes it from
its own pipeline (`LeaveDefault`); any call may fail on the way (`FlagCallFails`). The
positions of the stages: `createStage` and `updateStage` write one (`PlaceStage`),
`DeleteStage` takes one away, and `reorderStages` updates the rows of its list one after the
other in a transaction and holds their locks (`UpdateRow`, with the positions in
`draft` until `CommitOrder`). The list is any sequence of stages: some of them, or some of
them twice. Two that wait for each other are one reason of `Abort`.

### Insights

Everything that is computed from the records and kept for a while. A method of
the services is a path: which key it looks up, if any, and which of embedding,
queries, model and store follow (`Method`, one definition per method). `age` is how
long ago the data of an answer were read, `left` the life of a cache entry. A RAG answer calls the search,
which has a cache of its own. The score of a lead is recomputed without waiting
by `UpdateLead`, and written to the row by an update that nobody awaits
(`PersistScore`).

### Team and Access

`Access` holds two tables that the source writes apart: `ROLE_PERMISSIONS` and
the `@Roles` of every route of every controller, with the guard between
them. `Team` has users whose role and status change while tokens that say what they
were are out; `Passes` judges a request by its token, as `RolesGuard` does. `Login` and
`Refresh` read the user, and `GenerateTokens` signs later, after what they await
(`signing`); meanwhile the role may change, so that a token may be younger than the
change and say the old role.

### Screens and Pages

`Screens` is a table of the frontend: the queries each page observes (the charts of the
analytics page and the dashboard among them), the calls it makes, the keys each call tells in `onSuccess`, and what the server writes and
answers from. From it come the stories: a call, the page it is made from, another
page, and a query one of them shows and the call touches. `Pages` is the query
cache under one story: a mounted query without a recent answer is loaded; an
invalidated one is loaded again and its request given up, unless it is the first load or nobody
looks at it; the answer is as of the server's read and may come in late. `due` is
what the query must have seen: the calls that were answered and
told it, but for those a load was under way for that nothing stops.

### Deaths and attempts

In all modules the death of a worker counts as a failed attempt of its job, or as
one delivery outside the count. BullMQ grants a stalled job one of those, so in the
modules without `JobQueue` an attempt is a delivery and `MaxTries` may be one more
than the queue's `attempts`; nothing depends on its value.

## 3. What the runs check

| Run | Instance | Shows |
|---|---|---|
| `race` | 2 payments of one address, 2 transfers (one short of the larger payment), 2 attempts, the block of one transaction may be reorganised | `CreditBacked`, `TxHashUnique`, `DetectionLogged`, `TxHashChangesOnlyByDetection`, `TypeOK` |
| `overwrite` | 1 payment, 2 transfers, an expiry sweep, a refund, settlement retries, fair workers | `CompletedIsPosted`, `SettlementsBooked`, `KeepsPromise`, `TransfersGetThrough` |
| `deposits` | 3 settlements on 2 books with provisioning; 4 callers, 2 keys, 2 tenants, 3 attempts; 3 connections, 2 logs | `FeesWithinRate`, `BalancesMatchEntries`, `OnePerKey`, `AnsweredWithOwn`, `HearsOnce`, `DepositsEnd`, types |
| `deals` | a deal won twice and another one, 2 attempts; 2 requests on one deal; an event with 2 workflows | `ConfirmedIsOnChain`, `CompletesOnChain`, `ClosesInOrder`, `WorkflowsRun`, `DealsEnd`, types |
| `queues` | 2 of 3 messages; 2 webhook jobs, webhooks of 2 tenants; a notification and 2 requests; 2 versions of a text and its deletion; 3 requests of a page | `SentAsRecorded`, `FailuresAreRecorded`, `UsersAreTold`, `VectorsFollow`, `OneRefresh`, `QueuesEnd`, types |
| `desk` | a login, 2 refreshes, a logout, a reset; 3 subscriptions, a call, 3 events; 2 provisionings, 3 withdrawals; 5 calls on a lead, with workflows; 3 that write the default flag and a deletion, 2 reorderings of 3 stages; 6 mixes of 3 calls on the caches; 2 users; 15 stories with 2 buttons | `LoggedOutStaysOut`, `EndedStaysEnded`, `PlanIsPaidFor`, `PaidOnceAsAsked`, `LeadsConvertWhole`, `PipelinesInOrder`, `InsightsAreRight`, `TeamsKeepRank`, `PagesKeepUp`, types |
| `lookup`, `transitions`, `atomic`, `recheck`, `trial`, `refresh` | the smallest instance each needs | what section 5 says, each refuted |

Where several parts are checked by one run, a property of the run is the
conjunction of those its parts state; the modules state each with a comment of
its own. What the less obvious ones say:

- `SettlementsBooked`: a settlement that is recorded was booked, and there is a detection for
  each, so what stale writes take out of COMPLETED is settled again only if it was detected again; a
  webhook goes with a record.
- `TransfersGetThrough` (`TransferJobsEnd`, `DepositDetected`, `DeepIsSettled`): every queued
  transfer ends, a covering one takes its payment out of PENDING, and a poll that finds
  the target reached settles.
- `HearsOnce` (`NeverDeaf`, `QueuedOnce`): while nobody listens a connection or a timer is
  under way, and a log several subscriptions hear is queued once.
- `ClosesInOrder` (`LastCloseCounts`, `ClosedInOrder`, `CollectsForWins`): a deal has the status
  of the closing stage it was moved to last, however moves overlap, unless a workflow has
  written another since; registration and payment come after what announces the win,
  to the owner too if the deal had one; nothing is collected for a move that is no win.
- `WorkflowsRun` (`EveryWorkflowRuns`, `ResultsTellTheRun`), `SentAsRecorded` (`CompletedIsSent`,
  `SendsBounded`), `UsersAreTold` (`ToldByItsJob`, `ExactWhenAlone`), `VectorsFollow` (`VectorOfItsText`,
  `NeverOlder`): the record and what was done agree, whatever was retried.
- `LoggedOutStaysOut` (`OneLinePerLogin`, `RevokedStaysOut`, `ResetEndsSessions`): a login has one
  successor however many present its token; a revoked access token whose entry
  Redis took is not accepted again as the clock goes on; no session outlives a reset, but for one
  whose request was between two rows then.
- `PlanIsPaidFor` (`PlanWasBought`, `EndedIsFree`): whatever the order of events and calls,
  the plan is FREE or was bought, or Pro if what was bought is the price of no plan; and, for events in order and no call that was
  late, FREE once all subscriptions have ended (one that expired incomplete, or is unpaid, has not).
- `PaidOnceAsAsked`, with `SubmittedIsPaid` and `UnbookedIsUnfinished`: a withdrawal is paid once for
  its key and as asked, whatever answer is lost; an answered provisioning has its accounts.
- `LeadsConvertWhole` (`ConversionIsWhole`, `OneContactPerEmail`, `AnsweredIsTold`): contact,
  deal and the lead's reference go together; one contact for each address the lead was converted
  with; an answered assignment was told, and exactly the statuses of answered updates are announced.
- `PipelinesInOrder` (`AloneKeepsOneDefault`, `OrderIsOneCalls`): calls that do not overlap never
  leave two defaults, and none only if one asked for it or failed half-way; a position that
  a reordering wrote is that of its list, and of stages that two reorderings both list none are in a
  mixture of the two.
- `InsightsAreRight` (`RecentEnough`, `AnswersInKind`, `ScoreFollowsUpdates`): the data of an answer are
  at most as old as the lives of its caches and the length of the calls that
  filled them; an answer has the shape that was asked for, but for the two methods that
  share a key; scorings that do not overlap leave the score of the last update.
- `TeamsKeepRank` (`StaleRoleEnds`, `PromisesAreGranted`, `InvitedWait`): a role that was taken is of use
  for one life of an access token and the longest a login or refresh is under way, also by refreshing; no guard refuses what the
  permission map promises, but for the five in `Withheld`; who was invited waits.
- `PagesKeepUp` (`KeepsUp`): an answer that is shown and not to be loaded again has seen
  every call in `due`. Nothing is due of the calls and queries that `Forgetful` lists,
  which no call tells: the charts, and what section 5 names.

**Bounds.** Two payments and two transfers are the least in which transfers can
be matched crosswise, a retried transfer can meet the other payment, and one
hash can be wanted twice; a third adds actors but no new kind of step. In `race` one of the two
transactions may be reorganised: the other keeps the space small, and nothing compares the two. Sweeps,
refunds and retried settlements act on one payment, so `overwrite` has one, and
two transfers to disturb it; there a transfer has one attempt (`MaxEventTries`) and a poll two
(`MaxConfirmTries`), as retries of transfers are what `race` is about. Two attempts show what a retry
repeats, and what happens when attempts run out; the source's 3, 5, 8 and 10 differ in number only.
A block count matters only through its comparison with the target and with
`MAX_WAIT_BLOCKS`, so `chain` has one value for each outcome. In the ledger,
amounts are chosen so that fees are zero, exact and rounded. Three connections
are the least with which an error doubles a subscription and the doubled one
then disturbs a third; `MaxConnects` bounds what errors can multiply, in
`SocketError` only. In the registry the second win is what overwrites a confirmed record, the second
attempt what leaves an older transaction in the pool, and the other deal what takes
the worker's turn between them. Two requests on a deal are the least that overlap; `Overrides` are the statuses its workflows set. Events share nothing but
the workflows, so `automation` has one; two workflows are the least of which one can suffer from the other.

In `queues`, the three messages are one of each kind, and `TwoMessages` lets two of them be sent, so
that two share a worker or none; two jobs and two webhooks record and reset one counter side by side; two
requests and the worker are what can overlap on the unread number; two versions of a text are the
least of which one can be dropped or come late. `ColumnsMatch` and `SendsRefresh` are TRUE there: with
the source's FALSE no vector is ever written and the first 401 logs out (section 5), so the rest
could not be seen. `MaxTokens` is 2: a refresh, and one that meets an already renewed token.

In `desk`, `MaxSecond` 1 gives two seconds, so that tokens of one second and of two are
there, and a token of the first, which lives two, must stay refused in the second when it was revoked; `MaxPassword` bounds `ChangePassword`. `MaxEvents` 3 and
`MaxIntents` 1 bound what providers send and what is asked for in crypto: three events are the least
for a payment after the end of a subscription that followed another. The one tagged subscription is of `OtherPrice`, which no plan has. `MaxFunds` bounds deposits; a tenth is the
unit callers ask in and so what rounding needs. In `Insights` a call takes up to one tick (`Patience`), an entry lives one or
two, and three calls fill, read and refill a cache. A lead has two `Emails`: the one it comes with (`FirstEmail`) and the one an update brings, so that
conversions differ in what they have read; `RuleStatuses` is the one status a workflow sets. Of three setters of
the default flag one is `Plain`; of two reorderings one lists all three stages and the other two of them, one twice;
the third stage may also not be there at first; `MaxPlace` bounds the positions that single calls write. In `Team` a token lives
two ticks, a login or refresh is under way for one at most (`MaxWait`; nothing in the code bounds it, and the theorem
holds for any bound), and two roles are given (`Given`), so that one can be taken away. In `Pages` queries do not influence each other, so a behaviour is
about one; stories that differ in names only behave alike, so one of each of the 15 shapes is
taken (`Chosen`); two buttons and two carried-out calls (`MaxCalls`) are the least for answers that arrive out
of order.

No state constraint is used. The runs that stop checking for deadlock do
so because the system may rest: every job ended, every call answered.

**Fairness.** Workers take jobs and finish steps: `WF` on the steps of whichever job
is under way, one for all of a module's jobs. BullMQ
hands every waiting or delayed job to a worker, and re-delivers the job of a
dead one. The server finishes the calls it has begun (`DealClosing`, `PaymentIntents`), and every request
of the page ends, by the timeout of axios if nothing else (`Network` in `ApiClient`). An endpoint that is tried again and again
is assumed to answer in the end (`SF` on `Connected`): reconnection can promise no more than that. Nothing is
assumed of tenants, of users, of the chain, of the sweep (no code enqueues
`expire_sweep`) or of faults; faults are bounded by the attempts of a job, not
by fairness, except in the listener, where failures may recur for ever. The run `desk` states no
liveness: no user has to come back, and no event of a provider has to arrive.

## 4. What is proved

Every invariant and action property that a passing run checks
is a theorem: it holds for every value of the constants that satisfies the assumptions
(any number of payments, transfers, addresses, tenants, amounts, requests, jobs and
attempts), not only on the run's instance. TLC evaluates the assumptions on each
instance. Only the listener's connections are assumed to be finitely many, and the stages of a
pipeline are, being listed by a call; the two theorems that bound a number by that of the
transfers say in their statement that those are.

Other theorems say what no run checks: how often something may happen at most, and
what does hold where section 5 refutes what the code says of itself.

A part of a composition is proved about by itself; `DepositsParts`, `DealsParts`,
`QueuesParts` and `DeskParts` say that a behaviour of the composition is one of each
part, since a part that is not at work stutters; and the properties of the runs follow. The
theorems with the names of the runs' properties are the last of each list below.

**PaymentRail** (`PaymentRailProofs`, `PaymentRailPromise`)

| Theorem | States |
|---|---|
| `TypeCorrect` | `Spec => []TypeOK` |
| `CreditIsBacked` | `Spec => []CreditBacked` |
| `CompletedArePosted` | `Spec => []CompletedIsPosted` |
| `TxHashesAreUnique` | `Spec => []TxHashUnique` |
| `TxHashOnlyByDetection` | `Spec => TxHashChangesOnlyByDetection` |
| `SourceSettlesNothing` | `Spec => []NothingSettles` |
| `SettlementsAreBooked` | `Spec => []SettlementsBooked` |
| `DetectionsAreLogged` | `Spec => []DetectionLogged` |
| `RailKeepsPromise` | `Spec => KeepsPromise`, the refinement |
| `DetectionsAreBounded`, `SettlementsAreBounded` | for finitely many `Transfers`, `Spec => []DetectedPerTransfer`, `[]SettledPerTransfer`: a payment is detected, and settled, at most once per transfer that covers it |
| `UncontendedIsValid` | `Uncontended => (Spec => OnlyValidTransitions)`, what the run `transitions` refutes without the hypothesis |

The argument. `CreditBacked` is about the ledger, but what makes it true is
spread over two workers: the amount is checked by the events worker on a payment it
has matched, handed over as a transaction hash in a job, and the confirmations are read
by another worker. `Provenance` carries it along: a job past the amount check is
matched with a payment its transfer covers; a confirmation job polls a
transaction that has such a transfer; a job past the confirmation check polls a
transaction that is deep; and a deep transaction stays deep (`DeepStays`: the
target is what the chain is trusted for). With it, `PostLedger` books only backed
payments. `Booked` says that whoever sees COMPLETED or REFUNDED, and every phase
after the ledger's commit, has a booking: it is inductive because no step
decreases `posted` and the only way to REFUNDED is through a check of the
status. `Recorded` relates the counts of events, webhooks and bookings: a payment that may be
settled (`MaySettle`: it is CONFIRMING, or its job found it so) has a detection more than
settlements. `Quiet` relates the settled part of the trail to the bookings; both rest on lemmas about
how often an element occurs in a sequence. `DetectInv` counts the detections: until the first there is
none, and afterwards only those jobs can add one that had found the payment PENDING before it
(`AboutToDetect`), each once, so detections and such jobs are together no more than the covering
transfers. Two transfers can settle a payment twice, so the bound is met. `Uncontended` (no sweep, one transfer to an
address) leaves every payment to one job at a time, so that the status each writer has read is
still there when it writes (`StatusIsAsRead`); each half of the hypothesis is needed. `Dormant` is the invariant behind
`SourceSettlesNothing`: with `WorkerSees = {}` no job gets past the lookup.

**Deposits** (`DepositsProofs`)

| Theorem | States |
|---|---|
| `LedgerTypeCorrect`, `TrialBalanceIsOffByTheFees`, `FeesStayWithinRate`, `SettlePaymentRecursesOnce` | `Spec => []TypeOK` (no balance is ever negative), `[]OffByTheFees`, `[]FeesWithinRate`, `[]RecursesOnce`, of `Ledger` |
| `BooksInvariant`, `BalancesAreOfEntries` | the inductive `BooksInv`, `[]BalancesMatchEntries`, of `Ledger` |
| `IntentInvariant`, `OnePaymentPerKey`, `AnswersAreOwn`, `RaceIsLostOnce` | the inductive `IntentInv`, `[]OnePerKey`, `[]AnsweredWithOwn`, `[]LosesOnce`, of `PaymentIntents` |
| `ListenerInvariant` | the inductive `ListenerInv`, of `BlockchainListener` |
| `DepositsTypeCorrect`, `DepositFeesWithinRate`, `DepositBalancesMatch`, `DepositsOnePerKey`, `DepositsAnswerOwn`, `DepositsHearOnce` | the properties of the run `deposits` |

`RecursesOnce` needs `Ensured`: after a call has ensured the accounts, each of the
three is there or is still among those it has to upsert, and accounts are never
deleted. `OffByTheFees` is what holds of the trial balance instead of what the run `trial` refutes. `FeesWithinRate` is linear in the amounts once the fee of one payment
is bounded (`FeeBound`).

`BalancesMatchEntries` is about sums over the entries. `BooksInv` says that a settlement has its
entries exactly when it is done (`SettledIsBooked`), so those that `PostEntries` adds are new, and
that there are finitely many. That a sum does not depend on the order in which its summands are taken, and grows
by a new summand (`SumInAnyOrder`, `SumWithOneMore`), is an induction over a finite set. It is
stated without an operator parameter: among the subsets for which a claim fails there is one with no
smaller one (`SmallerFirst`), as strict inclusion of finite sets is well-founded.

Of the intents, a job that may still be run again has attempts left (`TriesLeft`); a payment is one
that a caller asked for, with that caller's key and tenant (`PaymentsAreCallers`); what a call has in hand
is what its queries returned (`CallsKnow`); and whoever has met the unique index
finds the key taken whenever it is run again, for rows are never deleted (`LosersStop`).

Of the listener, `NeverDeaf` and `QueuedOnce` are inductive with the types. The bound is what takes
work: an error schedules a reconnect and leaves the connection that will close, so timers and
connections that are not free share `MaxConnects` (`WithinBound`), and an error may add to them
only below it.

**Deals** (`DealsProofs`)

| Theorem | States |
|---|---|
| `RegistryInvariant`, `RegistryTypeCorrect`, `ConfirmedAreOnChain`, `CompletionIsOnChain` | the inductive `RegistryInv`, `[]TypeOK`, `[]ConfirmedIsOnChain`, `CompletesOnChain`, of `DealRegistry` |
| `ClosingInvariant`, `LastCloseAlwaysCounts`, `ClosesAreOrdered`, `WinsAreCollected` | the inductive `ClosingInv`, `[]LastCloseCounts`, `[]ClosedInOrder`, `[]CollectsForWins`, of `DealClosing` and `DealPayments` |
| `AutomationInvariant`, `AllWorkflowsRun`, `RecordsTellTheRun` | the inductive `AutomationInv`, `[]EveryWorkflowRuns`, `[]ResultsTellTheRun`, of `Automation` |
| `WinsAskForIntents` | `SpecAll => Intents!Spec`: composed with the deal, the intents are those of `PaymentIntents` |
| `DealsAreBilledOnce` | `SpecAll => []BilledOnce`: requests of one deal, which share its key, make one payment at most |
| `DealsTypeCorrect`, `DealsConfirmedAreOnChain`, `DealsCompleteOnChain`, `DealsCloseInOrder`, `DealsWorkflowsRun` | the properties of the run `deals` but the liveness |

The registry's argument rests on the order of nonces. `Youngest`: whatever is in the pool
belongs to an attempt that has failed, except the last transaction, which may be
that of the running attempt (`OneActive`: there is one). When that one is
mined the pool is empty, so nothing can write over its hash (`Registered`), and the
record confirmed then has no transaction left that could (`Settled`). A later
transaction needs a later job of the deal, which first takes the record back to
PENDING (`Owns`). `UpsertSideBySide`, a second job beside the first, breaks it.

Of the closing, `LastOne` gives the last closing move as a witness, so that a move that is
appended either is the next one or leaves it; it needs `MoveKnown`, that only the row of a creation
has no stage to come from. A status that a workflow wrote is excused (`overruled`) until the next
closing move. `QueuedSoFar` says what a request has queued by each of its
steps, `QueuedInOrder` what follows for a job that is in the queue, whoever stopped after it, and
`BilledWins` that a request that asks for a payment won a deal in USDC; with
`IntentsAreQueued` this reaches the payments. They are intents like any (`WinsAskForIntents`), so those of one
deal have one key, and a key has one payment (`OneOfItsKey`).

Of the automation, `LoopKnows` says that in the attempt that runs, every workflow the loop has left
behind, and that is still there, has an execution that ended, and that the last execution of the
one it is at is of this attempt; a deletion in between takes executions away, so each part holds
of stored workflows only. `ResultsKnown` says of every execution, also those of
earlier attempts, that its results stop at the first failure that stops a workflow.

**Queues** (`QueuesProofs`)

| Theorem | States |
|---|---|
| `MessageInvariant`, `CompletedAreSent`, `SendsAreBounded` | the inductive `MessageInv`, `[]CompletedIsSent`, `[]SendsBounded`, of `Messages` |
| `PostInvariant`, `FailuresAreShown` | the inductive `PostInv`, `[]FailuresAreRecorded`, of `Webhooks` |
| `NoticeInvariant`, `UsersAreToldOnce`, `UnreadIsExact` | the inductive `NoticeInv`, `[]ToldByItsJob`, `[]ExactWhenAlone`, of `Notifications` |
| `EmbedInvariant`, `VectorsAreOfTheirText`, `TextsAreNeverOlder` | the inductive `EmbedInv`, `[]VectorOfItsText`, `NeverOlder`, of `Embeddings` |
| `ClientInvariant`, `RefreshesAreOne` | the inductive `ClientInv`, `[]OneRefresh`, of `ApiClient` |
| `SendsAreLimited` | `[]SendsLimited`: a message goes out at most once per attempt and once for a dead worker |
| `DirectEmailsNeverGoOut` | `[]DirectEmailsStay`: a mail of `sendEmail` is never sent nor recorded as sent or failed |
| `SourceEmbedsNothing`, `SourceRenewsNothing` | `[]NothingEmbedded`, `[]NothingRenewed`: with the source's columns no vector is written, with its refresh no token renewed |
| `SessionsAreKept` | `SendsRefresh => []KeepsSession`, what the run `refresh` refutes without the hypothesis |
| `QueuesTypeCorrect`, `QueuesSendAsRecorded`, `QueuesRecordFailures`, `QueuesTellUsers`, `QueuesKeepVectors`, `QueuesRefreshOnce` | the properties of the run `queues` but the liveness |

A job that has not ended has an attempt and a death of a worker left (`Left`), and each part says which
steps of its worker go with a job that is active (`MessageHeld`, `PostHeld`, `NoticeHeld`,
`EmbedHeld`). Messages: a job that has not sent in its turn has been handed out once more than it sent
(`MessagePaced`). Webhooks: a delivery of the turn is recorded only after it was answered
(`TurnsRecorded`), so that the record is a new one and leaves the counter room for one more (`FailuresCounted`).
Notifications: a job has one row per turn; and `Knows` says, of a call that is alone, what each of its
steps knows of the number in Redis, with the key gone or not. Embeddings: the id stands for the one
upsert that has not ended, which has the youngest text (`HolderIsOpen`). That is what keeps an older
text from being written later.

**Sessions** (`SessionsProofs`)

| Theorem | States |
|---|---|
| `SessionInvariant`, `SessionsTypeCorrect` | the inductive `SessionInv`, `[]TypeOK` |
| `OneSuccessor`, `RevokedForGood`, `ResetEnds` | `[]OneLinePerLogin`, `[]RevokedStaysOut`, `[]ResetEndsSessions` |
| `EndedStay` | `EndedStaysEnded`, the refinement of `SessionLines` |

Every step does one of four things to the lines (`StepMoves`): it opens the line of
a login that had none, a row takes over from the request that stores it, a refresh takes over from the
row it deletes, or it only ends lines. `OneRow`, `OneCarrier` and `RowOrCarrier` are `OneLinePerLogin`
without counting, and each of the four keeps them; for the first that needs `FromLogins`
(whatever there is goes back to a login that has begun) and that a login that has begun is never
refused again (`Ways`). Then a refresh that deletes a row is the only one with it, which is
what the delete's error on a missing row is for (`ConsumeAny` does without it). `Blacklisted` says
that an entry, if Redis took it, lives exactly as long as its token, and `Outdated` relates the passwords of what
is under way to the last reset.

**Billing and Wallets** (`PurchasesProofs`)

| Theorem | States |
|---|---|
| `BillingInvariant`, `PlansAreBought`, `EndsAreFree` | the inductive `BillingInv`, `[]PlanWasBought`, `[]EndedIsFree` |
| `WalletInvariant`, `KeysPayOnce`, `SubmittedArePaid`, `UnbookedAreUnfinished` | the inductive `WalletInv`, `[]PaidOnceAsAsked`, `[]SubmittedIsPaid`, `[]UnbookedIsUnfinished` |

`PlanWasBought` needs that whatever may still write a plan has one that was bought: the provider
(`PaidIsBought`), the events on their way (`EventsOfTheirs`) and the calls (`CallsOfTheirs`), or, of a price without
a plan, that it was bought, so that the Pro it is taken for is the one the property names.
`EndedIsFree` is about a moment when nothing is under way, and what makes it true is about
every other moment: of a provider that delivers in order, an event that raises the plan for a
subscription that has ended is followed by the one that lowers it (`EndsComeLast`), so a paid row has a
subscription that goes on or an event to come that ends it (`PlanEnds`).
In `Wallets` the rounding is a lemma about any amount (`AmountIsNear`), and so is that the
provider reads what the adapter writes (`AmountIsRead`), for the units named in `WalletAssumption`.

**Desk** (`DeskProofs`)

| Theorem | States |
|---|---|
| `TeamInvariant`, `StaleRolesEnd`, `InvitedStayOut` | the inductive `TeamInv`, `[]StaleRoleEnds`, `[]InvitedWait` |
| `GuardsKeepPromises` | `PromisesAreGranted`, of all roles and routes |
| `LeadInvariant`, `ConversionsAreWhole`, `LeadsBecomeOneContact` | the inductive `LeadInv`, `[]ConversionIsWhole`, `[]OneContactPerEmail` |
| `PipelineInvariant`, `OneDefaultIsKept`, `OrdersAreWhole` | the inductive `PipelineInv`, `[]AloneKeepsOneDefault`, `[]OrderIsOneCalls` |
| `InsightInvariant`, `AnswersAreRecent`, `AnswersFitTheirCalls`, `ScoresFollow` | the inductive `InsightInv`, `[]RecentEnough`, `[]AnswersInKind`, `[]ScoreFollowsUpdates` |
| `PageInvariant`, `QueriesKeepUp` | the inductive `PageInv`, `[](Tells(story) => KeepsUp)` |
| `DeskTypeCorrect`, `DeskLoggedOutStaysOut`, `DeskEndedStaysEnded`, `DeskPlanIsPaidFor`, `DeskPaysOnceAsAsked`, `DeskConvertsWhole`, `DeskPipelinesInOrder`, `DeskInsightsAreRight`, `DeskTeamsKeepRank`, `DeskPagesKeepUp` | the properties of the run `desk` |

A role and the tokens that say it meet at two places: a change of the role starts the count
`since` when a token has at most a life left, and a tick takes from the token what it adds to the count. A
login or refresh that has read an older role has been under way since before the change (`ReadBefore`), so what it
signs has the bound too. `NobodyIsOut` (who has no account has no token, and signs none) covers the invitation, which
also sets a role; `InvitedStay`, that nobody signs for an invited account.

Of a lead, `AddressesDiffer` is kept by the unique index, which the second of two conversions meets
(`Taken`); `AddressIsKnown` says that what a conversion has read is the first address unless an update
has brought another, so that without one there is a single contact.
`GuardsKeepPromises` compares the two tables through lemmas on what the map does not promise, since
most routes are open to every role.

`Insights` relates, of a call at each of its steps (`CallFits`) and of a cache entry (`EntryFits`), the age of
the data to the ticks the call has taken and to the life the entry has left: the age of an entry and what is
left of it never exceed the patience of the call that filled it and the entry's life, plus, for
an answer of RAG, those of the search it may be made from. `ScoresAreLast` says that while scorings do not
overlap at most one write is on its way, and it is of the last update.

Of the default flag, `AloneStep` says what a call that does not overlap with others has found at each
step, and `Excused` when it may leave none; of the stages, `DraftsFollow` says that `draft` has each row a reordering has
updated where its list has it last so far; as it commits all of its rows at once, they are its own. In `Pages` an answer on its way has seen what is due, and
so has the one in the cache unless it is marked (`AnswerIsDue`, `CacheIsDue`).

`DeskPagesKeepUp` is about any tables of pages under one hypothesis, `ToldOrForgetful`: every call tells the
queries it touches, but those that `Screens` lists as `Forgetful` (the calls of `ForgetfulCalls`, and the `Charts`,
which no call tells). It is no assumption of the
module, because whether the frontend's tables have it is what the run `desk` checks with `PagesKeepUp` (a
call that tells too little, as in `LeadHooksOfLists` and `TaskDetailAlone`, violates it).

**What the proofs changed.** They need, of the constants, what the code has by construction and the first
assumptions did not say: the kinds of calls of `Leads` are disjoint, as are those of
`Pipelines`; the bound on ages in `Insights` is no lower than the oldest age
it has to hold (`Bound`); the listener has a connection to make; "no deal" is not a state of a deal. TLC evaluates them.

**Only model-checked.** What is under fairness: `TransfersGetThrough`, `DepositsEnd`, `DealsEnd`,
`QueuesEnd`. Liveness under fairness and `ENABLED` are beyond the prover.
The runs of section 5 are refutations, and what they refute no theorem can state without a further
hypothesis.

## 5. Where the code departs from what it says

Each of the following is refuted by a run that checks what the text says:

- `lookup`: "Called by BlockchainEventsWorker when a matching Transfer is
  detected. Transitions PENDING → CONFIRMING" - the lookup passes `''` as tenant id
  and finds no payment.
- `transitions`: "Any attempt to move to an invalid state throws" - updates are
  by id and checks are stale: of two transfers to one address whose detections both found the
  payment PENDING, the later takes it from COMPLETED back to CONFIRMING.
- `atomic`: "either both commit or both roll back" - the ledger commits by itself; a
  retry of the settlement books the payment again.
- `recheck`: "Re-enqueues itself with a delay until the threshold is reached" -
  the recheck has the running job's id and is dropped.
- `trial`: "This ensures the trial balance always zeros out", and "Liability ↓, Revenue ↑" of a
  fee (`ledger.service.ts`) - an entry adds its amount to both of its accounts, so that after a payment
  of G with fee F assets are G, liabilities G + F and revenue F: off by twice the fee.
- `refresh`: "handle 401 by refreshing token and retrying" - the interceptor
  posts no body, the server reads the refresh token from it, and the page logs out.

What holds of them nevertheless is proved. Of `lookup`: nothing settles at all (`SourceSettlesNothing`). Of
`transitions`: it is true without sweeps and with one transfer to an address
(`UncontendedIsValid`). Of `atomic`: what is recorded was booked, and it is recorded at most once per covering
transfer (`SettlementsAreBooked`, `SettlementsAreBounded`); the bookings have no such bound. Of
`trial`: it is off by the fees and by nothing else (`TrialBalanceIsOffByTheFees`). Of `refresh`: the missing body is the
only cause (`SessionsAreKept`), and no token is ever renewed (`SourceRenewsNothing`).

Others are behaviours of the models that no run is spent on.

Payments:

- the underpayment branch moves a payment to FAILED without an event
  (`FailUnderpaid`), although "Every transition writes a PaymentEvent row";
- a REFUNDED payment can be refunded again, because `assertTransition` accepts
  equal statuses (`RefundRead`), although "only COMPLETED payments can be refunded";
- a worker that dies between the detection and the poll's enqueue leaves a CONFIRMING
  payment nobody polls (`EventFault` in phase `detected`): the retried job finds no PENDING payment;
- nothing enqueues `expire_sweep`, so that only a job put there by hand expires payments (`SweepSelect`);
- a transfer that `handleTxDetected` ignores is still the one polled
  (`EnqueueConfirm` after `FindDetected` refused);
- the loser of a race for an idempotency key gets the unique index's error, not
  the payment (`PaymentIntents.Create`);
- an error and the close that follows it reconnect twice, and the older
  subscription keeps firing (`SocketError`, `SocketClose`);
- "How many blocks to look back on reconnect": the block is computed and only logged;
  what was mined while nobody was subscribed is never looked up (`Mine`, `Connected`);
- a heard transfer whose enqueue fails is dropped (`HandleTransferEvent`);
- "Idempotent" provisioning: two requests at once make two wallets (`FindWallet`,
  `CreateWallet`); a withdrawal of 0.0000004 pays 0 (`AmountRaw`).

Deals:

- a deal that a conversion made has no owner, so that it is registered without a notification of its win (`Notify`);
- a workflow may set any status whatever stage the deal is in (`UpdateField`);
- "After all retries exhausted, record stays FAILED": when the update of the last
  attempt's catch block fails, it stays PENDING (`DealRegistry.Fault` in phase `failing`);
- a retry of a deal's earlier win can run after the later win and overwrite its hash,
  in the record and in the contract (`DealRegistry.Upsert`);
- currencies of the API have three letters, so no deal it makes is in USDC and none
  asks for a payment (`DealClosing.InUsdc`);
- an execution recorded SUCCESS becomes FAILED when the update of `runCount` after it
  fails (`Throws` in phase `counting`), although every action was done;
- a death leaves an execution RUNNING for good, and the retry runs again the workflows that were
  already done, their actions included (`Automation.Fault`); so does the deletion of a workflow
  that is next in the loop;
- an event's `data` has no `entityId` (it is beside `data` in the job), so `UPDATE_FIELD` without an id in
  its configuration, `ASSIGN_OWNER` and `ADD_TAG` do nothing and count as a success;
- an assignment that read a lead before its conversion takes it back to a status that converts again,
  and without an e-mail address, or with another that an update brought meanwhile, the second conversion makes a
  second contact (`Leads.Convert`); an update or a workflow that assigns a lead tells the assignee nothing (`WriteUpdate`, `RunRule`).

Messages and queues:

- "Direct emails (subject + body provided)": the service queues the body as `html`, the worker reads `htmlBody` and gives
  the job up; the row stays QUEUED (`DirectEmailsNeverGoOut`);
- the mails of a forgotten password and of an invitation, and those of automation without a template,
  carry no body the worker reads, and neither do the SMS of automation;
- failed deliveries of webhooks are settled, so the job completes and its attempts are never used;
  a repeated delivery has no tenant and goes to everybody's webhooks, and what comes of it
  cannot be recorded; a test's event is none of the enum, so its query fails;
- the unread number goes below zero under two concurrent `markRead` of one row, although
  the comment there reads "Decrement cache counter safely (don't go below 0)", and an `INCR` after the key has expired leaves
  one that never does;
- an update of a record is dropped while the id of its last job is kept, so its vector stays
  that of the old text; and the vector is never written at all, as the raw `UPDATE` names columns that the migration does not (`SourceEmbedsNothing`).

Sessions and users:

- a logout whose blacklist entry Redis does not take is answered with success, and its access token is accepted for the
  rest of its life (`Logout`);
- tokens of one second are one string, so a login in the second of another is refused (`Store`);
  the loser of two refreshes ends every session of the user; refresh does not look at the account's status;
- an address is invited as typed and looked up in lower case, so an invited user may never get in
  (`LowerCase`); an invitation whose mail was not queued cannot be repeated, the address being taken;
- five promises of the permission map are refused by the guards (`Withheld`); nothing calls `canManageUser`.

Answers and scores:

- "identical query+filter combos cached for 2 minutes" (`rag.service.ts`): the answer is made of a search that may have been cached for as long before;
- a contact's summary and a contact's timeline share a key, so that either may be answered with the
  other's shape;
- "leads.service.ts calls `enqueueScoreUpdate()` after create/update/assign" (`lead-scoring.service.ts`): `assign` recomputes nothing, and neither do activities and messages,
  which the score is made of; two recomputations may write the row in either order;
- "Every LLM call is logged to MongoDB" (`copilot.service.ts`): one whose completion is not JSON is not, and neither is one whose answer
  cannot be stored.

Billing: a price that no plan has in the environment is written as Pro (`PlanFound`); an update of a subscription writes
its plan whatever its status, so that one whose first payment never came, or that is unpaid, has the plan it was to pay for
(`StripeSubscription`). A crypto payment that is cleaned up as expired while an administrator confirms it is
confirmed without a trace on the row, or wiped after it, depending on who writes last.

Pipelines: an update with `isDefault: false` leaves a tenant without a default, and so does a call that fails between its two
queries, or the overlap of two (`SetFlag`, `FlagCallFails`); a list of some of the stages, or of one twice, may leave
two stages at one position, as may `createStage` and `updateStage` (`CommitOrder`, `PlaceStage`).

Team: nothing in the code bounds the time of a login or refresh, and so the time an old role is of use.

Pages: converting a lead tells its detail and no list; a card that is moved tells the board only; deleting
a task or a workflow on its page tells nothing; a change of one's profile tells no query (`ForgetfulCalls`). No call tells a chart (`Charts`): what leads and deals are created,
updated, converted, moved or deleted, and what names are changed, shows there when the answer is old. An
answer that was on its way when a call invalidated the query, on the first load or after the page was left,
arrives as recent and stays for half a minute (`Restarts`).

## 6. What is not modelled, and the plan

Left out of the modules above, on purpose: the delay of jobs and of reconnects (any
delay is possible); the batch limit and order of queries; payments being created
while the rail runs (all exist from the start); the listener's HTTP
polling mode and its shutdown; two refunds of one payment under way at once (`refund` is one call's, and `returned` of the
promise a set); a reorganisation after the registry's `wait(1)`; amounts, periods and signatures of invoices; prompts, weights and the log
of the model's calls; the dashboard's headline numbers, which the server renders at most every 30 seconds; what a page renders, its forms and its filters.

Not modelled at all, because nothing there takes several steps of several actors: tasks, tickets,
contacts, companies, activities, templates, integrations, the tenant's settings (each operation reads and writes one
row after a check that it is there; what they notify and embed is in `Notifications` and
`Embeddings`); the Prisma extension, whose effect is modelled where it matters; the Redis client; the
WebSocket gateway, which emits and keeps nothing; filters, pipes, health and configuration; the landing,
pricing, checkout and sign-in pages. Also `verifyDealOnChain`, which reads the record and then the
contract, and the deployment of the contract.

What is left, most useful first:

1. `Conditions`: the evaluator of `Automation` as a pure function against a
   reference definition; the tasks and jobs that actions create.
2. The pool of database connections around a settlement, which holds one while the ledger asks for another.
3. The listener's shutdown, and create and delete of a lead.
4. Moving the queues of `PaymentRail`, `DealRegistry` and `Automation` onto `JobQueue`.
5. Proofs that go further than the runs' properties: bounds as that of `SendsAreLimited` for the other
   queues, and an abstract specification of a deal's whole way, from the win to the record on the chain and
   the payment, that the composition is shown to implement.
