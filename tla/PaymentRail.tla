----------------------------- MODULE PaymentRail -----------------------------
(***************************************************************************)
(* The inbound payment rail of the CRM backend, from a Transfer job on the *)
(* blockchain-events queue to the settled (and perhaps refunded) payment:  *)
(*                                                                         *)
(*   BlockchainEventsWorker  -> PaymentsService.handleTxDetected           *)
(*     -> transaction-confirmation queue -> TransactionConfirmationWorker  *)
(*     -> PaymentsService.handleConfirmationUpdate -> settlePayment        *)
(*     -> LedgerService.settlePayment, webhook-outbound queue              *)
(*   PaymentProcessingWorker -> expireStalePendingPayments                 *)
(*   PaymentsController      -> handleRefund                               *)
(*                                                                         *)
(* One action is the code between two awaits that touch shared state, so   *)
(* what a worker read before an await may be stale when it writes.         *)
(*                                                                         *)
(* Simplifications:                                                        *)
(*  - a transaction of several statements commits in one step, except the  *)
(*    settlement transaction, which spans the ledger's own transaction and *)
(*    holds the row lock of its payment meanwhile (RowLocked);             *)
(*  - the blockchain_transactions row is read by no step of the rail, so   *)
(*    each write of it happens in the step of the read it follows;         *)
(*  - a block count is what the worker compares it with: below or at least *)
(*    targetConfirmations, no receipt for at most or more than             *)
(*    MAX_WAIT_BLOCKS;                                                     *)
(*  - DepositQueued is the listener's successful enqueue; a deposit the    *)
(*    listener loses is one that is never queued.                          *)
(***************************************************************************)
EXTENDS Integers, Sequences, FiniteSets, PaymentStateMachine

CONSTANTS
  Payments,        \* payment intents, each already created and PENDING
  Transfers,       \* USDC Transfer logs of the chain
  Txs,             \* transaction hashes
  NoPayment, NoTx, \* the null of a payment id and of the txHash column
  Tenants,
  TenantOf,        \* [Payments -> Tenants]
  WorkerSees,      \* the tenants whose payments findById(id, '') returns:
                   \*   {} for the source, where '' is the id of no tenant
  Addresses,
  AddressOf,       \* [Payments -> Addresses], a wallet's, so often shared
  ToAddress,       \* [Transfers -> Addresses]
  TxOf,            \* [Transfers -> Txs], one tx may carry several Transfers
  AmountDue,       \* [Payments -> Nat], atomic units
  AmountRaw,       \* [Transfers -> Nat], atomic units
  Refunders,       \* concurrent calls of POST /payments/:id/refund
  MaxEventTries,   \* attempts of a blockchain-events job (5 in the source)
  MaxConfirmTries, \* attempts of a confirmation job (10 in the source)
  Sweeps,          \* TRUE when something enqueues expire_sweep jobs
  Reorgs           \* transactions whose block may be reorganised away

ASSUME RailAssumption ==
  /\ NoPayment \notin Payments
  /\ NoTx \notin Txs
  /\ TenantOf \in [Payments -> Tenants]
  /\ WorkerSees \subseteq Tenants
  /\ AddressOf \in [Payments -> Addresses]
  /\ ToAddress \in [Transfers -> Addresses]
  /\ TxOf \in [Transfers -> Txs]
  /\ AmountDue \in [Payments -> Nat]
  /\ AmountRaw \in [Transfers -> Nat]
  /\ MaxEventTries \in Nat /\ MaxEventTries > 0
  /\ MaxConfirmTries \in Nat /\ MaxConfirmTries > 0
  /\ Sweeps \in BOOLEAN
  /\ Reorgs \subseteq Txs

VARIABLES
  \* tables
  status,    \* payments.status
  txHash,    \* payments.txHash, unique unless null
  trail,     \* payment_events of each payment, as <<from, to>>, oldest first
  posted,    \* committed ledger settlements of each payment
  chainTx,   \* blockchain_transactions.status, "absent" without a row
  \* jobs and the workers that run them
  evPhase, evPayment, evTries,  \* blockchain-events job of each transfer
  cfPhase, cfTx, cfTries,       \* confirmation job of each payment
  sweep,     \* what the running expiry sweep still does to each payment
  refund,    \* each refund call: the payment it is about to refund
  refunded,  \* the refund calls that are over
  outbox,    \* webhook jobs enqueued for each payment, oldest first
  \* environment
  chain      \* what the RPC node answers about each tx

tables == <<status, txHash, trail, posted, chainTx>>
eventVars == <<evPhase, evPayment, evTries>>
confirmVars == <<cfPhase, cfTx, cfTries>>
refundVars == <<refund, refunded>>
vars == <<status, txHash, trail, posted, chainTx, evPhase, evPayment, evTries,
          cfPhase, cfTx, cfTries, sweep, refund, refunded, outbox, chain>>

EvIdle == {"none", "completed", "failed"}
EvActive == {"waiting", "matched", "underpaid", "found", "detected"}
CfIdle == {"none", "completed", "failed"}
CfActive == {"waiting", "polling", "failing", "unlogged", "shallow", "counting",
             "recheck", "deep", "settling", "locked", "posted", "notify"}
ChainState == {"shallow", "deep", "missing", "dropped", "reverted"}
Webhooks == {"PAYMENT_COMPLETED", "PAYMENT_REFUNDED"}

TypeOK ==
  /\ status \in [Payments -> PaymentStatus]
  /\ txHash \in [Payments -> Txs \cup {NoTx}]
  /\ trail \in [Payments -> Seq(PaymentStatus \X PaymentStatus)]
  /\ posted \in [Payments -> Nat]
  /\ chainTx \in [Txs -> {"absent", "SUBMITTED", "CONFIRMED", "FAILED"}]
  /\ evPhase \in [Transfers -> EvIdle \cup EvActive]
  /\ evPayment \in [Transfers -> Payments \cup {NoPayment}]
  /\ evTries \in [Transfers -> 0 .. MaxEventTries]
  /\ cfPhase \in [Payments -> CfIdle \cup CfActive]
  /\ cfTx \in [Payments -> Txs \cup {NoTx}]
  /\ cfTries \in [Payments -> 0 .. MaxConfirmTries]
  /\ sweep \in [Payments -> {"idle", "selected", "unlogged"}]
  /\ refund \in [Refunders -> Payments \cup {NoPayment}]
  /\ refunded \subseteq Refunders
  /\ outbox \in [Payments -> Seq(Webhooks)]
  /\ chain \in [Txs -> ChainState]

Init ==
  /\ status = [p \in Payments |-> "PENDING"]
  /\ txHash = [p \in Payments |-> NoTx]
  /\ trail = [p \in Payments |-> <<>>]
  /\ posted = [p \in Payments |-> 0]
  /\ chainTx = [x \in Txs |-> "absent"]
  /\ evPhase = [t \in Transfers |-> "none"]
  /\ evPayment = [t \in Transfers |-> NoPayment]
  /\ evTries = [t \in Transfers |-> 0]
  /\ cfPhase = [p \in Payments |-> "none"]
  /\ cfTx = [p \in Payments |-> NoTx]
  /\ cfTries = [p \in Payments |-> 0]
  /\ sweep = [p \in Payments |-> "idle"]
  /\ refund = [r \in Refunders |-> NoPayment]
  /\ refunded = {}
  /\ outbox = [p \in Payments |-> <<>>]
  /\ chain = [x \in Txs |-> "shallow"]
-----------------------------------------------------------------------------
(***************************************************************************)
(* Repository operations.                                                  *)
(***************************************************************************)

\* The row lock an open settlement transaction holds on its payment. Another
\* UPDATE of that row waits until the transaction commits or rolls back, and
\* then proceeds: it is by id, so nothing about the row is checked again.
RowLocked(p) == cfPhase[p] \in {"locked", "posted"}

\* Injected fault: the lookup never finds the row.
WorkerFindsNone(p) == FALSE

\* findById(id, ''), as the two handlers the workers call do it.
WorkerFinds(p) == TenantOf[p] \in WorkerSees

\* transition(id, to): an update by id, whatever the status is.
Transition(p, to) ==
  /\ ~RowLocked(p)
  /\ status' = [status EXCEPT ![p] = to]

AppendEvent(p, from, to) ==
  trail' = [trail EXCEPT ![p] = Append(@, <<from, to>>)]

\* Injected fault: the column is only indexed, not unique.
TxHashNeverTaken(p, x) == FALSE

\* The unique index on payments.txHash rejects x for payment p.
TxHashTaken(p, x) == \E q \in Payments \ {p} : txHash[q] = x

\* Injected fault: the difference is taken the other way round.
UnderpaidSwapped(t, p) == AmountDue[p] - AmountRaw[t] < -1

\* More than one atomic unit short of the amount due.
Underpaid(t, p) == AmountRaw[t] - AmountDue[p] < -1

\* Queue.add with jobId confirm:<p>: while a job of that id exists, in
\* whatever state, the new one is dropped.
AddConfirmJob(p, x) ==
  IF cfPhase[p] = "none"
  THEN /\ cfPhase' = [cfPhase EXCEPT ![p] = "waiting"]
       /\ cfTx' = [cfTx EXCEPT ![p] = x]
       /\ cfTries' = [cfTries EXCEPT ![p] = 0]
  ELSE UNCHANGED confirmVars

\* Injected faults: one attempt too many, and attempts that are not counted.
RetryEventOnceMore(t) ==
  /\ evTries' = [evTries EXCEPT ![t] = @ + 1]
  /\ evPhase' = [evPhase EXCEPT ![t] =
                   IF evTries[t] < MaxEventTries THEN "waiting" ELSE "failed"]
  /\ evPayment' = [evPayment EXCEPT ![t] = NoPayment]
RetryEventUncounted(t) ==
  /\ evPhase' = [evPhase EXCEPT ![t] = "waiting"]
  /\ evPayment' = [evPayment EXCEPT ![t] = NoPayment]
  /\ UNCHANGED evTries

\* A job whose handler threw, or whose worker died: delayed for another
\* attempt, or failed for good.
RetryEvent(t) ==
  /\ evTries' = [evTries EXCEPT ![t] = @ + 1]
  /\ evPhase' = [evPhase EXCEPT ![t] =
                   IF evTries[t] + 1 < MaxEventTries THEN "waiting" ELSE "failed"]
  /\ evPayment' = [evPayment EXCEPT ![t] = NoPayment]
RetryConfirm(p) ==
  /\ cfTries' = [cfTries EXCEPT ![p] = @ + 1]
  /\ cfPhase' = [cfPhase EXCEPT ![p] =
                   IF cfTries[p] + 1 < MaxConfirmTries THEN "waiting" ELSE "failed"]
  /\ UNCHANGED cfTx

EventGoes(t, phase) ==
  /\ evPhase' = [evPhase EXCEPT ![t] = phase]
  /\ UNCHANGED <<evPayment, evTries>>
ConfirmGoes(p, phase) ==
  /\ cfPhase' = [cfPhase EXCEPT ![p] = phase]
  /\ UNCHANGED <<cfTx, cfTries>>
-----------------------------------------------------------------------------
(***************************************************************************)
(* BlockchainEventsWorker.process, one job per transfer.                   *)
(***************************************************************************)

\* The listener saw the log and its enqueue succeeded.
DepositQueued(t) ==
  /\ evPhase[t] = "none"
  /\ chain[TxOf[t]] \in {"shallow", "deep"}
  /\ EventGoes(t, "waiting")
  /\ UNCHANGED <<tables, confirmVars, sweep, refundVars, outbox, chain>>

\* findPendingByAddress: findFirst without an order, so any PENDING payment of
\* the address; then the upsert of the chain transaction, which leaves an
\* existing row as it is.
MatchPayment(t, p) ==
  /\ evPhase[t] = "waiting"
  /\ status[p] = "PENDING"
  /\ AddressOf[p] = ToAddress[t]
  /\ evPhase' = [evPhase EXCEPT ![t] =
                   IF Underpaid(t, p) THEN "underpaid" ELSE "matched"]
  /\ evPayment' = [evPayment EXCEPT ![t] = p]
  /\ chainTx' = [chainTx EXCEPT ![TxOf[t]] = IF @ = "absent" THEN "SUBMITTED" ELSE @]
  /\ UNCHANGED <<status, txHash, trail, posted, evTries, confirmVars, sweep,
                 refundVars, outbox, chain>>

DiscardTransfer(t) ==
  /\ evPhase[t] = "waiting"
  /\ \A p \in Payments : AddressOf[p] = ToAddress[t] => status[p] # "PENDING"
  /\ EventGoes(t, "completed")
  /\ UNCHANGED <<tables, confirmVars, sweep, refundVars, outbox, chain>>

\* The underpayment branch: a transition and no payment event.
FailUnderpaid(t) ==
  /\ evPhase[t] = "underpaid"
  /\ Transition(evPayment[t], "FAILED")
  /\ EventGoes(t, "completed")
  /\ UNCHANGED <<txHash, trail, posted, chainTx, confirmVars, sweep, refundVars,
                 outbox, chain>>

\* handleTxDetected reads the payment again. A payment it does not find, or
\* finds in another status than PENDING, is left alone; the worker goes on to
\* its last step in every case.
FindDetected(t) ==
  /\ evPhase[t] = "matched"
  /\ LET p == evPayment[t]
         accepts == WorkerFinds(p) /\ CanAcceptDeposit(status[p])
     IN  EventGoes(t, IF accepts THEN "found" ELSE "detected")
  /\ UNCHANGED <<tables, confirmVars, sweep, refundVars, outbox, chain>>

\* Injected fault: the event is left out of the transaction.
CommitDetectedUnlogged(t) ==
  LET p == evPayment[t] IN
  /\ evPhase[t] = "found"
  /\ ~TxHashTaken(p, TxOf[t])
  /\ Transition(p, "CONFIRMING")
  /\ txHash' = [txHash EXCEPT ![p] = TxOf[t]]
  /\ EventGoes(t, "detected")
  /\ UNCHANGED <<trail, posted, chainTx, confirmVars, sweep, refundVars, outbox, chain>>

\* The transaction of handleTxDetected: status, txHash and event together.
CommitDetected(t) ==
  LET p == evPayment[t] IN
  /\ evPhase[t] = "found"
  /\ ~TxHashTaken(p, TxOf[t])
  /\ Transition(p, "CONFIRMING")
  /\ txHash' = [txHash EXCEPT ![p] = TxOf[t]]
  /\ AppendEvent(p, "PENDING", "CONFIRMING")
  /\ EventGoes(t, "detected")
  /\ UNCHANGED <<posted, chainTx, confirmVars, sweep, refundVars, outbox, chain>>

\* The same transaction refused by the unique index: the job throws.
RefuseDetected(t) ==
  /\ evPhase[t] = "found"
  /\ TxHashTaken(evPayment[t], TxOf[t])
  /\ RetryEvent(t)
  /\ UNCHANGED <<tables, confirmVars, sweep, refundVars, outbox, chain>>

EnqueueConfirm(t) ==
  /\ evPhase[t] = "detected"
  /\ AddConfirmJob(evPayment[t], TxOf[t])
  /\ EventGoes(t, "completed")
  /\ UNCHANGED <<tables, sweep, refundVars, outbox, chain>>

\* A query, the queue or the worker process fails before a step or, after the
\* last one, before the job is reported complete.
EventFault(t) ==
  /\ evPhase[t] \in EvActive
  /\ RetryEvent(t)
  /\ \/ UNCHANGED confirmVars
     \/ evPhase[t] = "detected" /\ AddConfirmJob(evPayment[t], TxOf[t])
  /\ UNCHANGED <<tables, sweep, refundVars, outbox, chain>>
-----------------------------------------------------------------------------
(***************************************************************************)
(* TransactionConfirmationWorker.process, one job per payment.             *)
(***************************************************************************)

\* findAllConfirming, then the payment's row in it.
PollStart(p) ==
  /\ cfPhase[p] = "waiting"
  /\ ConfirmGoes(p, IF status[p] = "CONFIRMING" THEN "polling" ELSE "completed")
  /\ UNCHANGED <<tables, eventVars, sweep, refundVars, outbox, chain>>

\* Injected fault: the target is to be exceeded, not reached.
ReadChainStrict(p) ==
  /\ cfPhase[p] = "polling"
  /\ chain[cfTx[p]] \in {"shallow", "deep"}
  /\ ConfirmGoes(p, "shallow")
  /\ UNCHANGED <<tables, eventVars, sweep, refundVars, outbox, chain>>

\* The receipt and the block number, and the chain transaction's new status.
ReadChain(p) ==
  LET x == cfTx[p]
      seen == chain[x]
  IN
  /\ cfPhase[p] = "polling"
  /\ ConfirmGoes(p, CASE seen \in {"dropped", "reverted"} -> "failing"
                      [] seen = "missing" -> "recheck"
                      [] seen = "shallow" -> "shallow"
                      [] seen = "deep" -> "deep")
  /\ chainTx' = [chainTx EXCEPT ![x] =
                   CASE seen \in {"dropped", "reverted"} -> "FAILED"
                     [] seen = "missing" -> @
                     [] seen = "shallow" -> "SUBMITTED"
                     [] seen = "deep" -> "CONFIRMED"]
  /\ UNCHANGED <<status, txHash, trail, posted, eventVars, sweep, refundVars,
                 outbox, chain>>

\* failPayment, first its transition and then its event.
FailPayment(p) ==
  /\ cfPhase[p] = "failing"
  /\ Transition(p, "FAILED")
  /\ ConfirmGoes(p, "unlogged")
  /\ UNCHANGED <<txHash, trail, posted, chainTx, eventVars, sweep, refundVars,
                 outbox, chain>>

LogFailure(p) ==
  /\ cfPhase[p] = "unlogged"
  /\ AppendEvent(p, "CONFIRMING", "FAILED")
  /\ ConfirmGoes(p, "completed")
  /\ UNCHANGED <<status, txHash, posted, chainTx, eventVars, sweep, refundVars,
                 outbox, chain>>

\* handleConfirmationUpdate reads the payment; without one in CONFIRMING it
\* returns to the worker, which rechecks only below the target.
FindConfirming(p) ==
  LET found == WorkerFinds(p) /\ status[p] = "CONFIRMING" IN
  /\ \/ /\ cfPhase[p] = "shallow"
        /\ ConfirmGoes(p, IF found THEN "counting" ELSE "recheck")
     \/ /\ cfPhase[p] = "deep"
        /\ ConfirmGoes(p, IF found THEN "settling" ELSE "completed")
  /\ UNCHANGED <<tables, eventVars, sweep, refundVars, outbox, chain>>

\* Below the threshold: transition(id, 'CONFIRMING') stores the count.
CountConfirmations(p) ==
  /\ cfPhase[p] = "counting"
  /\ Transition(p, "CONFIRMING")
  /\ ConfirmGoes(p, "recheck")
  /\ UNCHANGED <<txHash, trail, posted, chainTx, eventVars, sweep, refundVars,
                 outbox, chain>>

\* scheduleRecheck adds confirm:<p> while the job confirm:<p> is the one
\* running: a duplicate, which the queue drops (see AddConfirmJob). All that is
\* left of the step is the end of the job.
ScheduleRecheck(p) ==
  /\ cfPhase[p] = "recheck"
  /\ ConfirmGoes(p, "completed")
  /\ UNCHANGED <<tables, eventVars, sweep, refundVars, outbox, chain>>

\* Injected fault: the settlement skips the ledger.
BeginSettleOnly(p) ==
  /\ cfPhase[p] = "settling"
  /\ ConfirmGoes(p, "posted")
  /\ UNCHANGED <<tables, eventVars, sweep, refundVars, outbox, chain>>

\* settlePayment opens its transaction and updates the row, which stays locked
\* and, to every other connection, unchanged.
BeginSettle(p) ==
  /\ cfPhase[p] = "settling"
  /\ ConfirmGoes(p, "locked")
  /\ UNCHANGED <<tables, eventVars, sweep, refundVars, outbox, chain>>

\* LedgerService.settlePayment is not handed the open transaction: it commits
\* one of its own.
PostLedger(p) ==
  /\ cfPhase[p] = "locked"
  /\ posted' = [posted EXCEPT ![p] = @ + 1]
  /\ ConfirmGoes(p, "posted")
  /\ UNCHANGED <<status, txHash, trail, chainTx, eventVars, sweep, refundVars,
                 outbox, chain>>

CommitSettle(p) ==
  /\ cfPhase[p] = "posted"
  /\ status' = [status EXCEPT ![p] = "COMPLETED"]
  /\ AppendEvent(p, "CONFIRMING", "COMPLETED")
  /\ ConfirmGoes(p, "notify")
  /\ UNCHANGED <<txHash, posted, chainTx, eventVars, sweep, refundVars, outbox,
                 chain>>

\* The webhook job, best effort: a failed enqueue is logged and forgotten.
NotifySettled(p) ==
  /\ cfPhase[p] = "notify"
  /\ \/ outbox' = [outbox EXCEPT ![p] = Append(@, "PAYMENT_COMPLETED")]
     \/ UNCHANGED outbox
  /\ ConfirmGoes(p, "completed")
  /\ UNCHANGED <<tables, eventVars, sweep, refundVars, chain>>

\* An RPC call, a query or the worker process fails; an open settlement
\* transaction rolls back (or times out), what the ledger committed stays.
ConfirmFault(p) ==
  /\ cfPhase[p] \in CfActive
  /\ RetryConfirm(p)
  /\ UNCHANGED <<tables, eventVars, sweep, refundVars, outbox, chain>>

\* removeOnComplete and removeOnFail keep a bounded number of finished jobs: an
\* old one is forgotten, and its jobId is free again.
ForgetConfirmJob(p) ==
  /\ cfPhase[p] \in {"completed", "failed"}
  /\ ConfirmGoes(p, "none")
  /\ UNCHANGED <<tables, eventVars, sweep, refundVars, outbox, chain>>
-----------------------------------------------------------------------------
(***************************************************************************)
(* expireStalePendingPayments: the batch is read once, then each payment   *)
(* is updated and its event appended by itself, outside a transaction.     *)
(***************************************************************************)

SweepSelect(p) ==
  /\ Sweeps
  /\ sweep[p] = "idle"
  /\ status[p] = "PENDING"
  /\ sweep' = [sweep EXCEPT ![p] = "selected"]
  /\ UNCHANGED <<tables, eventVars, confirmVars, refundVars, outbox, chain>>

SweepExpire(p) ==
  /\ sweep[p] = "selected"
  /\ Transition(p, "EXPIRED")
  /\ sweep' = [sweep EXCEPT ![p] = "unlogged"]
  /\ UNCHANGED <<txHash, trail, posted, chainTx, eventVars, confirmVars,
                 refundVars, outbox, chain>>

SweepLog(p) ==
  /\ sweep[p] = "unlogged"
  /\ AppendEvent(p, "PENDING", "EXPIRED")
  /\ sweep' = [sweep EXCEPT ![p] = "idle"]
  /\ UNCHANGED <<status, txHash, posted, chainTx, eventVars, confirmVars,
                 refundVars, outbox, chain>>

SweepFault(p) ==
  /\ sweep[p] # "idle"
  /\ sweep' = [sweep EXCEPT ![p] = "idle"]
  /\ UNCHANGED <<tables, eventVars, confirmVars, refundVars, outbox, chain>>
-----------------------------------------------------------------------------
(***************************************************************************)
(* handleRefund, called by the tenant that owns the payment.               *)
(***************************************************************************)

\* Injected fault: a refund that does not ask the status machine.
RefundReadUnchecked(r, p) ==
  /\ r \notin refunded
  /\ refund[r] = NoPayment
  /\ refund' = [refund EXCEPT ![r] = p]
  /\ UNCHANGED <<tables, eventVars, confirmVars, sweep, refunded, outbox, chain>>

RefundRead(r, p) ==
  /\ r \notin refunded
  /\ refund[r] = NoPayment
  /\ AssertTransition(status[p], "REFUNDED")
  /\ refund' = [refund EXCEPT ![r] = p]
  /\ UNCHANGED <<tables, eventVars, confirmVars, sweep, refunded, outbox, chain>>

\* Status and event in one transaction, then the webhook job, best effort.
RefundCommit(r) ==
  LET p == refund[r] IN
  /\ p # NoPayment
  /\ Transition(p, "REFUNDED")
  /\ AppendEvent(p, "COMPLETED", "REFUNDED")
  /\ \/ outbox' = [outbox EXCEPT ![p] = Append(@, "PAYMENT_REFUNDED")]
     \/ UNCHANGED outbox
  /\ refund' = [refund EXCEPT ![r] = NoPayment]
  /\ refunded' = refunded \cup {r}
  /\ UNCHANGED <<txHash, posted, chainTx, eventVars, confirmVars, sweep, chain>>
-----------------------------------------------------------------------------
(***************************************************************************)
(* The chain, as the RPC node reports it. A Transfer log implies its tx is *)
(* mined; a reorganisation may take the receipt away, but not once the     *)
(* target is reached.                                                      *)
(***************************************************************************)

ChainMoves(x) ==
  /\ \E next \in ChainState :
        /\ \/ <<chain[x], next>> = <<"shallow", "deep">>
           \/ /\ x \in Reorgs
              /\ <<chain[x], next>> \in
                   { <<"shallow", "missing">>, <<"missing", "shallow">>,
                     <<"missing", "dropped">>, <<"missing", "reverted">>,
                     <<"dropped", "shallow">> }
        /\ chain' = [chain EXCEPT ![x] = next]
  /\ UNCHANGED <<tables, eventVars, confirmVars, sweep, refundVars, outbox>>
-----------------------------------------------------------------------------
EventStep(t) ==
  \/ \E p \in Payments : MatchPayment(t, p)
  \/ DiscardTransfer(t)
  \/ FailUnderpaid(t)
  \/ FindDetected(t)
  \/ CommitDetected(t)
  \/ RefuseDetected(t)
  \/ EnqueueConfirm(t)

ConfirmStep(p) ==
  \/ PollStart(p)
  \/ ReadChain(p)
  \/ FailPayment(p)
  \/ LogFailure(p)
  \/ FindConfirming(p)
  \/ CountConfirmations(p)
  \/ ScheduleRecheck(p)
  \/ BeginSettle(p)
  \/ PostLedger(p)
  \/ CommitSettle(p)
  \/ NotifySettled(p)

SweepStep(p) ==
  \/ SweepSelect(p)
  \/ SweepExpire(p)
  \/ SweepLog(p)
  \/ SweepFault(p)

RefundStep(r) ==
  \/ \E p \in Payments : RefundRead(r, p)
  \/ RefundCommit(r)

Next ==
  \/ \E t \in Transfers : DepositQueued(t) \/ EventStep(t) \/ EventFault(t)
  \/ \E p \in Payments :
       ConfirmStep(p) \/ ConfirmFault(p) \/ ForgetConfirmJob(p) \/ SweepStep(p)
  \/ \E r \in Refunders : RefundStep(r)
  \/ \E x \in Txs : ChainMoves(x)

Spec == Init /\ [][Next]_vars

\* The workers keep taking jobs and finishing steps. Nothing obliges the
\* listener to see a deposit, a tenant to refund, the chain to advance, an
\* expiry sweep to be enqueued (no code does) or a fault to happen.
FairSpec ==
  /\ Spec
  /\ WF_vars(\E t \in Transfers : EventStep(t))
  /\ WF_vars(\E p \in Payments : ConfirmStep(p))
-----------------------------------------------------------------------------
(***************************************************************************)
(* What the rail guarantees, races, retries and faults included.           *)
(***************************************************************************)

\* A transfer that covers what is due on p, sent to its deposit address in a
\* transaction that has reached the confirmations the payment requires.
Covers(t, p) == ToAddress[t] = AddressOf[p] /\ AmountRaw[t] + 1 >= AmountDue[p]
Backed(p) == \E t \in Transfers : Covers(t, p) /\ chain[TxOf[t]] = "deep"

\* The ledger books a payment only against a confirmed transfer that covers it:
\* the match, the amount check, the poll and the settlement are four separate
\* steps of two workers, each on what the one before has read.
CreditBacked == \A p \in Payments : posted[p] > 0 => Backed(p)

\* Nobody sees a payment COMPLETED or REFUNDED that the ledger has not booked,
\* whichever writer overtakes the settlement.
CompletedIsPosted ==
  \A p \in Payments : status[p] \in {"COMPLETED", "REFUNDED"} => posted[p] > 0

\* One transaction hash is on record for at most one payment, although several
\* workers match transfers to the PENDING payments of one address at a time.
TxHashUnique ==
  \A p, q \in Payments : txHash[p] = txHash[q] /\ txHash[p] # NoTx => p = q

\* How often an element occurs in a sequence, each change of status in the
\* events of a payment, and each webhook among the jobs enqueued for it.
Count(s, e) == Cardinality({i \in DOMAIN s : s[i] = e})
Logged(p, from, to) == Count(trail[p], <<from, to>>)
Announced(p, webhook) == Count(outbox[p], webhook)

\* Every recorded settlement was booked, every announced one recorded, and there
\* is a detection for each: a retried or rolled back settlement never leaves an
\* event or a webhook behind, and a payment that stale writes take out of COMPLETED
\* is settled again only if it was detected again.
SettlementsBooked ==
  \A p \in Payments :
    /\ Logged(p, "CONFIRMING", "COMPLETED") <= posted[p]
    /\ Logged(p, "CONFIRMING", "COMPLETED") <= Logged(p, "PENDING", "CONFIRMING")
    /\ Announced(p, "PAYMENT_COMPLETED") <= Logged(p, "CONFIRMING", "COMPLETED")

\* A payment that shows a txHash got it together with the event of its
\* detection: either both are stored or neither is.
DetectionLogged ==
  \A p \in Payments :
    (txHash[p] # NoTx) = (Logged(p, "PENDING", "CONFIRMING") > 0)

\* The rail as SettlementPromise sees it: the deposits confirmed so far, the
\* bookings, and what the payment events say.
Promise == INSTANCE SettlementPromise WITH
  backed   <- {p \in Payments : Backed(p)},
  bookings <- posted,
  settled  <- {p \in Payments : Logged(p, "CONFIRMING", "COMPLETED") > 0},
  returned <- {p \in Payments : Logged(p, "COMPLETED", "REFUNDED") > 0}

\* No crash, retry, race or overwritten status makes the rail book, settle or
\* refund a payment out of that order.
KeepsPromise == Promise!Spec

\* While the worker lookups pass '' as tenant id, no payment leaves PENDING
\* other than by failing or expiring, and nothing is ever booked or announced.
NothingSettles ==
  WorkerSees = {} =>
    \A p \in Payments :
      /\ status[p] \in {"PENDING", "FAILED", "EXPIRED"}
      /\ txHash[p] = NoTx /\ posted[p] = 0 /\ outbox[p] = <<>>

\* A stored txHash is overwritten only by another detection: no confirmation,
\* failure, expiry or refund touches it.
TxHashChangesOnlyByDetection ==
  [][\A p \in Payments :
       txHash'[p] # txHash[p] =>
         /\ status'[p] = "CONFIRMING"
         /\ \E t \in Transfers : evPayment[t] = p /\ TxOf[t] = txHash'[p] /\ Covers(t, p)]_vars

\* A worker takes every queued transfer to an end within its attempts.
TransferJobsEnd == []<>(\A t \in Transfers : evPhase[t] \in {"none", "completed", "failed"})

\* PENDING -> CONFIRMING (tx detected by listener): a queued transfer that covers a
\* PENDING payment, the only one of its address, takes it out of PENDING, unless
\* the job runs out of attempts.
DepositDetected ==
  \A t \in Transfers, p \in Payments :
    /\ evPhase[t] = "waiting" /\ status[p] = "PENDING" /\ Covers(t, p)
    /\ \A q \in Payments : AddressOf[q] = AddressOf[p] => q = p
    ~> status[p] # "PENDING" \/ evPhase[t] = "failed"

\* A payment whose queued poll will find its transaction deep enough leaves
\* CONFIRMING, unless the job runs out of attempts.
DeepIsSettled ==
  \A p \in Payments, x \in Txs :
    cfPhase[p] = "waiting" /\ status[p] = "CONFIRMING" /\ cfTx[p] = x /\ chain[x] = "deep"
    ~> status[p] # "CONFIRMING" \/ cfPhase[p] = "failed"
-----------------------------------------------------------------------------
(***************************************************************************)
(* What documentation and comments say of the rail and the code does not   *)
(* keep; each is refuted by a run of its own.                              *)
(***************************************************************************)

\* "Any attempt to move to an invalid state throws - the DB never sees an
\* inconsistent status" (payment-state-machine.ts).
OnlyValidTransitions ==
  [][\A p \in Payments : AssertTransition(status[p], status'[p])]_vars

\* "either both commit or both roll back" (payments.service.ts): outside an open
\* settlement, the ledger holds as many bookings as there are settlements.
SettledTogether ==
  \A p \in Payments :
    ~RowLocked(p) => posted[p] = Logged(p, "CONFIRMING", "COMPLETED")

\* "Re-enqueues itself with a delay until the threshold is reached or the tx
\* fails" (transaction-confirmation.worker.ts): a payment with a poll leaves
\* CONFIRMING once the transaction polled has the confirmations.
PolledToTheEnd ==
  \A p \in Payments, x \in Txs :
    status[p] = "CONFIRMING" /\ cfPhase[p] # "none" /\ cfTx[p] = x /\ chain[x] = "deep"
      ~> status[p] # "CONFIRMING" \/ cfPhase[p] = "failed"
=============================================================================
