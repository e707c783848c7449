----------------------------- MODULE DealRegistry -----------------------------
(***************************************************************************)
(* The registration of won deals: DealsService.moveStage enqueues a job    *)
(* for each move to a won stage, BlockchainWorker writes the deal's        *)
(* blockchain_records row and BlockchainService registers the hash in the  *)
(* contract DealHashRegistry, which keeps the last hash of each deal. The  *)
(* hash commits wonAt, so every win has its own; here it is the win.       *)
(***************************************************************************)
EXTENDS Naturals, Sequences

CONSTANTS
  Deals,
  Wins,      \* moves of a deal to a won stage; a deal may be won again
  DealOf,    \* [Wins -> Deals]
  NoWin,     \* the contract's zero hash, and the hash of no record
  MaxTries   \* attempts of a blockchain job (6 in the source)

ASSUME RegistryAssumption ==
  /\ DealOf \in [Wins -> Deals]
  /\ NoWin \notin Wins
  /\ MaxTries \in Nat /\ MaxTries > 0

VARIABLES
  configured,  \* the environment names a node, a key and a contract
  won,         \* the moves that have committed
  job,         \* the job of each win
  tries,       \* failed attempts of each job
  record,      \* blockchain_records: status and dataHash
  mempool,     \* transactions not yet mined, in nonce order: <<win, attempt>>
  receipt,     \* what tx.wait of a job's last attempt has to return
  registry     \* the contract's records

vars == <<configured, won, job, tries, record, mempool, receipt, registry>>

Active == {"started", "awaiting", "failing", "confirmed"}
Tx == Wins \X (1 .. MaxTries)
Record == [status : {"none", "PENDING", "CONFIRMED", "FAILED"}, hash : Wins \cup {NoWin}]

TypeOK ==
  /\ configured \in BOOLEAN
  /\ won \subseteq Wins
  /\ job \in [Wins -> {"none", "queued", "completed", "failed"} \cup Active]
  /\ tries \in [Wins -> 0 .. MaxTries]
  /\ record \in [Deals -> Record]
  /\ mempool \in Seq(Tx)
  /\ receipt \in [Wins -> {"none", "success", "reverted"}]
  /\ registry \in [Deals -> Wins \cup {NoWin}]

Init ==
  /\ configured \in BOOLEAN
  /\ won = {}
  /\ job = [w \in Wins |-> "none"]
  /\ tries = [w \in Wins |-> 0]
  /\ record = [d \in Deals |-> [status |-> "none", hash |-> NoWin]]
  /\ mempool = <<>>
  /\ receipt = [w \in Wins |-> "none"]
  /\ registry = [d \in Deals |-> NoWin]

onChain == <<mempool, receipt, registry>>

Goes(w, phase) ==
  /\ job' = [job EXCEPT ![w] = phase]
  /\ UNCHANGED tries

\* Injected fault: one attempt too many.
RetryOnceMore(w) ==
  /\ tries' = [tries EXCEPT ![w] = @ + 1]
  /\ job' = [job EXCEPT ![w] = IF tries[w] < MaxTries THEN "queued" ELSE "failed"]

\* The attempt fails: another one after a delay, during which the worker may
\* take other jobs, or none is left.
Retry(w) ==
  /\ tries' = [tries EXCEPT ![w] = @ + 1]
  /\ job' = [job EXCEPT ![w] = IF tries[w] + 1 < MaxTries THEN "queued" ELSE "failed"]

SetRecord(d, status, hash) ==
  record' = [record EXCEPT ![d] = [status |-> status, hash |-> hash]]

\* Updates by id, of the status alone.
SetStatus(d, status) == SetRecord(d, status, record[d].hash)

\* The worker runs one job at a time.
WorkerIdle == \A w \in Wins : job[w] \notin Active
-----------------------------------------------------------------------------
\* The transaction of moveStage commits, and later, if nothing fails between
\* the two, the registration is enqueued.
CommitWon(w) ==
  /\ w \notin won
  /\ won' = won \cup {w}
  /\ UNCHANGED <<configured, job, tries, record, onChain>>

EnqueueRegister(w) ==
  /\ w \in won
  /\ job[w] = "none"
  /\ Goes(w, "queued")
  /\ UNCHANGED <<configured, won, record, onChain>>

\* Injected fault: jobs of one queue run side by side.
UpsertSideBySide(w) ==
  /\ job[w] = "queued"
  /\ SetRecord(DealOf[w], "PENDING", w)
  /\ Goes(w, "started")
  /\ UNCHANGED <<configured, won, onChain>>

\* The job starts: the deal's record becomes that of this win, PENDING.
Upsert(w) ==
  /\ job[w] = "queued"
  /\ WorkerIdle
  /\ SetRecord(DealOf[w], "PENDING", w)
  /\ Goes(w, "started")
  /\ UNCHANGED <<configured, won, onChain>>

\* Without a contract the record is FAILED and the job is done.
SkipUnconfigured(w) ==
  /\ job[w] = "started"
  /\ ~configured
  /\ SetStatus(DealOf[w], "FAILED")
  /\ Goes(w, "completed")
  /\ UNCHANGED <<configured, won, onChain>>

\* registerDeal is sent with the signer's next nonce.
Submit(w) ==
  /\ job[w] = "started"
  /\ configured
  /\ mempool' = Append(mempool, <<w, tries[w] + 1>>)
  /\ receipt' = [receipt EXCEPT ![w] = "none"]
  /\ Goes(w, "awaiting")
  /\ UNCHANGED <<configured, won, record, registry>>

\* Injected fault: the status of the receipt is not looked at.
ConfirmAnyReceipt(w) ==
  /\ job[w] = "awaiting"
  /\ receipt[w] # "none"
  /\ SetStatus(DealOf[w], "CONFIRMED")
  /\ Goes(w, "confirmed")
  /\ UNCHANGED <<configured, won, onChain>>

Confirm(w) ==
  /\ job[w] = "awaiting"
  /\ receipt[w] = "success"
  /\ SetStatus(DealOf[w], "CONFIRMED")
  /\ Goes(w, "confirmed")
  /\ UNCHANGED <<configured, won, onChain>>

Complete(w) ==
  /\ job[w] = "confirmed"
  /\ Goes(w, "completed")
  /\ UNCHANGED <<configured, won, record, onChain>>

\* Injected fault: the wait for a receipt has no timeout.
ThrowsBeforeWait(w) ==
  /\ \/ job[w] = "started"
     \/ /\ job[w] = "awaiting"
        /\ receipt[w] = "reverted"
  /\ Goes(w, "failing")
  /\ UNCHANGED <<configured, won, record, onChain>>

\* An error inside the try block: the node refuses the transaction, or its
\* answer is lost; the wait times out, whatever becomes of the transaction;
\* the transaction reverts; an update of the record fails.
Throws(w) ==
  /\ job[w] \in {"started", "awaiting"}
  /\ Goes(w, "failing")
  /\ UNCHANGED <<configured, won, record, onChain>>

\* The catch block, and the attempt's end.
WriteFailure(w) ==
  /\ job[w] = "failing"
  /\ SetStatus(DealOf[w], "FAILED")
  /\ Retry(w)
  /\ UNCHANGED <<configured, won, onChain>>

\* Nothing catches an error of the upsert, or of the catch block's own update;
\* or the process dies. A job that had confirmed its record is run again.
Fault(w) ==
  /\ \/ job[w] \in Active
     \/ /\ job[w] = "queued"
        /\ WorkerIdle
  /\ Retry(w)
  /\ UNCHANGED <<configured, won, record, onChain>>
-----------------------------------------------------------------------------
\* A block takes the transaction with the lowest nonce; registerDeal writes the
\* hash over whatever the deal had, unless the transaction reverts (no gas).
Mine(outcome) ==
  LET w == Head(mempool)[1] IN
  /\ mempool # <<>>
  /\ mempool' = Tail(mempool)
  /\ registry' = IF outcome = "success" THEN [registry EXCEPT ![DealOf[w]] = w] ELSE registry
  /\ receipt' = IF job[w] = "awaiting" /\ Head(mempool)[2] = tries[w] + 1
                THEN [receipt EXCEPT ![w] = outcome] ELSE receipt
  /\ UNCHANGED <<configured, won, job, tries, record>>

\* The node forgets the youngest transaction; its nonce is used again.
NodeDrops ==
  /\ mempool # <<>>
  /\ mempool' = SubSeq(mempool, 1, Len(mempool) - 1)
  /\ UNCHANGED <<configured, won, job, tries, record, receipt, registry>>

WorkerStep(w) ==
  \/ Upsert(w)
  \/ SkipUnconfigured(w)
  \/ Submit(w)
  \/ Confirm(w)
  \/ Complete(w)
  \/ Throws(w)
  \/ WriteFailure(w)

Next ==
  \/ \E w \in Wins : CommitWon(w) \/ EnqueueRegister(w) \/ WorkerStep(w) \/ Fault(w)
  \/ \E outcome \in {"success", "reverted"} : Mine(outcome)
  \/ NodeDrops

Spec == Init /\ [][Next]_vars

\* The worker goes on with the job it has, or takes the next.
FairSpec == Spec /\ WF_vars(\E w \in Wins : WorkerStep(w))
-----------------------------------------------------------------------------
\* What verifyDealOnChain relies on: whenever the record says CONFIRMED the
\* contract holds its hash. A transaction the worker stopped waiting for may be
\* mined at any later time, and a deal won again overwrites its record.
ConfirmedIsOnChain ==
  \A d \in Deals : record[d].status = "CONFIRMED" => registry[d] = record[d].hash

\* A job that completes leaves its hash in the contract, whatever its earlier
\* attempts and the jobs of the deal's other wins have left there.
CompletesOnChain ==
  [][\A w \in Wins :
       configured /\ job[w] # "completed" /\ job'[w] = "completed"
         => registry[DealOf[w]] = w]_vars

\* A wait that the chain never answers does not hold the queue up: again and again
\* every job that was queued has come to an end.
RegistrationsEnd == []<>(\A w \in Wins : job[w] \in {"none", "completed", "failed"})
=============================================================================
