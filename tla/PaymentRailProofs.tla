--------------------------- MODULE PaymentRailProofs ---------------------------
(***************************************************************************)
(* Theorems about PaymentRail, for any number of payments, transfers,      *)
(* transactions, refund calls and attempts.                                *)
(***************************************************************************)
EXTENDS PaymentRail, TLAPS

USE DEF tables, eventVars, confirmVars, refundVars
-----------------------------------------------------------------------------
(***************************************************************************)
(* Types. A counter of attempts stays in its range because a job that has  *)
(* none left is no longer active; a job past its first step has what it    *)
(* works on.                                                               *)
(***************************************************************************)

EventJobs ==
  /\ evPhase \in [Transfers -> EvIdle \cup EvActive]
  /\ evPayment \in [Transfers -> Payments \cup {NoPayment}]
  /\ evTries \in [Transfers -> 0 .. MaxEventTries]
  /\ \A t \in Transfers :
       /\ evPhase[t] \in EvActive \cup {"none"} => evTries[t] < MaxEventTries
       /\ evPhase[t] \in EvActive \ {"waiting"} => evPayment[t] \in Payments

ConfirmJobs ==
  /\ cfPhase \in [Payments -> CfIdle \cup CfActive]
  /\ cfTx \in [Payments -> Txs \cup {NoTx}]
  /\ cfTries \in [Payments -> 0 .. MaxConfirmTries]
  /\ \A p \in Payments : cfPhase[p] \in CfActive =>
       cfTries[p] < MaxConfirmTries /\ cfTx[p] \in Txs

TypeInv == TypeOK /\ EventJobs /\ ConfirmJobs

LEMMA AppendEventType ==
  ASSUME TypeOK, NEW p \in Payments, NEW from \in PaymentStatus, NEW to \in PaymentStatus,
         AppendEvent(p, from, to)
  PROVE  trail' \in [Payments -> Seq(PaymentStatus \X PaymentStatus)]
  BY DEF TypeOK, AppendEvent

LEMMA OutboxType ==
  ASSUME TypeOK, NEW p \in Payments, NEW w \in Webhooks,
         outbox' = [outbox EXCEPT ![p] = Append(@, w)] \/ UNCHANGED outbox
  PROVE  outbox' \in [Payments -> Seq(Webhooks)]
<1>1. CASE outbox' = [outbox EXCEPT ![p] = Append(@, w)]
  <2>1. Append(outbox[p], w) \in Seq(Webhooks)
    BY DEF TypeOK
  <2> QED
    BY <1>1, <2>1 DEF TypeOK
<1>2. CASE UNCHANGED outbox
  BY <1>2 DEF TypeOK
<1> QED
  BY <1>1, <1>2

LEMMA RetryEventType ==
  ASSUME EventJobs, NEW t \in Transfers, evPhase[t] \in EvActive, RetryEvent(t)
  PROVE  EventJobs'
  BY RailAssumption DEF EventJobs, RetryEvent, EvIdle, EvActive

LEMMA RetryConfirmType ==
  ASSUME ConfirmJobs, NEW p \in Payments, cfPhase[p] \in CfActive, RetryConfirm(p)
  PROVE  ConfirmJobs'
  BY RailAssumption DEF ConfirmJobs, RetryConfirm, CfIdle, CfActive

LEMMA AddConfirmJobType ==
  ASSUME ConfirmJobs, NEW p \in Payments, NEW x \in Txs, AddConfirmJob(p, x)
  PROVE  ConfirmJobs'
<1>1. CASE cfPhase[p] = "none"
  BY <1>1, RailAssumption DEF ConfirmJobs, AddConfirmJob, CfIdle, CfActive
<1>2. CASE cfPhase[p] # "none"
  BY <1>2 DEF ConfirmJobs, AddConfirmJob, CfIdle, CfActive
<1> QED
  BY <1>1, <1>2

\* Only an active job goes on to another active phase.
LEMMA ConfirmGoesType ==
  ASSUME ConfirmJobs, NEW p \in Payments, NEW phase \in CfIdle \cup CfActive,
         phase \in CfActive => cfPhase[p] \in CfActive, ConfirmGoes(p, phase)
  PROVE  ConfirmJobs'
  BY DEF ConfirmJobs, ConfirmGoes, CfIdle, CfActive

LEMMA TypeInit == Init => TypeInv
  BY RailAssumption DEF Init, TypeInv, EventJobs, ConfirmJobs, TypeOK, PaymentStatus, EvIdle,
     EvActive, CfIdle, CfActive, ChainState, Webhooks

LEMMA TypeStep == TypeInv /\ [Next]_vars => TypeInv'
<1> SUFFICES ASSUME TypeInv, [Next]_vars PROVE TypeInv'
  OBVIOUS
<1> USE RailAssumption DEF TypeInv, TypeOK, EventJobs, ConfirmJobs, PaymentStatus, EvIdle,
        EvActive, CfIdle, CfActive, ChainState, Webhooks
<1>1. ASSUME NEW t \in Transfers, DepositQueued(t) PROVE TypeInv'
  BY <1>1 DEF DepositQueued, EventGoes
<1>2. ASSUME NEW t \in Transfers, DiscardTransfer(t) PROVE TypeInv'
  BY <1>2 DEF DiscardTransfer, EventGoes
<1>3. ASSUME NEW t \in Transfers, FailUnderpaid(t) PROVE TypeInv'
  BY <1>3 DEF FailUnderpaid, EventGoes, Transition
<1>4. ASSUME NEW t \in Transfers, FindDetected(t) PROVE TypeInv'
  BY <1>4 DEF FindDetected, EventGoes
<1>5. ASSUME NEW t \in Transfers, CommitDetected(t) PROVE TypeInv'
  <2>1. evPayment[t] \in Payments
    BY <1>5 DEF CommitDetected
  <2>2. trail' \in [Payments -> Seq(PaymentStatus \X PaymentStatus)]
    BY <1>5, <2>1, AppendEventType DEF CommitDetected
  <2> QED
    BY <1>5, <2>1, <2>2 DEF CommitDetected, EventGoes, Transition
<1>6. ASSUME NEW t \in Transfers, RefuseDetected(t) PROVE TypeInv'
  BY <1>6 DEF RefuseDetected, RetryEvent
<1>7. ASSUME NEW t \in Transfers, EnqueueConfirm(t) PROVE TypeInv'
  <2>1. ConfirmJobs'
    BY <1>7, AddConfirmJobType DEF EnqueueConfirm
  <2> QED
    BY <1>7, <2>1 DEF EnqueueConfirm, EventGoes
<1>8. ASSUME NEW t \in Transfers, EventFault(t) PROVE TypeInv'
  <2>1. ConfirmJobs'
    BY <1>8, AddConfirmJobType DEF EventFault
  <2>2. EventJobs'
    BY <1>8, RetryEventType DEF EventFault
  <2> QED
    BY <1>8, <2>1, <2>2 DEF EventFault
<1>9. ASSUME NEW p \in Payments, PollStart(p) PROVE TypeInv'
  BY <1>9 DEF PollStart, ConfirmGoes
<1>10. ASSUME NEW p \in Payments, ReadChain(p) PROVE TypeInv'
  <2> DEFINE x == cfTx[p]
  <2>1. x \in Txs /\ chain[x] \in ChainState
    BY <1>10 DEF ReadChain
  <2>2. ConfirmJobs'
    BY <1>10, <2>1 DEF ReadChain, ConfirmGoes
  <2>3. chainTx' \in [Txs -> {"absent", "SUBMITTED", "CONFIRMED", "FAILED"}]
    BY <1>10, <2>1 DEF ReadChain
  <2> QED
    BY <1>10, <2>2, <2>3 DEF ReadChain
<1>11. ASSUME NEW p \in Payments, FailPayment(p) PROVE TypeInv'
  BY <1>11 DEF FailPayment, ConfirmGoes, Transition
<1>12. ASSUME NEW p \in Payments, LogFailure(p) PROVE TypeInv'
  <2>1. trail' \in [Payments -> Seq(PaymentStatus \X PaymentStatus)]
    BY <1>12, AppendEventType DEF LogFailure
  <2> QED
    BY <1>12, <2>1 DEF LogFailure, ConfirmGoes
<1>13. ASSUME NEW p \in Payments, FindConfirming(p) PROVE TypeInv'
  <2>1. ConfirmJobs'
    BY <1>13, ConfirmGoesType DEF FindConfirming
  <2> QED
    BY <1>13, <2>1 DEF FindConfirming
<1>14. ASSUME NEW p \in Payments, CountConfirmations(p) PROVE TypeInv'
  BY <1>14 DEF CountConfirmations, ConfirmGoes, Transition
<1>15. ASSUME NEW p \in Payments, ScheduleRecheck(p) PROVE TypeInv'
  BY <1>15 DEF ScheduleRecheck, ConfirmGoes
<1>16. ASSUME NEW p \in Payments, BeginSettle(p) PROVE TypeInv'
  BY <1>16 DEF BeginSettle, ConfirmGoes
<1>17. ASSUME NEW p \in Payments, PostLedger(p) PROVE TypeInv'
  <2>1. posted' \in [Payments -> Nat]
    BY <1>17 DEF PostLedger
  <2>2. ConfirmJobs'
    BY <1>17 DEF PostLedger, ConfirmGoes
  <2> QED
    BY <1>17, <2>1, <2>2 DEF PostLedger
<1>18. ASSUME NEW p \in Payments, CommitSettle(p) PROVE TypeInv'
  <2>1. trail' \in [Payments -> Seq(PaymentStatus \X PaymentStatus)]
    BY <1>18, AppendEventType DEF CommitSettle
  <2> QED
    BY <1>18, <2>1 DEF CommitSettle, ConfirmGoes
<1>19. ASSUME NEW p \in Payments, NotifySettled(p) PROVE TypeInv'
  <2>1. ConfirmJobs'
    BY <1>19 DEF NotifySettled, ConfirmGoes
  <2>2. outbox' \in [Payments -> Seq(Webhooks)]
    BY <1>19, OutboxType, "PAYMENT_COMPLETED" \in Webhooks DEF NotifySettled
  <2> QED
    BY <1>19, <2>1, <2>2 DEF NotifySettled
<1>20. ASSUME NEW p \in Payments, ConfirmFault(p) PROVE TypeInv'
  <2>1. ConfirmJobs'
    BY <1>20, RetryConfirmType DEF ConfirmFault
  <2> QED
    BY <1>20, <2>1 DEF ConfirmFault
<1>21. ASSUME NEW p \in Payments, ForgetConfirmJob(p) PROVE TypeInv'
  BY <1>21 DEF ForgetConfirmJob, ConfirmGoes
<1>22. ASSUME NEW p \in Payments, SweepSelect(p) PROVE TypeInv'
  BY <1>22 DEF SweepSelect
<1>23. ASSUME NEW p \in Payments, SweepExpire(p) PROVE TypeInv'
  BY <1>23 DEF SweepExpire, Transition
<1>24. ASSUME NEW p \in Payments, SweepLog(p) PROVE TypeInv'
  <2>1. trail' \in [Payments -> Seq(PaymentStatus \X PaymentStatus)]
    BY <1>24, AppendEventType DEF SweepLog
  <2> QED
    BY <1>24, <2>1 DEF SweepLog
<1>25. ASSUME NEW p \in Payments, SweepFault(p) PROVE TypeInv'
  BY <1>25 DEF SweepFault
<1>26. ASSUME NEW r \in Refunders, RefundCommit(r) PROVE TypeInv'
  <2> DEFINE p == refund[r]
  <2>1. p \in Payments
    BY <1>26 DEF RefundCommit
  <2>2. trail' \in [Payments -> Seq(PaymentStatus \X PaymentStatus)]
    BY <1>26, <2>1, AppendEventType DEF RefundCommit
  <2>3. outbox' \in [Payments -> Seq(Webhooks)]
    BY <1>26, <2>1, OutboxType, "PAYMENT_REFUNDED" \in Webhooks DEF RefundCommit
  <2> QED
    BY <1>26, <2>1, <2>2, <2>3 DEF RefundCommit, Transition
<1>27. ASSUME NEW x \in Txs, ChainMoves(x) PROVE TypeInv'
  BY <1>27 DEF ChainMoves
<1>28. ASSUME NEW t \in Transfers, NEW p \in Payments, MatchPayment(t, p) PROVE TypeInv'
  BY <1>28 DEF MatchPayment
<1>29. ASSUME NEW r \in Refunders, NEW p \in Payments, RefundRead(r, p) PROVE TypeInv'
  BY <1>29 DEF RefundRead
<1>30. CASE UNCHANGED vars
  BY <1>30 DEF vars
<1> QED
  BY <1>1, <1>2, <1>3, <1>4, <1>5, <1>6, <1>7, <1>8, <1>9, <1>10, <1>11,
     <1>12, <1>13, <1>14, <1>15, <1>16, <1>17, <1>18, <1>19, <1>20, <1>21,
     <1>22, <1>23, <1>24, <1>25, <1>26, <1>27, <1>28, <1>29, <1>30
  DEF Next, EventStep, ConfirmStep, SweepStep, RefundStep

\* Every variable keeps its type.
THEOREM TypeCorrect == Spec => []TypeOK
<1>1. TypeInv => TypeOK
  BY DEF TypeInv
<1> QED
  BY <1>1, TypeInit, TypeStep, PTL DEF Spec
-----------------------------------------------------------------------------
(***************************************************************************)
(* Where the money comes from: a confirmation job polls the transaction of *)
(* a transfer that covers its payment, and goes past the check only when   *)
(* that transaction is deep, which it stays.                               *)
(***************************************************************************)

Provenance ==
  /\ \A t \in Transfers :
       evPhase[t] \in {"matched", "found", "detected"} => Covers(t, evPayment[t])
  /\ \A p \in Payments :
       /\ cfPhase[p] \in CfActive => \E t \in Transfers : Covers(t, p) /\ TxOf[t] = cfTx[p]
       /\ cfPhase[p] \in {"deep", "settling", "locked", "posted"} => chain[cfTx[p]] = "deep"
  /\ CreditBacked

LEMMA DeepStays == [Next]_vars => \A x \in Txs : chain[x] = "deep" => chain'[x] = "deep"
<1> SUFFICES ASSUME [Next]_vars, NEW x \in Txs, chain[x] = "deep" PROVE chain'[x] = "deep"
  OBVIOUS
<1>1. ASSUME NEW y \in Txs, ChainMoves(y) PROVE chain'[x] = "deep"
  BY <1>1 DEF ChainMoves
<1>2. UNCHANGED chain \/ \E y \in Txs : ChainMoves(y)
  BY DEF Next, EventStep, ConfirmStep, SweepStep, RefundStep, vars,
         DepositQueued, DiscardTransfer, FailUnderpaid, FindDetected,
         CommitDetected, RefuseDetected, EnqueueConfirm, EventFault,
         PollStart, ReadChain, FailPayment, LogFailure, FindConfirming,
         CountConfirmations, ScheduleRecheck, BeginSettle, PostLedger,
         CommitSettle, NotifySettled, ConfirmFault, ForgetConfirmJob,
         SweepSelect, SweepExpire, SweepLog, SweepFault, RefundCommit,
         ChainMoves, MatchPayment, RefundRead
<1> QED
  BY <1>1, <1>2

LEMMA ProvenanceStep == TypeInv /\ Provenance /\ [Next]_vars => Provenance'
<1> SUFFICES ASSUME TypeInv, Provenance, [Next]_vars PROVE Provenance'
  OBVIOUS
<1> USE RailAssumption DEF TypeInv, EventJobs, ConfirmJobs, Provenance, CreditBacked, Backed,
        Covers, EvIdle, EvActive, CfIdle, CfActive
<1>1. ASSUME NEW t \in Transfers, DepositQueued(t) PROVE Provenance'
  BY <1>1 DEF DepositQueued, EventGoes
<1>2. ASSUME NEW t \in Transfers, DiscardTransfer(t) PROVE Provenance'
  BY <1>2 DEF DiscardTransfer, EventGoes
<1>3. ASSUME NEW t \in Transfers, FailUnderpaid(t) PROVE Provenance'
  BY <1>3 DEF FailUnderpaid, EventGoes, Transition
<1>4. ASSUME NEW t \in Transfers, FindDetected(t) PROVE Provenance'
  BY <1>4 DEF FindDetected, EventGoes
<1>5. ASSUME NEW t \in Transfers, CommitDetected(t) PROVE Provenance'
  BY <1>5 DEF CommitDetected, EventGoes, Transition, AppendEvent
<1>6. ASSUME NEW t \in Transfers, RefuseDetected(t) PROVE Provenance'
  BY <1>6 DEF RefuseDetected, RetryEvent
<1>7. ASSUME NEW t \in Transfers, EnqueueConfirm(t) PROVE Provenance'
  BY <1>7 DEF EnqueueConfirm, EventGoes, AddConfirmJob
<1>8. ASSUME NEW t \in Transfers, EventFault(t) PROVE Provenance'
  BY <1>8 DEF EventFault, RetryEvent, AddConfirmJob
<1>9. ASSUME NEW p \in Payments, PollStart(p) PROVE Provenance'
  BY <1>9 DEF PollStart, ConfirmGoes
<1>10. ASSUME NEW p \in Payments, ReadChain(p) PROVE Provenance'
  <2>1. cfTx[p] \in Txs /\ chain[cfTx[p]] \in ChainState
    BY <1>10 DEF ReadChain, TypeOK
  <2>2. cfPhase[p] \in CfActive /\ cfTx' = cfTx /\ UNCHANGED <<posted, chain, evPhase, evPayment>>
    BY <1>10 DEF ReadChain, ConfirmGoes
  <2>3. cfPhase'[p] = "deep" => chain[cfTx[p]] = "deep"
    BY <1>10, <2>1 DEF ReadChain, ConfirmGoes, ChainState
  <2>4. cfPhase'[p] \notin {"settling", "locked", "posted"}
    BY <1>10, <2>1 DEF ReadChain, ConfirmGoes, ChainState
  <2>5. \A q \in Payments \ {p} : cfPhase'[q] = cfPhase[q]
    BY <1>10 DEF ReadChain, ConfirmGoes
  <2> QED
    BY <2>2, <2>3, <2>4, <2>5
<1>11. ASSUME NEW p \in Payments, FailPayment(p) PROVE Provenance'
  BY <1>11 DEF FailPayment, ConfirmGoes, Transition
<1>12. ASSUME NEW p \in Payments, LogFailure(p) PROVE Provenance'
  BY <1>12 DEF LogFailure, ConfirmGoes, AppendEvent
<1>13. ASSUME NEW p \in Payments, FindConfirming(p) PROVE Provenance'
  BY <1>13 DEF FindConfirming, ConfirmGoes
<1>14. ASSUME NEW p \in Payments, CountConfirmations(p) PROVE Provenance'
  BY <1>14 DEF CountConfirmations, ConfirmGoes, Transition
<1>15. ASSUME NEW p \in Payments, ScheduleRecheck(p) PROVE Provenance'
  BY <1>15 DEF ScheduleRecheck, ConfirmGoes
<1>16. ASSUME NEW p \in Payments, BeginSettle(p) PROVE Provenance'
  BY <1>16 DEF BeginSettle, ConfirmGoes
<1>17. ASSUME NEW p \in Payments, PostLedger(p) PROVE Provenance'
  BY <1>17 DEF PostLedger, ConfirmGoes
<1>18. ASSUME NEW p \in Payments, CommitSettle(p) PROVE Provenance'
  BY <1>18 DEF CommitSettle, ConfirmGoes, AppendEvent
<1>19. ASSUME NEW p \in Payments, NotifySettled(p) PROVE Provenance'
  BY <1>19 DEF NotifySettled, ConfirmGoes
<1>20. ASSUME NEW p \in Payments, ConfirmFault(p) PROVE Provenance'
  BY <1>20 DEF ConfirmFault, RetryConfirm
<1>21. ASSUME NEW p \in Payments, ForgetConfirmJob(p) PROVE Provenance'
  BY <1>21 DEF ForgetConfirmJob, ConfirmGoes
<1>22. ASSUME NEW p \in Payments, SweepSelect(p) PROVE Provenance'
  BY <1>22 DEF SweepSelect
<1>23. ASSUME NEW p \in Payments, SweepExpire(p) PROVE Provenance'
  BY <1>23 DEF SweepExpire, Transition
<1>24. ASSUME NEW p \in Payments, SweepLog(p) PROVE Provenance'
  BY <1>24 DEF SweepLog, AppendEvent
<1>25. ASSUME NEW p \in Payments, SweepFault(p) PROVE Provenance'
  BY <1>25 DEF SweepFault
<1>26. ASSUME NEW r \in Refunders, RefundCommit(r) PROVE Provenance'
  BY <1>26 DEF RefundCommit, Transition, AppendEvent
<1>27. ASSUME NEW x \in Txs, ChainMoves(x) PROVE Provenance'
  BY <1>27 DEF ChainMoves
<1>28. ASSUME NEW t \in Transfers, NEW p \in Payments, MatchPayment(t, p) PROVE Provenance'
  <2>1. evPhase'[t] = "matched" => Covers(t, p)
    BY <1>28 DEF MatchPayment, Underpaid
  <2>2. evPhase'[t] \in {"matched", "underpaid"} /\ evPayment'[t] = p
    BY <1>28 DEF MatchPayment
  <2>3. \A u \in Transfers \ {t} : evPhase'[u] = evPhase[u] /\ evPayment'[u] = evPayment[u]
    BY <1>28 DEF MatchPayment
  <2> QED
    BY <1>28, <2>1, <2>2, <2>3 DEF MatchPayment
<1>29. ASSUME NEW r \in Refunders, NEW p \in Payments, RefundRead(r, p) PROVE Provenance'
  BY <1>29 DEF RefundRead
<1>30. CASE UNCHANGED vars
  BY <1>30 DEF vars
<1> QED
  BY <1>1, <1>2, <1>3, <1>4, <1>5, <1>6, <1>7, <1>8, <1>9, <1>10, <1>11,
     <1>12, <1>13, <1>14, <1>15, <1>16, <1>17, <1>18, <1>19, <1>20, <1>21,
     <1>22, <1>23, <1>24, <1>25, <1>26, <1>27, <1>28, <1>29, <1>30
  DEF Next, EventStep, ConfirmStep, SweepStep, RefundStep

\* The ledger books a payment only against a confirmed transfer that covers it.
THEOREM CreditIsBacked == Spec => []CreditBacked
<1>1. Init => Provenance
  BY DEF Init, Provenance, CreditBacked, CfActive
<1>2. Provenance => CreditBacked
  BY DEF Provenance
<1> QED
  BY <1>1, <1>2, TypeInit, TypeStep, ProvenanceStep, PTL DEF Spec
-----------------------------------------------------------------------------
(***************************************************************************)
(* The books come first: the settlement that makes a payment COMPLETED has *)
(* posted it before, and a refund has read COMPLETED or REFUNDED.          *)
(***************************************************************************)

Booked ==
  /\ CompletedIsPosted
  /\ \A p \in Payments : cfPhase[p] = "posted" => posted[p] > 0
  /\ \A r \in Refunders : refund[r] # NoPayment => posted[refund[r]] > 0

LEMMA BookedStep == TypeInv /\ Booked /\ [Next]_vars => Booked'
<1> SUFFICES ASSUME TypeInv, Booked, [Next]_vars PROVE Booked'
  OBVIOUS
<1> USE RailAssumption DEF TypeInv, TypeOK, EventJobs, ConfirmJobs, Booked, CompletedIsPosted
<1>1. ASSUME NEW t \in Transfers, DepositQueued(t) PROVE Booked'
  BY <1>1 DEF DepositQueued, EventGoes
<1>2. ASSUME NEW t \in Transfers, DiscardTransfer(t) PROVE Booked'
  BY <1>2 DEF DiscardTransfer, EventGoes
<1>3. ASSUME NEW t \in Transfers, FailUnderpaid(t) PROVE Booked'
  BY <1>3 DEF FailUnderpaid, EventGoes, Transition
<1>4. ASSUME NEW t \in Transfers, FindDetected(t) PROVE Booked'
  BY <1>4 DEF FindDetected, EventGoes
<1>5. ASSUME NEW t \in Transfers, CommitDetected(t) PROVE Booked'
  BY <1>5 DEF CommitDetected, EventGoes, Transition, AppendEvent
<1>6. ASSUME NEW t \in Transfers, RefuseDetected(t) PROVE Booked'
  BY <1>6 DEF RefuseDetected, RetryEvent
<1>7. ASSUME NEW t \in Transfers, EnqueueConfirm(t) PROVE Booked'
  BY <1>7 DEF EnqueueConfirm, EventGoes, AddConfirmJob
<1>8. ASSUME NEW t \in Transfers, EventFault(t) PROVE Booked'
  BY <1>8 DEF EventFault, RetryEvent, AddConfirmJob
<1>9. ASSUME NEW p \in Payments, PollStart(p) PROVE Booked'
  BY <1>9 DEF PollStart, ConfirmGoes
<1>10. ASSUME NEW p \in Payments, ReadChain(p) PROVE Booked'
  <2>1. chain[cfTx[p]] \in ChainState
    BY <1>10 DEF ReadChain, CfActive
  <2>2. cfPhase'[p] # "posted" /\ \A q \in Payments \ {p} : cfPhase'[q] = cfPhase[q]
    BY <1>10, <2>1 DEF ReadChain, ConfirmGoes, ChainState
  <2> QED
    BY <1>10, <2>2 DEF ReadChain
<1>11. ASSUME NEW p \in Payments, FailPayment(p) PROVE Booked'
  BY <1>11 DEF FailPayment, ConfirmGoes, Transition
<1>12. ASSUME NEW p \in Payments, LogFailure(p) PROVE Booked'
  BY <1>12 DEF LogFailure, ConfirmGoes, AppendEvent
<1>13. ASSUME NEW p \in Payments, FindConfirming(p) PROVE Booked'
  BY <1>13 DEF FindConfirming, ConfirmGoes
<1>14. ASSUME NEW p \in Payments, CountConfirmations(p) PROVE Booked'
  BY <1>14 DEF CountConfirmations, ConfirmGoes, Transition
<1>15. ASSUME NEW p \in Payments, ScheduleRecheck(p) PROVE Booked'
  BY <1>15 DEF ScheduleRecheck, ConfirmGoes
<1>16. ASSUME NEW p \in Payments, BeginSettle(p) PROVE Booked'
  BY <1>16 DEF BeginSettle, ConfirmGoes
<1>17. ASSUME NEW p \in Payments, PostLedger(p) PROVE Booked'
  BY <1>17 DEF PostLedger, ConfirmGoes
<1>18. ASSUME NEW p \in Payments, CommitSettle(p) PROVE Booked'
  BY <1>18 DEF CommitSettle, ConfirmGoes, AppendEvent
<1>19. ASSUME NEW p \in Payments, NotifySettled(p) PROVE Booked'
  BY <1>19 DEF NotifySettled, ConfirmGoes
<1>20. ASSUME NEW p \in Payments, ConfirmFault(p) PROVE Booked'
  BY <1>20 DEF ConfirmFault, RetryConfirm
<1>21. ASSUME NEW p \in Payments, ForgetConfirmJob(p) PROVE Booked'
  BY <1>21 DEF ForgetConfirmJob, ConfirmGoes
<1>22. ASSUME NEW p \in Payments, SweepSelect(p) PROVE Booked'
  BY <1>22 DEF SweepSelect
<1>23. ASSUME NEW p \in Payments, SweepExpire(p) PROVE Booked'
  BY <1>23 DEF SweepExpire, Transition
<1>24. ASSUME NEW p \in Payments, SweepLog(p) PROVE Booked'
  BY <1>24 DEF SweepLog, AppendEvent
<1>25. ASSUME NEW p \in Payments, SweepFault(p) PROVE Booked'
  BY <1>25 DEF SweepFault
<1>26. ASSUME NEW r \in Refunders, RefundCommit(r) PROVE Booked'
  BY <1>26 DEF RefundCommit, Transition, AppendEvent
<1>27. ASSUME NEW x \in Txs, ChainMoves(x) PROVE Booked'
  BY <1>27 DEF ChainMoves
<1>28. ASSUME NEW t \in Transfers, NEW p \in Payments, MatchPayment(t, p) PROVE Booked'
  BY <1>28 DEF MatchPayment
<1>29. ASSUME NEW r \in Refunders, NEW p \in Payments, RefundRead(r, p) PROVE Booked'
  BY <1>29 DEF RefundRead, AssertTransition, VALID_TRANSITIONS
<1>30. CASE UNCHANGED vars
  BY <1>30 DEF vars
<1> QED
  BY <1>1, <1>2, <1>3, <1>4, <1>5, <1>6, <1>7, <1>8, <1>9, <1>10, <1>11,
     <1>12, <1>13, <1>14, <1>15, <1>16, <1>17, <1>18, <1>19, <1>20, <1>21,
     <1>22, <1>23, <1>24, <1>25, <1>26, <1>27, <1>28, <1>29, <1>30
  DEF Next, EventStep, ConfirmStep, SweepStep, RefundStep

\* Nobody sees a payment COMPLETED or REFUNDED that the ledger has not booked.
THEOREM CompletedArePosted == Spec => []CompletedIsPosted
<1>1. Init => Booked
  BY DEF Init, Booked, CompletedIsPosted
<1>2. Booked => CompletedIsPosted
  BY DEF Booked
<1> QED
  BY <1>1, <1>2, TypeInit, TypeStep, BookedStep, PTL DEF Spec
-----------------------------------------------------------------------------
(***************************************************************************)
(* The txHash column: detection alone writes it, and only with a hash no   *)
(* other payment has.                                                      *)
(***************************************************************************)

\* Nothing but the detection of a matched transfer changes a txHash.
LEMMA TxHashWriters ==
  [Next]_vars => UNCHANGED txHash \/ \E t \in Transfers : CommitDetected(t)
  BY DEF Next, EventStep, ConfirmStep, SweepStep, RefundStep, vars,
         DepositQueued, DiscardTransfer, FailUnderpaid, FindDetected,
         RefuseDetected, EnqueueConfirm, EventFault, PollStart, ReadChain,
         FailPayment, LogFailure, FindConfirming, CountConfirmations,
         ScheduleRecheck, BeginSettle, PostLedger, CommitSettle,
         NotifySettled, ConfirmFault, ForgetConfirmJob, SweepSelect,
         SweepExpire, SweepLog, SweepFault, RefundCommit, ChainMoves,
         MatchPayment, RefundRead

\* One transaction hash is on record for at most one payment.
THEOREM TxHashesAreUnique == Spec => []TxHashUnique
<1>1. Init => TxHashUnique
  BY DEF Init, TxHashUnique
<1>2. TypeInv /\ TxHashUnique /\ [Next]_vars => TxHashUnique'
  <2> SUFFICES ASSUME TypeInv, TxHashUnique, [Next]_vars PROVE TxHashUnique'
    OBVIOUS
  <2>1. CASE UNCHANGED txHash
    BY <2>1 DEF TxHashUnique
  <2>2. ASSUME NEW t \in Transfers, CommitDetected(t) PROVE TxHashUnique'
    BY <2>2 DEF TxHashUnique, CommitDetected, TxHashTaken, TypeInv, TypeOK
  <2> QED
    BY <2>1, <2>2, TxHashWriters
<1> QED
  BY <1>1, <1>2, TypeInit, TypeStep, PTL DEF Spec

\* A stored txHash is overwritten only by the detection of another transfer
\* that covers the payment.
THEOREM TxHashOnlyByDetection == Spec => TxHashChangesOnlyByDetection
<1> DEFINE Change ==
      \A p \in Payments :
        txHash'[p] # txHash[p] =>
          /\ status'[p] = "CONFIRMING"
          /\ \E t \in Transfers : evPayment[t] = p /\ TxOf[t] = txHash'[p] /\ Covers(t, p)
<1>1. TypeInv /\ Provenance /\ [Next]_vars => [Change]_vars
  <2> SUFFICES ASSUME TypeInv, Provenance, [Next]_vars PROVE Change
    OBVIOUS
  <2>1. CASE UNCHANGED txHash
    BY <2>1
  <2>2. ASSUME NEW t \in Transfers, CommitDetected(t) PROVE Change
    <3>1. /\ evPayment[t] \in Payments
          /\ Covers(t, evPayment[t])
      BY <2>2 DEF CommitDetected, TypeInv, EventJobs, EvActive, Provenance
    <3>2. /\ txHash' = [txHash EXCEPT ![evPayment[t]] = TxOf[t]]
          /\ status' = [status EXCEPT ![evPayment[t]] = "CONFIRMING"]
      BY <2>2 DEF CommitDetected, Transition
    <3> QED
      BY <3>1, <3>2 DEF TypeInv, TypeOK
  <2> QED
    BY <2>1, <2>2, TxHashWriters
<1>2. Init => Provenance
  BY DEF Init, Provenance, CreditBacked, CfActive
<1> QED
  BY <1>1, <1>2, TypeInit, TypeStep, ProvenanceStep, PTL DEF Spec, TxHashChangesOnlyByDetection
-----------------------------------------------------------------------------
(***************************************************************************)
(* The rail as the source has it: the lookup with '' as tenant id finds no *)
(* payment, so no transfer is detected, no poll gets past its first query  *)
(* and no refund finds anything to refund.                                 *)
(***************************************************************************)

Dormant ==
  /\ \A p \in Payments :
       /\ status[p] \in {"PENDING", "FAILED", "EXPIRED"}
       /\ txHash[p] = NoTx /\ posted[p] = 0 /\ outbox[p] = <<>>
       /\ cfPhase[p] \in CfIdle \cup {"waiting"}
  /\ \A t \in Transfers : evPhase[t] # "found"
  /\ \A r \in Refunders : refund[r] = NoPayment

LEMMA DormantStep ==
  ASSUME WorkerSees = {}, TypeInv, Dormant, [Next]_vars
  PROVE  Dormant'
<1> USE DEF TypeInv, TypeOK, EventJobs, ConfirmJobs, Dormant, CfIdle
<1>1. ASSUME NEW t \in Transfers, DepositQueued(t) PROVE Dormant'
  BY <1>1 DEF DepositQueued, EventGoes
<1>2. ASSUME NEW t \in Transfers, DiscardTransfer(t) PROVE Dormant'
  BY <1>2 DEF DiscardTransfer, EventGoes
<1>3. ASSUME NEW t \in Transfers, FailUnderpaid(t) PROVE Dormant'
  BY <1>3 DEF FailUnderpaid, EventGoes, Transition
<1>4. ASSUME NEW t \in Transfers, FindDetected(t) PROVE Dormant'
  BY <1>4 DEF FindDetected, EventGoes, WorkerFinds
<1>5. ASSUME NEW t \in Transfers, CommitDetected(t) PROVE Dormant'
  BY <1>5 DEF CommitDetected, EventGoes, Transition, AppendEvent
<1>6. ASSUME NEW t \in Transfers, RefuseDetected(t) PROVE Dormant'
  BY <1>6 DEF RefuseDetected, RetryEvent
<1>7. ASSUME NEW t \in Transfers, EnqueueConfirm(t) PROVE Dormant'
  <2>1. \A p \in Payments : cfPhase'[p] \in CfIdle \cup {"waiting"}
    <3>1. CASE cfPhase[evPayment[t]] = "none"
      <4>1. cfPhase' = [cfPhase EXCEPT ![evPayment[t]] = "waiting"]
        BY <1>7, <3>1 DEF EnqueueConfirm, AddConfirmJob
      <4>. QED  BY <4>1
    <3>2. CASE cfPhase[evPayment[t]] # "none"
      <4>1. cfPhase' = cfPhase
        BY <1>7, <3>2 DEF EnqueueConfirm, AddConfirmJob, confirmVars
      <4>. QED  BY <4>1
    <3>. QED  BY <3>1, <3>2
  <2>2. evPhase' = [evPhase EXCEPT ![t] = "completed"] /\ UNCHANGED <<tables, outbox, refund>>
    BY <1>7 DEF EnqueueConfirm, EventGoes, refundVars
  <2>. QED  BY <2>1, <2>2 DEF tables
<1>8. ASSUME NEW t \in Transfers, EventFault(t) PROVE Dormant'
  BY <1>8 DEF EventFault, RetryEvent, AddConfirmJob
<1>9. ASSUME NEW p \in Payments, PollStart(p) PROVE Dormant'
  BY <1>9 DEF PollStart, ConfirmGoes
<1>10. ASSUME NEW p \in Payments, ReadChain(p) PROVE Dormant'
  BY <1>10 DEF ReadChain, ConfirmGoes
<1>11. ASSUME NEW p \in Payments, FailPayment(p) PROVE Dormant'
  BY <1>11 DEF FailPayment, ConfirmGoes, Transition
<1>12. ASSUME NEW p \in Payments, LogFailure(p) PROVE Dormant'
  BY <1>12 DEF LogFailure, ConfirmGoes, AppendEvent
<1>13. ASSUME NEW p \in Payments, FindConfirming(p) PROVE Dormant'
  BY <1>13 DEF FindConfirming, ConfirmGoes
<1>14. ASSUME NEW p \in Payments, CountConfirmations(p) PROVE Dormant'
  BY <1>14 DEF CountConfirmations, ConfirmGoes, Transition
<1>15. ASSUME NEW p \in Payments, ScheduleRecheck(p) PROVE Dormant'
  BY <1>15 DEF ScheduleRecheck, ConfirmGoes
<1>16. ASSUME NEW p \in Payments, BeginSettle(p) PROVE Dormant'
  BY <1>16 DEF BeginSettle, ConfirmGoes
<1>17. ASSUME NEW p \in Payments, PostLedger(p) PROVE Dormant'
  BY <1>17 DEF PostLedger, ConfirmGoes
<1>18. ASSUME NEW p \in Payments, CommitSettle(p) PROVE Dormant'
  BY <1>18 DEF CommitSettle, ConfirmGoes, AppendEvent
<1>19. ASSUME NEW p \in Payments, NotifySettled(p) PROVE Dormant'
  BY <1>19 DEF NotifySettled, ConfirmGoes
<1>20. ASSUME NEW p \in Payments, ConfirmFault(p) PROVE Dormant'
  BY <1>20 DEF ConfirmFault, RetryConfirm
<1>21. ASSUME NEW p \in Payments, ForgetConfirmJob(p) PROVE Dormant'
  BY <1>21 DEF ForgetConfirmJob, ConfirmGoes
<1>22. ASSUME NEW p \in Payments, SweepSelect(p) PROVE Dormant'
  BY <1>22 DEF SweepSelect
<1>23. ASSUME NEW p \in Payments, SweepExpire(p) PROVE Dormant'
  BY <1>23 DEF SweepExpire, Transition
<1>24. ASSUME NEW p \in Payments, SweepLog(p) PROVE Dormant'
  BY <1>24 DEF SweepLog, AppendEvent
<1>25. ASSUME NEW p \in Payments, SweepFault(p) PROVE Dormant'
  BY <1>25 DEF SweepFault
<1>26. ASSUME NEW r \in Refunders, RefundCommit(r) PROVE Dormant'
  BY <1>26 DEF RefundCommit, Transition, AppendEvent
<1>27. ASSUME NEW x \in Txs, ChainMoves(x) PROVE Dormant'
  BY <1>27 DEF ChainMoves
<1>28. ASSUME NEW t \in Transfers, NEW p \in Payments, MatchPayment(t, p) PROVE Dormant'
  BY <1>28 DEF MatchPayment
<1>29. ASSUME NEW r \in Refunders, NEW p \in Payments, RefundRead(r, p) PROVE Dormant'
  BY <1>29 DEF RefundRead, AssertTransition, VALID_TRANSITIONS
<1>30. CASE UNCHANGED vars
  BY <1>30 DEF vars
<1> QED
  BY <1>1, <1>2, <1>3, <1>4, <1>5, <1>6, <1>7, <1>8, <1>9, <1>10, <1>11,
     <1>12, <1>13, <1>14, <1>15, <1>16, <1>17, <1>18, <1>19, <1>20, <1>21,
     <1>22, <1>23, <1>24, <1>25, <1>26, <1>27, <1>28, <1>29, <1>30
  DEF Next, EventStep, ConfirmStep, SweepStep, RefundStep

\* As the source has it, no payment is ever detected, booked or announced.
THEOREM SourceSettlesNothing == Spec => []NothingSettles
<1> DEFINE Inv == WorkerSees = {} => Dormant
<1>1. Init => Inv
  BY DEF Init, Dormant, CfIdle
<1>2. TypeInv /\ Inv /\ [Next]_vars => Inv'
  BY DormantStep
<1>3. Inv => NothingSettles
  BY DEF Dormant, NothingSettles
<1> QED
  BY <1>1, <1>2, <1>3, TypeInit, TypeStep, PTL DEF Spec
-----------------------------------------------------------------------------
(***************************************************************************)
(* When the status machine is kept. Updates are by id, so what a writer    *)
(* has read of the status may be stale when it writes, and the run         *)
(* "transitions" finds it so. Without expiry sweeps, and with one transfer *)
(* to each address, nobody can come between: the status that each writer   *)
(* has read is still there.                                                *)
(***************************************************************************)

Uncontended ==
  /\ ~Sweeps
  /\ \A t, u \in Transfers : ToAddress[t] = ToAddress[u] => t = u

\* What a worker or a refund has read of the payment it is about to write.
StatusIsAsRead ==
  /\ \A t \in Transfers : evPhase[t] \in {"matched", "underpaid", "found"} =>
       ToAddress[t] = AddressOf[evPayment[t]] /\ status[evPayment[t]] = "PENDING"
  /\ \A p \in Payments :
       /\ cfPhase[p] \in {"polling", "failing", "shallow", "counting", "deep", "settling",
                          "locked", "posted"} => status[p] = "CONFIRMING"
       /\ sweep[p] = "idle"
  /\ \A r \in Refunders :
       refund[r] # NoPayment => status[refund[r]] \in {"COMPLETED", "REFUNDED"}

ValidChanges == \A p \in Payments : AssertTransition(status[p], status'[p])

LEMMA UncontendedStep ==
  ASSUME Uncontended, TypeInv, StatusIsAsRead, [Next]_vars
  PROVE  StatusIsAsRead' /\ ValidChanges
<1> DEFINE Goal == StatusIsAsRead' /\ ValidChanges
<1> USE DEF TypeInv, EventJobs, ConfirmJobs, EvIdle, EvActive, CfIdle, CfActive, StatusIsAsRead,
        Uncontended, ValidChanges, AssertTransition
<1>a. status \in [Payments -> PaymentStatus] /\ refund \in [Refunders -> Payments \cup {NoPayment}]
  BY DEF TypeOK
\* Whoever else has a payment in hand that a worker has found PENDING is that worker.
<1>b. \A t, u \in Transfers :
        /\ evPhase[t] \in {"matched", "underpaid", "found"}
        /\ evPhase[u] \in {"matched", "underpaid", "found"}
        /\ evPayment[t] = evPayment[u]
        => t = u
  OBVIOUS
<1>1. ASSUME NEW t \in Transfers, DepositQueued(t) PROVE Goal
  BY <1>1, <1>a, <1>b, RailAssumption DEF DepositQueued, EventGoes
<1>2. ASSUME NEW t \in Transfers, DiscardTransfer(t) PROVE Goal
  BY <1>2, <1>a, <1>b, RailAssumption DEF DiscardTransfer, EventGoes
<1>3. ASSUME NEW t \in Transfers, FailUnderpaid(t) PROVE Goal
  BY <1>3, <1>a, <1>b, RailAssumption DEF FailUnderpaid, EventGoes, Transition, VALID_TRANSITIONS
<1>4. ASSUME NEW t \in Transfers, FindDetected(t) PROVE Goal
  BY <1>4, <1>a, <1>b, RailAssumption DEF FindDetected, EventGoes
<1>5. ASSUME NEW t \in Transfers, CommitDetected(t) PROVE Goal
  BY <1>5, <1>a, <1>b, RailAssumption DEF CommitDetected, EventGoes, Transition, VALID_TRANSITIONS
<1>6. ASSUME NEW t \in Transfers, RefuseDetected(t) PROVE Goal
  BY <1>6, <1>a, <1>b, RailAssumption DEF RefuseDetected, RetryEvent
<1>7. ASSUME NEW t \in Transfers, EnqueueConfirm(t) PROVE Goal
  BY <1>7, <1>a, <1>b, RailAssumption DEF EnqueueConfirm, EventGoes, AddConfirmJob
<1>8. ASSUME NEW t \in Transfers, EventFault(t) PROVE Goal
  BY <1>8, <1>a, <1>b, RailAssumption DEF EventFault, RetryEvent, AddConfirmJob
<1>9. ASSUME NEW p \in Payments, PollStart(p) PROVE Goal
  BY <1>9, <1>a, <1>b, RailAssumption DEF PollStart, ConfirmGoes
<1>10. ASSUME NEW p \in Payments, ReadChain(p) PROVE Goal
  BY <1>10, <1>a, <1>b, RailAssumption DEF ReadChain, ConfirmGoes
<1>11. ASSUME NEW p \in Payments, FailPayment(p) PROVE Goal
  BY <1>11, <1>a, <1>b, RailAssumption DEF FailPayment, ConfirmGoes, Transition, VALID_TRANSITIONS
<1>12. ASSUME NEW p \in Payments, LogFailure(p) PROVE Goal
  BY <1>12, <1>a, <1>b, RailAssumption DEF LogFailure, ConfirmGoes
<1>13. ASSUME NEW p \in Payments, FindConfirming(p) PROVE Goal
  BY <1>13, <1>a, <1>b, RailAssumption DEF FindConfirming, ConfirmGoes
<1>14. ASSUME NEW p \in Payments, CountConfirmations(p) PROVE Goal
  BY <1>14, <1>a, <1>b, RailAssumption DEF CountConfirmations, ConfirmGoes, Transition
<1>15. ASSUME NEW p \in Payments, ScheduleRecheck(p) PROVE Goal
  BY <1>15, <1>a, <1>b, RailAssumption DEF ScheduleRecheck, ConfirmGoes
<1>16. ASSUME NEW p \in Payments, BeginSettle(p) PROVE Goal
  BY <1>16, <1>a, <1>b, RailAssumption DEF BeginSettle, ConfirmGoes
<1>17. ASSUME NEW p \in Payments, PostLedger(p) PROVE Goal
  BY <1>17, <1>a, <1>b, RailAssumption DEF PostLedger, ConfirmGoes
<1>18. ASSUME NEW p \in Payments, CommitSettle(p) PROVE Goal
  BY <1>18, <1>a, <1>b, RailAssumption DEF CommitSettle, ConfirmGoes, VALID_TRANSITIONS
<1>19. ASSUME NEW p \in Payments, NotifySettled(p) PROVE Goal
  BY <1>19, <1>a, <1>b, RailAssumption DEF NotifySettled, ConfirmGoes
<1>20. ASSUME NEW p \in Payments, ConfirmFault(p) PROVE Goal
  BY <1>20, <1>a, <1>b, RailAssumption DEF ConfirmFault, RetryConfirm
<1>21. ASSUME NEW p \in Payments, ForgetConfirmJob(p) PROVE Goal
  BY <1>21, <1>a, <1>b, RailAssumption DEF ForgetConfirmJob, ConfirmGoes
<1>22. ASSUME NEW p \in Payments, SweepStep(p) PROVE Goal
  BY <1>22, <1>a, <1>b, RailAssumption DEF SweepStep, SweepSelect, SweepExpire, SweepLog, SweepFault
<1>23. ASSUME NEW r \in Refunders, RefundCommit(r) PROVE Goal
  BY <1>23, <1>a, <1>b, RailAssumption DEF RefundCommit, Transition, VALID_TRANSITIONS
<1>24. ASSUME NEW x \in Txs, ChainMoves(x) PROVE Goal
  BY <1>24, <1>a, <1>b, RailAssumption DEF ChainMoves
<1>25. ASSUME NEW t \in Transfers, NEW p \in Payments, MatchPayment(t, p) PROVE Goal
  BY <1>25, <1>a, <1>b, RailAssumption DEF MatchPayment
<1>26. ASSUME NEW r \in Refunders, NEW p \in Payments, RefundRead(r, p) PROVE Goal
  BY <1>26, <1>a, <1>b, RailAssumption DEF RefundRead, VALID_TRANSITIONS
<1>27. CASE UNCHANGED vars
  BY <1>27 DEF vars
<1> QED
  BY <1>1, <1>2, <1>3, <1>4, <1>5, <1>6, <1>7, <1>8, <1>9, <1>10, <1>11, <1>12,
     <1>13, <1>14, <1>15, <1>16, <1>17, <1>18, <1>19, <1>20, <1>21, <1>22, <1>23, <1>24,
     <1>25, <1>26, <1>27
  DEF Next, EventStep, ConfirmStep, RefundStep

\* Every change of a status is one that the status machine allows, when no sweep
\* expires payments and no address gets a second transfer.
THEOREM UncontendedIsValid == Uncontended => (Spec => OnlyValidTransitions)
<1> SUFFICES ASSUME Uncontended PROVE Spec => OnlyValidTransitions
  OBVIOUS
<1>1. Init => StatusIsAsRead
  BY DEF Init, StatusIsAsRead
<1>2. TypeInv /\ StatusIsAsRead /\ [Next]_vars => StatusIsAsRead' /\ [ValidChanges]_vars
  BY UncontendedStep
<1> QED
  BY <1>1, <1>2, TypeInit, TypeStep, PTL DEF Spec, OnlyValidTransitions, ValidChanges
=============================================================================
