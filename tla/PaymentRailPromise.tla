-------------------------- MODULE PaymentRailPromise --------------------------
(***************************************************************************)
(* Theorems about the record the rail leaves: its events and webhooks agree *)
(* with the books, and it implements SettlementPromise.                    *)
(***************************************************************************)
EXTENDS PaymentRailProofs, FiniteSetTheorems

USE DEF tables, eventVars, confirmVars, refundVars

LEMMA CountType ==
  ASSUME NEW S, NEW s \in Seq(S), NEW e
  PROVE  /\ IsFiniteSet({i \in DOMAIN s : s[i] = e})
         /\ Count(s, e) \in Nat
<1>1. IsFiniteSet(1 .. Len(s)) /\ {i \in DOMAIN s : s[i] = e} \in SUBSET (1 .. Len(s))
  BY FS_Interval
<1> QED
  BY <1>1, FS_Subset, FS_CardinalityType DEF Count

LEMMA CountAppend ==
  ASSUME NEW S, NEW s \in Seq(S), NEW x \in S, NEW e
  PROVE  Count(Append(s, x), e) = Count(s, e) + (IF x = e THEN 1 ELSE 0)
<1> DEFINE at == {i \in DOMAIN s : s[i] = e}
           next == {i \in DOMAIN Append(s, x) : Append(s, x)[i] = e}
           n == Len(s) + 1
<1>1. /\ DOMAIN s = 1 .. Len(s) /\ DOMAIN Append(s, x) = (1 .. Len(s)) \cup {n}
      /\ Append(s, x)[n] = x /\ \A i \in 1 .. Len(s) : Append(s, x)[i] = s[i]
  OBVIOUS
<1>0. IsFiniteSet(at) /\ Count(s, e) \in Nat
  BY CountType
<1>2. Count(s, e) = Cardinality(at) /\ Count(Append(s, x), e) = Cardinality(next)
  BY DEF Count
<1>3. CASE x = e
  <2>1. next = at \cup {n}
    BY <1>1, <1>3
  <2>2. IsFiniteSet(at) /\ n \notin at
    BY <1>0, <1>1
  <2>3. Cardinality(at \cup {n}) = Cardinality(at) + 1
    BY <2>2, FS_AddElement
  <2> QED
    BY <1>2, <1>3, <2>1, <2>3
<1>4. CASE x # e
  <2>1. next = at
    BY <1>1, <1>4
  <2>2. Count(Append(s, x), e) = Count(s, e)
    BY <1>2, <2>1
  <2> QED
    BY <1>0, <1>4, <2>2
<1> QED
  BY <1>3, <1>4

LEMMA CountEmpty == ASSUME NEW e PROVE Count(<<>>, e) = 0
<1>1. {i \in DOMAIN <<>> : <<>>[i] = e} = {}
  OBVIOUS
<1> QED
  BY <1>1, FS_EmptySet DEF Count

\* What one more event does to the record.
LEMMA LoggedAppend ==
  ASSUME TypeInv, NEW p \in Payments, NEW from \in PaymentStatus, NEW to \in PaymentStatus,
         AppendEvent(p, from, to), NEW q \in Payments, NEW f, NEW g
  PROVE  Logged(q, f, g)' = Logged(q, f, g) + (IF q = p /\ f = from /\ g = to THEN 1 ELSE 0)
<1>0. trail[q] \in Seq(PaymentStatus \X PaymentStatus) /\ Count(trail[q], <<f, g>>) \in Nat
  <2>1. trail \in [Payments -> Seq(PaymentStatus \X PaymentStatus)]
    BY DEF TypeInv, TypeOK
  <2>2. trail[q] \in Seq(PaymentStatus \X PaymentStatus)
    BY <2>1
  <2> QED
    BY <2>2, CountType
<1>1. CASE q = p
  <2>1. trail'[q] = Append(trail[q], <<from, to>>)
    BY <1>1 DEF AppendEvent, TypeInv, TypeOK
  <2>2. Count(trail'[q], <<f, g>>)
          = Count(trail[q], <<f, g>>) + (IF <<from, to>> = <<f, g>> THEN 1 ELSE 0)
    <3> DEFINE Events == PaymentStatus \X PaymentStatus
               s == trail[q]
               x == <<from, to>>
               e == <<f, g>>
    <3>1. s \in Seq(Events) /\ x \in Events
      BY <1>0
    <3> HIDE DEF Events, s, x, e
    <3>2. Count(Append(s, x), e) = Count(s, e) + (IF x = e THEN 1 ELSE 0)
      BY <3>1, CountAppend
    <3> QED
      BY <2>1, <3>2 DEF s, x, e
  <2> QED
    BY <1>1, <2>2 DEF Logged
<1>2. CASE q # p
  BY <1>0, <1>2 DEF AppendEvent, Logged, TypeInv, TypeOK
<1> QED
  BY <1>1, <1>2

LEMMA LoggedType ==
  ASSUME TypeInv, NEW q \in Payments, NEW f, NEW g
  PROVE  Logged(q, f, g) \in Nat
<1>1. trail[q] \in Seq(PaymentStatus \X PaymentStatus)
  BY DEF TypeInv, TypeOK
<1> QED
  BY <1>1, CountType DEF Logged
-----------------------------------------------------------------------------
(***************************************************************************)
(* The record follows the books: a settlement is logged at most once per   *)
(* booking and announced at most once per log entry, whoever found the     *)
(* payment settled finds its event, and a payment that may be settled has a *)
(* detection that was not settled yet.                                     *)
(***************************************************************************)

\* A payment in CONFIRMING, or one whose job found it so and has not ended it.
MaySettle(p) ==
  status[p] = "CONFIRMING" \/ cfPhase[p] \in {"counting", "settling", "locked", "posted"}

Recorded ==
  /\ \A p \in Payments :
       /\ Logged(p, "CONFIRMING", "COMPLETED")
            + (IF cfPhase[p] = "posted" THEN 1 ELSE 0) <= posted[p]
       /\ Announced(p, "PAYMENT_COMPLETED")
            + (IF cfPhase[p] = "notify" THEN 1 ELSE 0) <= Logged(p, "CONFIRMING", "COMPLETED")
       /\ status[p] \in {"COMPLETED", "REFUNDED"} => Logged(p, "CONFIRMING", "COMPLETED") > 0
       /\ Logged(p, "CONFIRMING", "COMPLETED")
            + (IF MaySettle(p) THEN 1 ELSE 0) <= Logged(p, "PENDING", "CONFIRMING")
  /\ \A r \in Refunders :
       refund[r] # NoPayment => Logged(refund[r], "CONFIRMING", "COMPLETED") > 0
  /\ DetectionLogged

LEMMA AnnouncedType ==
  ASSUME TypeInv, NEW p \in Payments, NEW w
  PROVE  Announced(p, w) \in Nat
<1>1. outbox[p] \in Seq(Webhooks)
  BY DEF TypeInv, TypeOK
<1> QED
  BY <1>1, CountType DEF Announced

LEMMA AnnouncedAppend ==
  ASSUME TypeInv, NEW p \in Payments, NEW w \in Webhooks,
         outbox' = [outbox EXCEPT ![p] = Append(@, w)] \/ UNCHANGED outbox, NEW q \in Payments
  PROVE  /\ Announced(q, "PAYMENT_COMPLETED")' \in Nat
         /\ Announced(q, "PAYMENT_COMPLETED")'
              <= Announced(q, "PAYMENT_COMPLETED")
                   + (IF q = p /\ w = "PAYMENT_COMPLETED" THEN 1 ELSE 0)
<1>0. outbox \in [Payments -> Seq(Webhooks)] /\ Announced(q, "PAYMENT_COMPLETED") \in Nat
  BY AnnouncedType DEF TypeInv, TypeOK
<1>1. CASE outbox' = [outbox EXCEPT ![p] = Append(@, w)] /\ q = p
  <2>1. outbox'[q] = Append(outbox[q], w) /\ outbox[q] \in Seq(Webhooks)
    BY <1>0, <1>1
  <2>2. Count(outbox'[q], "PAYMENT_COMPLETED")
          = Count(outbox[q], "PAYMENT_COMPLETED") + (IF w = "PAYMENT_COMPLETED" THEN 1 ELSE 0)
    BY <2>1, CountAppend
  <2> QED
    BY <1>0, <1>1, <2>2 DEF Announced
<1>2. CASE UNCHANGED outbox \/ q # p
  <2>1. outbox'[q] = outbox[q]
    BY <1>0, <1>2
  <2> QED
    BY <1>0, <2>1 DEF Announced
<1> QED
  BY <1>1, <1>2

LEMMA RecordedInit == Init => Recorded
<1> SUFFICES ASSUME Init PROVE Recorded
  OBVIOUS
<1>1. \A p \in Payments : \A f, g : Logged(p, f, g) = 0
  BY CountEmpty DEF Init, Logged
<1>2. \A p \in Payments : \A w : Announced(p, w) = 0
  BY CountEmpty DEF Init, Announced
<1> QED
  BY <1>1, <1>2 DEF Init, Recorded, DetectionLogged, MaySettle

\* A step that writes no event, webhook, txHash or refund, makes no payment
\* settled or one that may be, and takes a job into "posted" only with one more
\* booking.
Quiet ==
  /\ UNCHANGED <<txHash, trail, outbox, refund>>
  /\ \A p \in Payments :
       /\ status'[p] \in {"COMPLETED", "REFUNDED"} => status'[p] = status[p]
       /\ \/ posted'[p] = posted[p] /\ (cfPhase'[p] = "posted" => cfPhase[p] = "posted")
          \/ posted'[p] = posted[p] + 1
       /\ cfPhase'[p] = "notify" => cfPhase[p] = "notify"
       /\ MaySettle(p)' => MaySettle(p)

LEMMA RecordedQuiet == ASSUME TypeInv, Recorded, Quiet PROVE Recorded'
<1>1. \A p \in Payments : \A f, g : Logged(p, f, g)' = Logged(p, f, g) /\ Logged(p, f, g) \in Nat
  BY LoggedType DEF Logged, Quiet
<1>2. \A p \in Payments : \A w : Announced(p, w)' = Announced(p, w) /\ Announced(p, w) \in Nat
  BY AnnouncedType DEF Announced, Quiet
<1>3. posted \in [Payments -> Nat] /\ refund \in [Refunders -> Payments \cup {NoPayment}]
  BY DEF TypeInv, TypeOK
<1> QED
  BY <1>1, <1>2, <1>3 DEF Recorded, DetectionLogged, Quiet

LEMMA RecordedStep == TypeInv /\ Recorded /\ [Next]_vars => Recorded'
<1> SUFFICES ASSUME TypeInv, Recorded, [Next]_vars PROVE Recorded'
  OBVIOUS
<1>a. Quiet => Recorded'
  BY RecordedQuiet
<1>b. /\ status \in [Payments -> PaymentStatus] /\ posted \in [Payments -> Nat]
      /\ txHash \in [Payments -> Txs \cup {NoTx}] /\ NoTx \notin Txs
      /\ cfPhase \in [Payments -> CfIdle \cup CfActive]
      /\ refund \in [Refunders -> Payments \cup {NoPayment}]
  BY RailAssumption DEF TypeInv, TypeOK
<1>c. TypeInv /\ UNCHANGED trail => \A p \in Payments : \A f, g : Logged(p, f, g)' = Logged(p, f, g)
  BY DEF Logged
<1>d. UNCHANGED outbox => \A p \in Payments : \A w : Announced(p, w)' = Announced(p, w)
  BY DEF Announced
<1>e. /\ \A p \in Payments : \A f, g : Logged(p, f, g) \in Nat
      /\ \A p \in Payments : \A w : Announced(p, w) \in Nat
  BY LoggedType, AnnouncedType
<1>1. ASSUME NEW t \in Transfers, DepositQueued(t) PROVE Recorded'
  <2>1. Quiet
    BY <1>1, <1>b DEF Quiet, MaySettle, DepositQueued, EventGoes
  <2> QED
    BY <2>1, <1>a
<1>2. ASSUME NEW t \in Transfers, DiscardTransfer(t) PROVE Recorded'
  <2>1. Quiet
    BY <1>2, <1>b DEF Quiet, MaySettle, DiscardTransfer, EventGoes
  <2> QED
    BY <2>1, <1>a
<1>3. ASSUME NEW t \in Transfers, FailUnderpaid(t) PROVE Recorded'
  <2>1. Quiet
    BY <1>3, <1>b DEF Quiet, MaySettle, FailUnderpaid, EventGoes, Transition
  <2> QED
    BY <2>1, <1>a
<1>4. ASSUME NEW t \in Transfers, FindDetected(t) PROVE Recorded'
  <2>1. Quiet
    BY <1>4, <1>b DEF Quiet, MaySettle, FindDetected, EventGoes
  <2> QED
    BY <2>1, <1>a
<1>5. ASSUME NEW t \in Transfers, CommitDetected(t) PROVE Recorded'
  <2> DEFINE p == evPayment[t]
  <2>1. p \in Payments /\ TxOf[t] \in Txs
    BY <1>5, RailAssumption DEF CommitDetected, TypeInv, EventJobs, EvActive
  <2>2. \A q \in Payments : \A f, g :
          Logged(q, f, g)' = Logged(q, f, g)
            + (IF q = p /\ f = "PENDING" /\ g = "CONFIRMING" THEN 1 ELSE 0)
    BY <1>5, <2>1, LoggedAppend DEF CommitDetected, PaymentStatus
  <2>3. /\ txHash' = [txHash EXCEPT ![p] = TxOf[t]]
        /\ status' = [status EXCEPT ![p] = "CONFIRMING"]
        /\ UNCHANGED <<posted, outbox, refund, cfPhase>>
    BY <1>5 DEF CommitDetected, Transition
  <2> QED
    BY <1>b, <1>d, <1>e, <2>1, <2>2, <2>3 DEF Recorded, DetectionLogged, MaySettle
<1>6. ASSUME NEW t \in Transfers, RefuseDetected(t) PROVE Recorded'
  <2>1. Quiet
    BY <1>6, <1>b DEF Quiet, MaySettle, RefuseDetected, RetryEvent
  <2> QED
    BY <2>1, <1>a
<1>7. ASSUME NEW t \in Transfers, EnqueueConfirm(t) PROVE Recorded'
  <2>1. Quiet
    BY <1>7, <1>b DEF Quiet, MaySettle, EnqueueConfirm, EventGoes, AddConfirmJob
  <2> QED
    BY <2>1, <1>a
<1>8. ASSUME NEW t \in Transfers, EventFault(t) PROVE Recorded'
  <2>1. Quiet
    BY <1>8, <1>b DEF Quiet, MaySettle, EventFault, RetryEvent, AddConfirmJob
  <2> QED
    BY <2>1, <1>a
<1>9. ASSUME NEW p \in Payments, PollStart(p) PROVE Recorded'
  <2>1. Quiet
    BY <1>9, <1>b DEF Quiet, MaySettle, PollStart, ConfirmGoes
  <2> QED
    BY <2>1, <1>a
<1>10. ASSUME NEW p \in Payments, ReadChain(p) PROVE Recorded'
  <2>1. cfPhase[p] = "polling" /\ chain[cfTx[p]] \in ChainState
    BY <1>10 DEF ReadChain, TypeInv, TypeOK, ConfirmJobs, CfActive
  <2>2. cfPhase'[p] \notin {"counting", "settling", "locked", "posted", "notify"}
    BY <1>10, <1>b, <2>1 DEF ReadChain, ConfirmGoes, ChainState
  <2>3. Quiet
    BY <1>10, <1>b, <2>2 DEF Quiet, MaySettle, ReadChain, ConfirmGoes
  <2> QED
    BY <2>3, <1>a
<1>11. ASSUME NEW p \in Payments, FailPayment(p) PROVE Recorded'
  <2>1. Quiet
    BY <1>11, <1>b DEF Quiet, MaySettle, FailPayment, ConfirmGoes, Transition
  <2> QED
    BY <2>1, <1>a
<1>12. ASSUME NEW p \in Payments, LogFailure(p) PROVE Recorded'
  <2>1. \A q \in Payments : \A f, g : <<f, g>> # <<"CONFIRMING", "FAILED">> =>
          Logged(q, f, g)' = Logged(q, f, g)
    BY <1>12, <1>e, LoggedAppend DEF LogFailure, PaymentStatus
  <2>2. /\ UNCHANGED <<status, txHash, posted, outbox, refund>>
        /\ cfPhase' = [cfPhase EXCEPT ![p] = "completed"]
    BY <1>12 DEF LogFailure, ConfirmGoes
  <2> QED
    BY <1>b, <1>d, <1>e, <2>1, <2>2 DEF Recorded, DetectionLogged, MaySettle
<1>13. ASSUME NEW p \in Payments, FindConfirming(p) PROVE Recorded'
  <2>1. Quiet
    BY <1>13, <1>b DEF Quiet, MaySettle, FindConfirming, ConfirmGoes
  <2> QED
    BY <2>1, <1>a
<1>14. ASSUME NEW p \in Payments, CountConfirmations(p) PROVE Recorded'
  <2>1. Quiet
    BY <1>14, <1>b DEF Quiet, MaySettle, CountConfirmations, ConfirmGoes, Transition
  <2> QED
    BY <2>1, <1>a
<1>15. ASSUME NEW p \in Payments, ScheduleRecheck(p) PROVE Recorded'
  <2>1. Quiet
    BY <1>15, <1>b DEF Quiet, MaySettle, ScheduleRecheck, ConfirmGoes
  <2> QED
    BY <2>1, <1>a
<1>16. ASSUME NEW p \in Payments, BeginSettle(p) PROVE Recorded'
  <2>1. Quiet
    BY <1>16, <1>b DEF Quiet, MaySettle, BeginSettle, ConfirmGoes
  <2> QED
    BY <2>1, <1>a
<1>17. ASSUME NEW p \in Payments, PostLedger(p) PROVE Recorded'
  <2>1. Quiet
    BY <1>17, <1>b DEF Quiet, MaySettle, PostLedger, ConfirmGoes
  <2> QED
    BY <2>1, <1>a
<1>18. ASSUME NEW p \in Payments, CommitSettle(p) PROVE Recorded'
  <2>1. \A q \in Payments : \A f, g :
          Logged(q, f, g)' = Logged(q, f, g)
            + (IF q = p /\ f = "CONFIRMING" /\ g = "COMPLETED" THEN 1 ELSE 0)
    BY <1>18, LoggedAppend DEF CommitSettle, PaymentStatus
  <2>2. /\ cfPhase[p] = "posted" /\ cfPhase' = [cfPhase EXCEPT ![p] = "notify"]
        /\ status' = [status EXCEPT ![p] = "COMPLETED"]
        /\ UNCHANGED <<txHash, posted, outbox, refund>>
    BY <1>18 DEF CommitSettle, ConfirmGoes
  <2> QED
    BY <1>b, <1>d, <1>e, <2>1, <2>2 DEF Recorded, DetectionLogged, MaySettle
<1>19. ASSUME NEW p \in Payments, NotifySettled(p) PROVE Recorded'
  <2>1. \A q \in Payments :
          /\ Announced(q, "PAYMENT_COMPLETED")' \in Nat
          /\ Announced(q, "PAYMENT_COMPLETED")'
               <= Announced(q, "PAYMENT_COMPLETED") + (IF q = p THEN 1 ELSE 0)
    BY <1>19, <1>e, AnnouncedAppend, "PAYMENT_COMPLETED" \in Webhooks DEF NotifySettled, Webhooks
  <2>2. /\ cfPhase[p] = "notify" /\ cfPhase' = [cfPhase EXCEPT ![p] = "completed"]
        /\ UNCHANGED <<status, txHash, trail, posted, refund>>
    BY <1>19 DEF NotifySettled, ConfirmGoes
  <2> QED
    BY <1>b, <1>c, <1>e, <2>1, <2>2 DEF Recorded, DetectionLogged, MaySettle
<1>20. ASSUME NEW p \in Payments, ConfirmFault(p) PROVE Recorded'
  <2>1. Quiet
    BY <1>20, <1>b DEF Quiet, MaySettle, ConfirmFault, RetryConfirm
  <2> QED
    BY <2>1, <1>a
<1>21. ASSUME NEW p \in Payments, ForgetConfirmJob(p) PROVE Recorded'
  <2>1. Quiet
    BY <1>21, <1>b DEF Quiet, MaySettle, ForgetConfirmJob, ConfirmGoes
  <2> QED
    BY <2>1, <1>a
<1>22. ASSUME NEW p \in Payments, SweepSelect(p) PROVE Recorded'
  <2>1. Quiet
    BY <1>22, <1>b DEF Quiet, MaySettle, SweepSelect
  <2> QED
    BY <2>1, <1>a
<1>23. ASSUME NEW p \in Payments, SweepExpire(p) PROVE Recorded'
  <2>1. Quiet
    BY <1>23, <1>b DEF Quiet, MaySettle, SweepExpire, Transition
  <2> QED
    BY <2>1, <1>a
<1>24. ASSUME NEW p \in Payments, SweepLog(p) PROVE Recorded'
  <2>1. \A q \in Payments : \A f, g : <<f, g>> # <<"PENDING", "EXPIRED">> =>
          Logged(q, f, g)' = Logged(q, f, g)
    BY <1>24, <1>e, LoggedAppend DEF SweepLog, PaymentStatus
  <2>2. UNCHANGED <<status, txHash, posted, outbox, refund, cfPhase>>
    BY <1>24 DEF SweepLog
  <2> QED
    BY <1>b, <1>d, <1>e, <2>1, <2>2 DEF Recorded, DetectionLogged, MaySettle
<1>25. ASSUME NEW p \in Payments, SweepFault(p) PROVE Recorded'
  <2>1. Quiet
    BY <1>25, <1>b DEF Quiet, MaySettle, SweepFault
  <2> QED
    BY <2>1, <1>a
<1>26. ASSUME NEW r \in Refunders, RefundCommit(r) PROVE Recorded'
  <2> DEFINE p == refund[r]
  <2>1. p \in Payments
    BY <1>26, <1>b DEF RefundCommit
  <2>2. \A q \in Payments : \A f, g : <<f, g>> # <<"COMPLETED", "REFUNDED">> =>
          Logged(q, f, g)' = Logged(q, f, g)
    BY <1>26, <1>e, <2>1, LoggedAppend DEF RefundCommit, PaymentStatus
  <2>3. \A q \in Payments :
          /\ Announced(q, "PAYMENT_COMPLETED")' \in Nat
          /\ Announced(q, "PAYMENT_COMPLETED")' <= Announced(q, "PAYMENT_COMPLETED")
    BY <1>26, <1>e, <2>1, AnnouncedAppend, "PAYMENT_REFUNDED" \in Webhooks
    DEF RefundCommit, Webhooks
  <2>4. /\ status' = [status EXCEPT ![p] = "REFUNDED"]
        /\ refund' = [refund EXCEPT ![r] = NoPayment]
        /\ UNCHANGED <<txHash, posted, cfPhase>>
    BY <1>26 DEF RefundCommit, Transition
  <2>5. \A q \in Payments :
          /\ Logged(q, "CONFIRMING", "COMPLETED")' = Logged(q, "CONFIRMING", "COMPLETED")
          /\ Logged(q, "PENDING", "CONFIRMING")' = Logged(q, "PENDING", "CONFIRMING")
    BY <2>2
  <2>6. Logged(p, "CONFIRMING", "COMPLETED") > 0
    BY <1>26, <1>b DEF RefundCommit, Recorded
  <2> QED
    BY <1>b, <1>e, <2>1, <2>3, <2>4, <2>5, <2>6 DEF Recorded, DetectionLogged, MaySettle
<1>27. ASSUME NEW x \in Txs, ChainMoves(x) PROVE Recorded'
  <2>1. Quiet
    BY <1>27, <1>b DEF Quiet, MaySettle, ChainMoves
  <2> QED
    BY <2>1, <1>a
<1>28. ASSUME NEW t \in Transfers, NEW p \in Payments, MatchPayment(t, p) PROVE Recorded'
  <2>1. Quiet
    BY <1>28, <1>b DEF Quiet, MaySettle, MatchPayment
  <2> QED
    BY <2>1, <1>a
<1>29. ASSUME NEW r \in Refunders, NEW p \in Payments, RefundRead(r, p) PROVE Recorded'
  <2>1. status[p] \in {"COMPLETED", "REFUNDED"}
    BY <1>29, <1>b DEF RefundRead, AssertTransition, VALID_TRANSITIONS, PaymentStatus
  <2>2. /\ refund' = [refund EXCEPT ![r] = p]
        /\ UNCHANGED <<status, txHash, trail, posted, outbox, cfPhase>>
    BY <1>29 DEF RefundRead
  <2> QED
    BY <1>b, <1>c, <1>d, <1>e, <2>1, <2>2 DEF Recorded, DetectionLogged, MaySettle
<1>30. CASE UNCHANGED vars
  BY <1>30, <1>a, <1>b DEF vars, Quiet, MaySettle
<1> QED
  BY <1>1, <1>2, <1>3, <1>4, <1>5, <1>6, <1>7, <1>8, <1>9, <1>10, <1>11,
     <1>12, <1>13, <1>14, <1>15, <1>16, <1>17, <1>18, <1>19, <1>20, <1>21,
     <1>22, <1>23, <1>24, <1>25, <1>26, <1>27, <1>28, <1>29, <1>30
  DEF Next, EventStep, ConfirmStep, SweepStep, RefundStep

\* Every recorded settlement was booked, every announced one recorded, and there is
\* a detection for each.
THEOREM SettlementsAreBooked == Spec => []SettlementsBooked
<1>1. TypeInv /\ Recorded => SettlementsBooked
  <2> SUFFICES ASSUME TypeInv, Recorded, NEW p \in Payments
               PROVE  /\ Logged(p, "CONFIRMING", "COMPLETED") <= posted[p]
                      /\ Logged(p, "CONFIRMING", "COMPLETED") <= Logged(p, "PENDING", "CONFIRMING")
                      /\ Announced(p, "PAYMENT_COMPLETED") <= Logged(p, "CONFIRMING", "COMPLETED")
    BY DEF SettlementsBooked
  <2>1. posted[p] \in Nat
    BY DEF TypeInv, TypeOK
  <2>2. /\ Logged(p, "CONFIRMING", "COMPLETED") \in Nat /\ Logged(p, "PENDING", "CONFIRMING") \in Nat
        /\ Announced(p, "PAYMENT_COMPLETED") \in Nat
    BY LoggedType, AnnouncedType
  <2> QED
    BY <2>1, <2>2 DEF Recorded
<1> QED
  BY <1>1, TypeInit, TypeStep, RecordedInit, RecordedStep, PTL DEF Spec

\* A payment that shows a txHash has the event of its detection, and no other does.
THEOREM DetectionsAreLogged == Spec => []DetectionLogged
<1>1. Recorded => DetectionLogged
  BY DEF Recorded
<1> QED
  BY <1>1, TypeInit, TypeStep, RecordedInit, RecordedStep, PTL DEF Spec
-----------------------------------------------------------------------------
(***************************************************************************)
(* How often a payment is detected: whoever is about to commit a detection *)
(* has found the payment PENDING, and with the first detection it is so no  *)
(* more. Until then there was none, and after it only those can follow that *)
(* had found it before, each of them once.                                 *)
(***************************************************************************)

Detections(p) == Logged(p, "PENDING", "CONFIRMING")
Covering(p) == {t \in Transfers : Covers(t, p)}
AboutToDetect(p) == {t \in Transfers : evPhase[t] = "found" /\ evPayment[t] = p}

\* A payment is detected at most once for each transfer that covers it.
DetectedPerTransfer == \A p \in Payments : Detections(p) <= Cardinality(Covering(p))

DetectInv ==
  \A p \in Payments :
    /\ status[p] = "PENDING" => Detections(p) = 0
    /\ Detections(p) + Cardinality(AboutToDetect(p)) <= Cardinality(Covering(p))

\* A step that detects nothing and finds no payment to detect.
DetectsNothing ==
  /\ \A p \in Payments : Detections(p)' = Detections(p)
  /\ \A t \in Transfers :
       evPhase'[t] = "found" => evPhase[t] = "found" /\ evPayment'[t] = evPayment[t]
  /\ \A p \in Payments : status'[p] = "PENDING" => status[p] = "PENDING"

LEMMA OthersDetectNothing ==
  ASSUME TypeInv, [Next]_vars,
         \A t \in Transfers : ~CommitDetected(t) /\ ~FindDetected(t)
  PROVE  DetectsNothing
<1>a. UNCHANGED trail => \A p \in Payments : Detections(p)' = Detections(p)
  BY DEF Detections, Logged
<1>b. ASSUME NEW p \in Payments, NEW f \in PaymentStatus, NEW g \in PaymentStatus,
             AppendEvent(p, f, g), g # "CONFIRMING"
      PROVE  \A q \in Payments : Detections(q)' = Detections(q)
  BY <1>b, LoggedAppend, LoggedType DEF Detections
<1>c. /\ status \in [Payments -> PaymentStatus]
      /\ evPhase \in [Transfers -> EvIdle \cup EvActive]
      /\ evPayment \in [Transfers -> Payments \cup {NoPayment}]
      /\ refund \in [Refunders -> Payments \cup {NoPayment}]
  BY DEF TypeInv, TypeOK
<1>1. ASSUME NEW t \in Transfers,
             \/ DepositQueued(t) \/ DiscardTransfer(t) \/ EnqueueConfirm(t) \/ FailUnderpaid(t)
             \/ RefuseDetected(t) \/ EventFault(t) \/ \E p \in Payments : MatchPayment(t, p)
      PROVE  DetectsNothing
  <2>1. UNCHANGED trail
    BY <1>1 DEF DepositQueued, DiscardTransfer, EnqueueConfirm, FailUnderpaid, RefuseDetected,
                EventFault, MatchPayment
  <2>2. UNCHANGED status \/ FailUnderpaid(t)
    BY <1>1 DEF DepositQueued, DiscardTransfer, EnqueueConfirm, RefuseDetected, EventFault,
                MatchPayment
  <2>3. \A p \in Payments : status'[p] = "PENDING" => status[p] = "PENDING"
    BY <1>c, <2>2 DEF FailUnderpaid, Transition
  <2>4. /\ evPhase'[t] # "found"
        /\ \A u \in Transfers \ {t} : evPhase'[u] = evPhase[u] /\ evPayment'[u] = evPayment[u]
    BY <1>1, <1>c DEF DepositQueued, DiscardTransfer, EnqueueConfirm, FailUnderpaid,
                RefuseDetected, EventFault, MatchPayment, EventGoes, RetryEvent
  <2> QED
    BY <1>a, <2>1, <2>3, <2>4 DEF DetectsNothing
<1>2. ASSUME NEW p \in Payments,
             \/ PollStart(p) \/ ReadChain(p) \/ FindConfirming(p) \/ ScheduleRecheck(p)
             \/ BeginSettle(p) \/ PostLedger(p) \/ NotifySettled(p) \/ ConfirmFault(p)
             \/ ForgetConfirmJob(p) \/ SweepSelect(p) \/ SweepFault(p)
      PROVE  UNCHANGED <<status, trail, evPhase, evPayment>>
  BY <1>2 DEF PollStart, ReadChain, FindConfirming, ScheduleRecheck, BeginSettle, PostLedger,
              NotifySettled, ConfirmFault, ForgetConfirmJob, SweepSelect, SweepFault
<1>3. ASSUME NEW p \in Payments, FailPayment(p) \/ CountConfirmations(p) \/ SweepExpire(p)
      PROVE  DetectsNothing
  <2>1. /\ UNCHANGED <<trail, evPhase, evPayment>>
        /\ \E to \in PaymentStatus \ {"PENDING"} : status' = [status EXCEPT ![p] = to]
    BY <1>3 DEF FailPayment, CountConfirmations, SweepExpire, Transition, PaymentStatus
  <2> QED
    BY <1>a, <1>c, <2>1 DEF DetectsNothing
<1>4. ASSUME NEW p \in Payments, LogFailure(p) \/ SweepLog(p) PROVE DetectsNothing
  <2>1. /\ UNCHANGED <<status, evPhase, evPayment>>
        /\ \A q \in Payments : Detections(q)' = Detections(q)
    BY <1>4, <1>b DEF LogFailure, SweepLog, PaymentStatus
  <2> QED
    BY <2>1 DEF DetectsNothing
<1>5. ASSUME NEW p \in Payments, CommitSettle(p) PROVE DetectsNothing
  <2>1. /\ UNCHANGED <<evPhase, evPayment>> /\ status' = [status EXCEPT ![p] = "COMPLETED"]
        /\ \A q \in Payments : Detections(q)' = Detections(q)
    BY <1>5, <1>b DEF CommitSettle, PaymentStatus
  <2> QED
    BY <1>c, <2>1 DEF DetectsNothing
<1>6. ASSUME NEW r \in Refunders, RefundCommit(r) PROVE DetectsNothing
  <2>1. /\ UNCHANGED <<evPhase, evPayment>>
        /\ refund[r] \in Payments /\ status' = [status EXCEPT ![refund[r]] = "REFUNDED"]
    BY <1>6, <1>c DEF RefundCommit, Transition
  <2>2. \A q \in Payments : Detections(q)' = Detections(q)
    BY <1>6, <1>b, <2>1 DEF RefundCommit, PaymentStatus
  <2> QED
    BY <1>c, <2>1, <2>2 DEF DetectsNothing
<1>7. ASSUME \/ UNCHANGED vars \/ \E x \in Txs : ChainMoves(x)
             \/ \E r \in Refunders, p \in Payments : RefundRead(r, p)
      PROVE  UNCHANGED <<status, trail, evPhase, evPayment>>
  BY <1>7 DEF vars, ChainMoves, RefundRead
<1>8. UNCHANGED <<status, trail, evPhase, evPayment>> => DetectsNothing
  BY <1>a DEF DetectsNothing
<1> QED
  BY <1>1, <1>2, <1>3, <1>4, <1>5, <1>6, <1>7, <1>8
  DEF Next, EventStep, ConfirmStep, SweepStep, RefundStep

LEMMA DetectInit ==
  ASSUME IsFiniteSet(Transfers), Init PROVE DetectInv
<1> SUFFICES ASSUME NEW p \in Payments
             PROVE  Detections(p) + Cardinality(AboutToDetect(p)) <= Cardinality(Covering(p))
                    /\ Detections(p) = 0
  BY DEF DetectInv
<1>1. Detections(p) = 0
  BY CountEmpty DEF Init, Logged, Detections
<1>2. AboutToDetect(p) = {}
  BY DEF Init, AboutToDetect
<1>3. Cardinality(Covering(p)) \in Nat
  BY FS_Subset, FS_CardinalityType DEF Covering
<1> QED
  BY <1>1, <1>2, <1>3, FS_EmptySet

LEMMA DetectStep ==
  ASSUME IsFiniteSet(Transfers), TypeInv, Provenance, DetectInv, [Next]_vars PROVE DetectInv'
<1> SUFFICES ASSUME NEW p \in Payments
             PROVE  /\ status'[p] = "PENDING" => Detections(p)' = 0
                    /\ Detections(p)' + Cardinality(AboutToDetect(p)')
                         <= Cardinality(Covering(p)')
  BY DEF DetectInv
<1> DEFINE about == AboutToDetect(p)
           next == AboutToDetect(p)'
           covering == Covering(p)
<1>1. Covering(p)' = covering
  BY DEF Covering, Covers
<1>2. about \subseteq covering /\ covering \subseteq Transfers
  BY DEF AboutToDetect, Covering, Provenance
<1>3. /\ IsFiniteSet(covering) /\ IsFiniteSet(about)
      /\ Cardinality(covering) \in Nat /\ Cardinality(about) \in Nat
  BY <1>2, FS_Subset, FS_CardinalityType
<1>4. Detections(p) \in Nat
  BY LoggedType DEF Detections
<1>5. /\ status[p] = "PENDING" => Detections(p) = 0
      /\ Detections(p) + Cardinality(about) <= Cardinality(covering)
  BY DEF DetectInv
<1>6. /\ evPhase \in [Transfers -> EvIdle \cup EvActive]
      /\ evPayment \in [Transfers -> Payments \cup {NoPayment}]
      /\ status \in [Payments -> PaymentStatus]
  BY DEF TypeInv, TypeOK
<1>7. CASE \E t \in Transfers : CommitDetected(t)
  <2> PICK t \in Transfers : CommitDetected(t)
    BY <1>7
  <2> DEFINE q == evPayment[t]
  <2>1. q \in Payments /\ evPhase[t] = "found"
    BY DEF CommitDetected, TypeInv, EventJobs, EvActive
  <2>2. Detections(p)' = Detections(p) + (IF p = q THEN 1 ELSE 0)
    BY <2>1, LoggedAppend DEF CommitDetected, PaymentStatus, Detections
  <2>3. status'[p] = "PENDING" => p # q /\ status[p] = "PENDING"
    BY <1>6, <2>1 DEF CommitDetected, Transition
  <2>4. next = about \ {t}
    BY <1>6, <2>1 DEF AboutToDetect, CommitDetected, EventGoes
  <2>5. Cardinality(next) = Cardinality(about) - (IF p = q THEN 1 ELSE 0)
    <3>1. t \in about <=> p = q
      BY <2>1 DEF AboutToDetect
    <3>2. /\ IsFiniteSet(about)
          /\ Cardinality(about) \in Nat
      BY <1>3
    <3>3. Cardinality(about \ {t})
            = IF t \in about THEN Cardinality(about) - 1 ELSE Cardinality(about)
      <4> HIDE DEF about
      <4> QED
        BY <3>2, FS_RemoveElement
    <3>4. Cardinality(next) = Cardinality(about \ {t})
      BY <2>4
    <3> HIDE DEF about, next
    <3> QED
      BY <3>1, <3>2, <3>3, <3>4
  <2> QED
    BY <1>1, <1>3, <1>4, <1>5, <2>2, <2>3, <2>5
<1>8. CASE \E t \in Transfers : FindDetected(t)
  <2> PICK t \in Transfers : FindDetected(t)
    BY <1>8
  <2>1. UNCHANGED <<status, trail, evPayment>> /\ evPhase[t] = "matched"
    BY DEF FindDetected, EventGoes
  <2>2. Detections(p)' = Detections(p)
    BY <2>1 DEF Detections, Logged
  <2>3. next \subseteq covering
    BY <1>6, <2>1 DEF AboutToDetect, Covering, Provenance, FindDetected, EventGoes
  <2>4. next = about \/ status[p] = "PENDING"
    BY <1>6, <2>1 DEF AboutToDetect, FindDetected, EventGoes, CanAcceptDeposit
  <2>5. IsFiniteSet(next) /\ Cardinality(next) <= Cardinality(covering)
    BY <1>3, <2>3, FS_Subset
  <2>6. Cardinality(next) \in Nat
    BY <2>5, FS_CardinalityType
  <2> QED
    BY <1>1, <1>3, <1>4, <1>5, <2>1, <2>2, <2>4, <2>5, <2>6
<1>9. CASE \A t \in Transfers : ~CommitDetected(t) /\ ~FindDetected(t)
  <2>1. DetectsNothing
    BY <1>9, OthersDetectNothing
  <2>2. next \subseteq about
    BY <2>1 DEF AboutToDetect, DetectsNothing
  <2>3. Cardinality(next) <= Cardinality(about)
    BY <1>3, <2>2, FS_Subset
  <2>4. Cardinality(next) \in Nat
    BY <1>3, <2>2, FS_Subset, FS_CardinalityType
  <2> QED
    BY <1>1, <1>3, <1>4, <1>5, <2>1, <2>3, <2>4 DEF DetectsNothing
<1> QED
  BY <1>7, <1>8, <1>9

\* A payment is detected at most once for each transfer that covers it, however many
\* workers match it at a time and however often their jobs are retried.
THEOREM DetectionsAreBounded ==
  ASSUME IsFiniteSet(Transfers) PROVE Spec => []DetectedPerTransfer
<1>1. TypeInv /\ DetectInv => DetectedPerTransfer
  <2> SUFFICES ASSUME TypeInv, DetectInv, NEW p \in Payments
               PROVE  Detections(p) <= Cardinality(Covering(p))
    BY DEF DetectedPerTransfer
  <2>1. AboutToDetect(p) \subseteq Transfers /\ Covering(p) \subseteq Transfers
    BY DEF AboutToDetect, Covering
  <2>2. Cardinality(AboutToDetect(p)) \in Nat /\ Cardinality(Covering(p)) \in Nat
    BY <2>1, FS_Subset, FS_CardinalityType
  <2>3. Detections(p) \in Nat
    BY LoggedType DEF Detections
  <2> QED
    BY <2>2, <2>3 DEF DetectInv
<1>2. Init => DetectInv
  BY DetectInit
<1>3. TypeInv /\ Provenance /\ DetectInv /\ [Next]_vars => DetectInv'
  BY DetectStep
<1>4. Init => Provenance
  BY DEF Init, Provenance, CreditBacked, CfActive
<1> QED
  BY <1>1, <1>2, <1>3, <1>4, TypeInit, TypeStep, ProvenanceStep, PTL DEF Spec

SettledPerTransfer ==
  \A p \in Payments : Logged(p, "CONFIRMING", "COMPLETED") <= Cardinality(Covering(p))

\* A payment is settled at most once for each transfer that covers it, whatever
\* retries and stale writes make of its status. (Of its bookings nothing of the kind
\* holds: SettledTogether is refuted.)
THEOREM SettlementsAreBounded ==
  ASSUME IsFiniteSet(Transfers) PROVE Spec => []SettledPerTransfer
<1>1. TypeInv /\ SettlementsBooked /\ DetectedPerTransfer => SettledPerTransfer
  <2> SUFFICES ASSUME TypeInv, SettlementsBooked, DetectedPerTransfer, NEW p \in Payments
               PROVE  Logged(p, "CONFIRMING", "COMPLETED") <= Cardinality(Covering(p))
    BY DEF SettledPerTransfer
  <2>1. Cardinality(Covering(p)) \in Nat
    BY FS_Subset, FS_CardinalityType DEF Covering
  <2>2. Logged(p, "CONFIRMING", "COMPLETED") \in Nat /\ Detections(p) \in Nat
    BY LoggedType DEF Detections
  <2> QED
    BY <2>1, <2>2 DEF SettlementsBooked, DetectedPerTransfer, Detections
<1> QED
  BY <1>1, TypeInit, TypeStep, SettlementsAreBooked, DetectionsAreBounded, PTL DEF Spec
-----------------------------------------------------------------------------
(***************************************************************************)
(* The rail implements SettlementPromise: a deposit gets deep when the     *)
(* chain moves, a payment is booked by PostLedger, settled by CommitSettle *)
(* and returned by RefundCommit; every other step stutters.                *)
(***************************************************************************)

LEMMA Writers ==
  [Next]_vars =>
    \/ UNCHANGED <<posted, trail, chain>>
    \/ \E t \in Transfers : CommitDetected(t)
    \/ \E p \in Payments : PostLedger(p) \/ CommitSettle(p) \/ LogFailure(p) \/ SweepLog(p)
    \/ \E r \in Refunders : RefundCommit(r)
    \/ \E x \in Txs : ChainMoves(x)
  BY DEF Next, EventStep, ConfirmStep, SweepStep, RefundStep, vars,
         DepositQueued, DiscardTransfer, FailUnderpaid, FindDetected,
         RefuseDetected, EnqueueConfirm, EventFault, PollStart, ReadChain,
         FailPayment, FindConfirming, CountConfirmations, ScheduleRecheck,
         BeginSettle, NotifySettled, ConfirmFault, ForgetConfirmJob,
         SweepSelect, SweepExpire, SweepFault, MatchPayment, RefundRead

LEMMA PromiseInit == Init => Promise!Init
<1> SUFFICES ASSUME Init PROVE Promise!Init
  OBVIOUS
<1>1. \A p \in Payments : \A f, g : Logged(p, f, g) = 0
  BY CountEmpty DEF Init, Logged
<1>2. \A p \in Payments : ~Backed(p)
  BY RailAssumption DEF Init, Backed
<1>3. posted = [p \in Payments |-> 0]
  BY DEF Init
<1> QED
  BY <1>1, <1>2, <1>3 DEF Promise!Init

LEMMA PromiseStep ==
  TypeInv /\ Provenance /\ Recorded /\ [Next]_vars => [Promise!Next]_(Promise!promiseVars)
<1> SUFFICES ASSUME TypeInv, Provenance, Recorded, [Next]_vars
             PROVE  [Promise!Next]_(Promise!promiseVars)
  OBVIOUS
<1> DEFINE backed == {p \in Payments : Backed(p)}
           settled == {p \in Payments : Logged(p, "CONFIRMING", "COMPLETED") > 0}
           returned == {p \in Payments : Logged(p, "COMPLETED", "REFUNDED") > 0}
<1>a. \A p \in Payments : \A f, g : Logged(p, f, g) \in Nat
  BY LoggedType
<1>b. UNCHANGED chain => backed' = backed
  BY DEF Backed
<1>c. UNCHANGED trail => settled' = settled /\ returned' = returned
  BY DEF Logged
\* An event of another kind than the two the promise is about.
<1>d. ASSUME NEW p \in Payments, NEW f \in PaymentStatus, NEW g \in PaymentStatus,
             AppendEvent(p, f, g), g \notin {"COMPLETED", "REFUNDED"}
      PROVE  settled' = settled /\ returned' = returned
  <2>1. \A q \in Payments, to \in {"COMPLETED", "REFUNDED"} : \A from :
          Logged(q, from, to)' = Logged(q, from, to)
    BY <1>a, <1>d, LoggedAppend
  <2> QED
    BY <2>1
<1>1. CASE UNCHANGED <<posted, trail, chain>>
  BY <1>1, <1>b, <1>c DEF Promise!promiseVars
<1>2. ASSUME NEW t \in Transfers, CommitDetected(t) PROVE UNCHANGED Promise!promiseVars
  <2>1. evPayment[t] \in Payments
    BY <1>2 DEF CommitDetected, TypeInv, EventJobs, EvActive
  <2>2. settled' = settled /\ returned' = returned
    BY <1>2, <1>d, <2>1 DEF CommitDetected, PaymentStatus
  <2> QED
    BY <1>2, <1>b, <2>2 DEF CommitDetected, Promise!promiseVars
<1>3. ASSUME NEW p \in Payments, LogFailure(p) PROVE UNCHANGED Promise!promiseVars
  <2>1. settled' = settled /\ returned' = returned
    BY <1>3, <1>d DEF LogFailure, PaymentStatus
  <2> QED
    BY <1>3, <1>b, <2>1 DEF LogFailure, Promise!promiseVars
<1>4. ASSUME NEW p \in Payments, SweepLog(p) PROVE UNCHANGED Promise!promiseVars
  <2>1. settled' = settled /\ returned' = returned
    BY <1>4, <1>d DEF SweepLog, PaymentStatus
  <2> QED
    BY <1>4, <1>b, <2>1 DEF SweepLog, Promise!promiseVars
<1>5. ASSUME NEW p \in Payments, PostLedger(p) PROVE Promise!Book(p)
  <2>1. p \in backed
    BY <1>5 DEF PostLedger, Provenance, Backed, CfActive
  <2> QED
    BY <1>5, <1>b, <1>c, <2>1 DEF PostLedger, Promise!Book
<1>6. ASSUME NEW p \in Payments, CommitSettle(p) PROVE Promise!Settle(p)
  <2>1. \A q \in Payments : \A f, g :
          Logged(q, f, g)' = Logged(q, f, g)
            + (IF q = p /\ f = "CONFIRMING" /\ g = "COMPLETED" THEN 1 ELSE 0)
    BY <1>6, LoggedAppend DEF CommitSettle, PaymentStatus
  <2>2. settled' = settled \cup {p} /\ returned' = returned
    BY <1>a, <2>1
  <2>3. posted[p] > 0
    BY <1>6, <1>a DEF CommitSettle, Recorded, TypeInv, TypeOK
  <2> QED
    BY <1>6, <1>b, <2>2, <2>3 DEF CommitSettle, Promise!Settle
<1>7. ASSUME NEW r \in Refunders, RefundCommit(r) PROVE \E p \in Payments : Promise!Return(p)
  <2> DEFINE p == refund[r]
  <2>1. p \in Payments /\ p \in settled
    BY <1>7 DEF RefundCommit, Recorded, TypeInv, TypeOK
  <2>2. \A q \in Payments : \A f, g :
          Logged(q, f, g)' = Logged(q, f, g)
            + (IF q = p /\ f = "COMPLETED" /\ g = "REFUNDED" THEN 1 ELSE 0)
    BY <1>7, <2>1, LoggedAppend DEF RefundCommit, PaymentStatus
  <2>3. settled' = settled /\ returned' = returned \cup {p}
    BY <1>a, <2>1, <2>2
  <2>4. Promise!Return(p)
    BY <1>7, <1>b, <2>1, <2>3 DEF RefundCommit, Promise!Return
  <2> QED
    BY <2>1, <2>4
<1>8. ASSUME NEW x \in Txs, ChainMoves(x) PROVE Promise!Back
  <2>1. backed \subseteq backed'
    BY DeepStays, RailAssumption DEF Backed
  <2>2. \E more \in SUBSET Payments : backed' = backed \cup more
    BY <2>1
  <2> QED
    BY <1>8, <1>c, <2>2 DEF ChainMoves, Promise!Back
<1> QED
  BY <1>1, <1>2, <1>3, <1>4, <1>5, <1>6, <1>7, <1>8, Writers DEF Promise!Next

\* No crash, retry, race or overwritten status makes the rail book a payment
\* that is not backed, settle one not booked or refund one not settled.
THEOREM RailKeepsPromise == Spec => KeepsPromise
<1>1. Init => Provenance
  BY DEF Init, Provenance, CreditBacked, CfActive
<1> QED
  BY <1>1, TypeInit, TypeStep, ProvenanceStep, RecordedInit, RecordedStep, PromiseInit,
     PromiseStep, PTL
  DEF Spec, KeepsPromise, Promise!Spec
=============================================================================
