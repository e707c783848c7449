---------------------------- MODULE MCPaymentRail ----------------------------
(***************************************************************************)
(* Instances of PaymentRail for the model checker.                         *)
(***************************************************************************)
EXTENDS PaymentRail, TLC

CONSTANTS p1, p2, t1, t2, x1, x2, a1, ta

AllOfTa == [p \in Payments |-> ta]

\* One deposit address, as for the payments of one wallet.
SharedAddress == [p \in Payments |-> a1]
PaidToShared == [t \in Transfers |-> a1]

\* One transaction per transfer.
OwnTx == [t \in Transfers |-> IF t = t2 THEN x2 ELSE x1]

\* The second transfer is short of p1 by more than the tolerated unit, or by
\* exactly that unit.
Due == [p \in Payments |-> IF p = p2 THEN 3 ELSE 5]
SecondShort == [t \in Transfers |-> IF t = t2 THEN 3 ELSE 5]
SecondOneOff == [t \in Transfers |-> IF t = t2 THEN 4 ELSE 5]

\* A queued transfer is worked off within its attempts, takes the payment it covers
\* out of PENDING, and one that is deep enough takes it out of CONFIRMING.
TransfersGetThrough == TransferJobsEnd /\ DepositDetected /\ DeepIsSettled
=============================================================================
