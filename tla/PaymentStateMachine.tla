------------------------- MODULE PaymentStateMachine -------------------------
(***************************************************************************)
(* The status machine of a payment: the table the service validates a      *)
(* change of status against (payment-state-machine.ts).                    *)
(***************************************************************************)

PaymentStatus ==
  {"PENDING", "CONFIRMING", "COMPLETED", "FAILED", "REFUNDED", "EXPIRED"}

\* <<from, to>> pairs.
VALID_TRANSITIONS ==
  { <<"PENDING", "CONFIRMING">>, <<"PENDING", "EXPIRED">>,
    <<"PENDING", "FAILED">>,     <<"CONFIRMING", "COMPLETED">>,
    <<"CONFIRMING", "FAILED">>,  <<"COMPLETED", "REFUNDED">> }

\* TRUE where assertTransition returns, FALSE where it throws.
AssertTransition(from, to) == from = to \/ <<from, to>> \in VALID_TRANSITIONS

CanAcceptDeposit(s) == s = "PENDING"
=============================================================================
