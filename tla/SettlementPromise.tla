-------------------------- MODULE SettlementPromise --------------------------
(***************************************************************************)
(* What the payment rail promises about money, whatever the order its      *)
(* workers run in: a payment is booked only against a confirmed deposit,   *)
(* recorded as settled only once booked, refunded only once settled, and   *)
(* none of this is ever taken back.                                        *)
(***************************************************************************)
EXTENDS Naturals

CONSTANT Payments

VARIABLES
  backed,    \* payments with a confirmed deposit that covers them
  bookings,  \* how often each payment is booked in the ledger
  settled,   \* payments recorded as settled
  returned   \* payments recorded as refunded

promiseVars == <<backed, bookings, settled, returned>>

Init ==
  /\ backed = {}
  /\ bookings = [p \in Payments |-> 0]
  /\ settled = {}
  /\ returned = {}

\* One transaction may carry the deposits of several payments.
Back ==
  /\ \E more \in SUBSET Payments : backed' = backed \cup more
  /\ UNCHANGED <<bookings, settled, returned>>

Book(p) ==
  /\ p \in backed
  /\ bookings' = [bookings EXCEPT ![p] = @ + 1]
  /\ UNCHANGED <<backed, settled, returned>>

Settle(p) ==
  /\ bookings[p] > 0
  /\ settled' = settled \cup {p}
  /\ UNCHANGED <<backed, bookings, returned>>

Return(p) ==
  /\ p \in settled
  /\ returned' = returned \cup {p}
  /\ UNCHANGED <<backed, bookings, settled>>

Next == Back \/ \E p \in Payments : Book(p) \/ Settle(p) \/ Return(p)

Spec == Init /\ [][Next]_promiseVars
=============================================================================
