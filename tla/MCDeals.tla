-------------------------------- MODULE MCDeals --------------------------------
(***************************************************************************)
(* Deals for the model checker: a deal that is won twice and another one;  *)
(* two requests on one deal; an event and two workflows.                   *)
(***************************************************************************)
EXTENDS Deals

CONSTANTS d1, d2, w1, w2, w3, r1, r2, open, won1, shut, key, tenant, wallet, ev1, wf1, wf2

\* d1 is won twice.
WonAgain == [w \in Wins |-> IF w = w3 THEN d2 ELSE d1]

\* The wins of the deal ask for the same payment.
Owner == [w \in AllWallets |-> tenant]
DealsKey == [r \in Requests |-> key]
DealsTenant == [r \in Requests |-> tenant]
DealsWallet == [r \in Requests |-> wallet]

\* A workflow with two actions, the first of which stops it, and one with a single
\* action.
Actions == [w \in Workflows |-> IF w = wf1 THEN <<TRUE, FALSE>> ELSE <<FALSE>>]

\* The idle parts stay in one of their initial states.
MCDealsInit ==
  DealsInit /\ (part # "registry" => ~configured) /\ (part # "closing" => deal = NoDeal)

MCDealsSpec == MCDealsInit /\ [][DealsNext]_dealVars /\ DealsFairness
=============================================================================
