------------------------------- MODULE MCDeposits -------------------------------
(***************************************************************************)
(* Deposits for the model checker: three settlements over two books, four  *)
(* callers of payment intents, three connections.                          *)
(***************************************************************************)
EXTENDS Deposits

CONSTANTS b1, b2, ta, tb, k1, k2, wa, wb, c1, c2, c3, c4, n1, n2, n3

\* Two settlements compete for the new book b1, one has b2 to itself.
Books2 == [s \in Settlements |-> IF s = 3 THEN b2 ELSE b1]

\* A large payment, one whose fee is a fraction of a unit (none is booked), and
\* one just above the smallest with a fee, which is rounded down.
Amounts3 == [s \in Settlements |-> CASE s = 1 -> 20100 [] s = 2 -> 199 [] OTHER -> 399]

\* Two jobs and an API call of key k1, of two tenants, and a job of k2 that names
\* a wallet which is not its tenant's.
Owners2 == [w \in Wallets |-> IF w = wb THEN tb ELSE ta]
Keys4 == [c \in Callers |-> IF c = c3 THEN k2 ELSE k1]
Tenants4 == [c \in Callers |-> IF c = c4 THEN tb ELSE ta]
Wallets4 == [c \in Callers |-> IF c \in {c3, c4} THEN wb ELSE wa]

\* While another part is at work, the listener stays in one of its initial states.
MCDepositsInit == DepositsInit /\ (part # "listener" => conn[n1] = "connecting")

MCDepositsSpec == MCDepositsInit /\ [][DepositsNext]_depositVars /\ DepositsFairness
=============================================================================
