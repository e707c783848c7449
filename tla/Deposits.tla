------------------------------- MODULE Deposits -------------------------------
(***************************************************************************)
(* What a payment passes besides PaymentRail: PaymentIntents,              *)
(* BlockchainListener and Ledger side by side. They share no state, so a   *)
(* behaviour is one of the part that is at work, and the others stay in    *)
(* one of their initial states.                                            *)
(***************************************************************************)
EXTENDS Ledger

CONSTANTS
  Keys, Tenants, Wallets, Callers, OwnerOf, KeyOf, TenantOf, WalletOf, Jobs, MaxTries, NoPayment,
  Connections, NoConnection, Logs, MaxConnects

VARIABLES
  part,
  payments, caller, answer, tries, lost,
  conn, socket, hears, current, timers, mined, arriving, jobs

intentVars == <<payments, caller, answer, tries, lost>>
listenerVars == <<conn, socket, hears, current, timers, mined, arriving, jobs>>
depositVars == <<part, vars, intentVars, listenerVars>>

I == INSTANCE PaymentIntents WITH stage <- caller
L == INSTANCE BlockchainListener

ASSUME DepositsAssumption == I!IntentAssumption /\ L!ListenerAssumption

LedgerPart == part = "ledger" /\ UNCHANGED <<part, intentVars, listenerVars>>
IntentPart == part = "intents" /\ UNCHANGED <<part, vars, listenerVars>>
ListenerPart == part = "listener" /\ UNCHANGED <<part, vars, intentVars>>

DepositsInit ==
  /\ part \in {"ledger", "intents", "listener"}
  /\ Init /\ I!Init /\ L!Init

DepositsNext ==
  \/ LedgerPart /\ Next
  \/ IntentPart /\ I!Next
  \/ ListenerPart /\ L!Next

\* The fairness of the three.
DepositsFairness ==
  /\ WF_depositVars(\/ LedgerPart /\ (\E s \in Settlements : SettlementStep(s))
                    \/ IntentPart /\ (\E c \in Callers : I!Step(c))
                    \/ ListenerPart /\ L!Turn)
  /\ SF_depositVars(ListenerPart /\ \E n \in Connections : L!Connected(n))

DepositsSpec == DepositsInit /\ [][DepositsNext]_depositVars /\ DepositsFairness
-----------------------------------------------------------------------------
\* The types of the state of the three.
DepositsTypeOK == TypeOK /\ I!TypeOK /\ L!TypeOK

\* One payment per key, however createPaymentIntent is raced and retried.
OnePerKey == I!OnePerKey

\* Each caller is answered with a payment of its own key and tenant, the winner's
\* if it lost the race for the key.
AnsweredWithOwn == I!AnsweredWithOwn /\ I!LosesOnce

\* While nobody listens, a connection or a timer is under way; a Transfer that
\* several subscriptions hear is queued once.
HearsOnce == L!NeverDeaf /\ L!QueuedOnce

\* Every settlement and every call of createPaymentIntent ends, and a listener
\* that lost its subscription gets one again.
DepositsEnd ==
  SettlementsEnd /\ I!CallsEnd /\ (part = "listener" => L!Reconnects)
=============================================================================
