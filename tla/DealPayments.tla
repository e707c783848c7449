----------------------------- MODULE DealPayments -----------------------------
(***************************************************************************)
(* DealClosing composed with PaymentIntents: the create_intent jobs that   *)
(* the wins of the deal queue, all of them with the key deal-won:<deal>.   *)
(***************************************************************************)
EXTENDS DealClosing

CONSTANTS
  Keys, Tenants, AllWallets,
  OwnerOf, KeyOf, TenantOf, WalletOf, MaxTries, NoPayment

VARIABLES payments, stage, answer, tries, lost

intentVars == <<payments, stage, answer, tries, lost>>

Intents == INSTANCE PaymentIntents
  WITH Wallets <- AllWallets, Callers <- Requests, Jobs <- Requests

InitAll == Init /\ Intents!Init

Queued(r) == [queue |-> "payment", by |-> r] \in queued

\* A payment refers to its deal: the insert of a deleted deal's payment fails.
HasItsDeal(r) == stage[r] = "ready" => deal # NoDeal

WorkIntent(r) == HasItsDeal(r) /\ Intents!Step(r) /\ UNCHANGED vars

\* The id stays taken until the job has ended and is dropped.
IntentForgotten ==
  /\ intentJob # NoJob /\ stage[intentJob] \in Intents!Ended
  /\ ForgetIntentJob /\ UNCHANGED intentVars

DealStep ==
  /\ \/ \E r \in Requests :
          Create(r) \/ ReadDeal(r) \/ Step(r) \/ IntentLost(r) \/ Fault(r)
     \/ Update \/ UpdateField \/ Delete
  /\ UNCHANGED intentVars

NextAll ==
  \/ DealStep
  \/ IntentForgotten
  \/ \E r \in Requests :
       \/ Queued(r) /\ Intents!Call(r) /\ UNCHANGED vars
       \/ WorkIntent(r)
       \/ Intents!Fault(r) /\ UNCHANGED vars

allVars == <<vars, intentVars>>

SpecAll == InitAll /\ [][NextAll]_allVars

\* The server finishes the calls it has begun. (That of the jobs is a matter of
\* PaymentIntents.)
SameIntents == UNCHANGED intentVars
FairSpecAll == SpecAll /\ WF_allVars((\E r \in Requests : Step(r)) /\ SameIntents)
-----------------------------------------------------------------------------
\* What a job collects is for a win that committed, of a deal in USDC.
CollectsForWins ==
  \A p \in payments : closing[p.by] > 0 /\ IsWin(p.by)
=============================================================================
