--------------------------------- MODULE Deals ---------------------------------
(***************************************************************************)
(* What a deal sets going: DealPayments, DealRegistry and Automation side  *)
(* by side. They share no state, so a behaviour is one of the part that is *)
(* at work, and the others stay in one of their initial states.            *)
(***************************************************************************)
EXTENDS DealRegistry

CONSTANTS
  Requests, Stages, WonStages, LostStages, Values, Overrides, Wallets, NoDeal, NoStage, NoJob,
  Keys, Tenants, AllWallets, OwnerOf, KeyOf, TenantOf, WalletOf, NoPayment,
  IntentAttempts,   \* attempts of a create_intent job (8 in the source)
  Events, Workflows, ActionsOf, NoWorkflow,
  EventAttempts     \* attempts of an automation job (2 in the source)

VARIABLES
  part,
  deal, history, step, move, closing, owned, adding, queued, intentJob, overruled,
  payments, stage, answer, intentTries, lost,
  stored, isActive, eventJob, eventTries, found, todo, running, results, executions

closingVars == <<deal, history, step, move, closing, owned, adding, queued, intentJob, overruled,
                 payments, stage, answer, intentTries, lost>>
automationVars == <<stored, isActive, eventJob, eventTries, found, todo, running, results, executions>>
dealVars == <<part, vars, closingVars, automationVars>>

\* Every caller of PaymentIntents is a win of the same deal.
P == INSTANCE DealPayments WITH MaxTries <- IntentAttempts, tries <- intentTries

U == INSTANCE Automation WITH MaxTries <- EventAttempts, job <- eventJob, tries <- eventTries

ASSUME DealsAssumption ==
  P!DealAssumption /\ P!Intents!IntentAssumption /\ U!AutomationAssumption

RegistryPart == part = "registry" /\ UNCHANGED <<part, closingVars, automationVars>>
ClosingPart == part = "closing" /\ UNCHANGED <<part, vars, automationVars>>
AutomationPart == part = "automation" /\ UNCHANGED <<part, vars, closingVars>>

DealsInit ==
  /\ part \in {"registry", "closing", "automation"}
  /\ Init /\ P!InitAll /\ U!Init

DealsNext ==
  \/ RegistryPart /\ Next
  \/ ClosingPart /\ P!NextAll
  \/ AutomationPart /\ U!Next

\* The fairness of the three.
DealsFairness ==
  WF_dealVars(\/ RegistryPart /\ (\E w \in Wins : WorkerStep(w))
              \/ ClosingPart /\ (\E r \in Requests : P!Step(r)) /\ P!SameIntents
              \/ AutomationPart /\ (\E e \in Events : U!JobStep(e) \/ (U!Gone(e) /\ U!Fault(e))))

DealsSpec == DealsInit /\ [][DealsNext]_dealVars /\ DealsFairness
-----------------------------------------------------------------------------
\* The types of the state of the three.
DealsTypeOK == TypeOK /\ P!TypeOK /\ U!TypeOK

\* The deal has the status of the closing stage it was moved to last, unless a workflow
\* has overruled it; what a win sets going comes after what announces it, to its owner
\* too if it has one; and nothing is collected for a move that is no win.
ClosesInOrder == P!LastCloseCounts /\ P!ClosedInOrder /\ P!CollectsForWins

\* One workflow that fails does not keep the others from running, and the record of
\* an execution tells what was done.
WorkflowsRun == U!EveryWorkflowRuns /\ U!ResultsTellTheRun

\* A win that committed is registered unless its call fails, and the jobs of the
\* registry and of automation end.
DealsEnd == RegistrationsEnd /\ P!WinsAreRegistered /\ U!EventsEnd
=============================================================================
