---------------------------------- MODULE Desk ----------------------------------
(***************************************************************************)
(* What users ask of the API: Sessions, Billing, Wallets, Leads,           *)
(* Pipelines, Insights, Team and Pages side by side. They share no state,  *)
(* so a behaviour is one of the part that is at work, and the others stay  *)
(* in one of their initial states.                                         *)
(***************************************************************************)
EXTENDS Naturals, FiniteSets, Sequences

CONSTANTS
  SessionRequests, SessionKind, AccessLife, RefreshLife,
  MaxSecond, MaxPassword,                          \* bounds of Sessions
  StripeSubs, PayPalSubs, Tagged, Plans, Pro, OtherPrice, PriceOf, PlanCalls, None,
  MaxEvents, MaxIntents,                           \* bounds of Billing
  Provisions, Withdrawals, PayoutKeys, PayoutKeyOf, Asked, Deposits, USDC, Unread,
  MaxFunds,                                        \* bound of Wallets
  Updates, Assigns, Converts, ChangeOf, AssigneeOf, Users, Nobody, WithDeal,
  Emails, FirstEmail, RuleStatuses,                \* RuleStatuses: a bound of Leads
  Pipes, Setters, Plain, PipeOf, Deleters, DeletedBy, Reorders, ListOf, PipelineStages, Unlocked,
  MaxPlace,                                        \* bound of Pipelines
  Questions, Mixes, Life, Patience, Absent,
  MaxAge, MaxVersion,                              \* bounds of Insights
  People, AtFirst, Given, LowerCase,
  MaxWait,                                         \* bound of Team
  PageStories, Slots, Unloaded, NoLoad, Requested,
  MaxPressed                                       \* bound of Pages

VARIABLES
  part,
  now, status, password, resetLink, sessions, blacklist, held, stage, token, line, dates,
  cleared, escaped, unlisted,
  ordered, provider, events, sent, expired, exists, row, call, intents, bought, confirmed, late,
  provision, wallets, booked, funds, cache, reading, payout, transfers,
  lead, at, seen, contacts, deals, changes, notices,
  pipes, default, step, old, raced, standing, position, placedBy, written, draft, lock,
  order,
  op, asked, spent, value, kept, recorded, version, score, writes, overlapped,
  user, mailed, signing, access, refresh, since,
  story, page, applied, data, mark, load, pressed, due

sessionVars == <<now, status, password, resetLink, sessions, blacklist, held, stage, token, line,
                 dates, cleared, escaped, unlisted>>
billingVars == <<ordered, provider, events, sent, expired, exists, row, call, intents, bought,
                 confirmed, late>>
walletVars == <<provision, wallets, booked, funds, cache, reading, payout, transfers>>
leadVars == <<lead, at, seen, contacts, deals, changes, notices>>
pipelineVars == <<pipes, default, step, old, raced, standing, position, placedBy, written, draft,
                  lock, order>>
insightVars == <<op, asked, spent, value, kept, recorded, version, score, writes, overlapped>>
teamVars == <<user, mailed, signing, access, refresh, since>>
pageVars == <<story, page, applied, data, mark, load, pressed, due>>
deskVars == <<part, sessionVars, billingVars, walletVars, leadVars, pipelineVars, insightVars,
              teamVars, pageVars>>

S == INSTANCE Sessions WITH Requests <- SessionRequests, KindOf <- SessionKind
B == INSTANCE Billing WITH Calls <- PlanCalls
W == INSTANCE Wallets
L == INSTANCE Leads
P == INSTANCE Pipelines WITH Stages <- PipelineStages, Free <- Unlocked
I == INSTANCE Insights WITH
  Calls <- Questions, at <- asked, cache <- kept, row <- score, raced <- overlapped
T == INSTANCE Team WITH token <- access, session <- refresh
G == INSTANCE Pages WITH
  Stories <- PageStories, MaxCalls <- MaxPressed, Idle <- NoLoad, Sent <- Requested,
  call <- pressed

ASSUME DeskAssumption ==
  /\ S!SessionAssumption /\ B!BillingAssumption /\ W!WalletAssumption
  /\ L!LeadsAssumption /\ P!PipelinesAssumption /\ I!InsightsAssumption /\ T!TeamAssumption
  /\ G!PagesAssumption

\* The default flag and the stages of Pipelines share no state either.
Parts == {"sessions", "billing", "wallets", "leads", "pipelines", "stages", "insights", "team", "pages"}

\* Only one part is at work.
Only(p) ==
  /\ part = p /\ UNCHANGED part
  /\ IF p = "sessions" THEN TRUE ELSE UNCHANGED sessionVars
  /\ IF p = "billing" THEN TRUE ELSE UNCHANGED billingVars
  /\ IF p = "wallets" THEN TRUE ELSE UNCHANGED walletVars
  /\ IF p = "leads" THEN TRUE ELSE UNCHANGED leadVars
  /\ IF p \in {"pipelines", "stages"} THEN TRUE ELSE UNCHANGED pipelineVars
  /\ IF p = "insights" THEN TRUE ELSE UNCHANGED insightVars
  /\ IF p = "team" THEN TRUE ELSE UNCHANGED teamVars
  /\ IF p = "pages" THEN TRUE ELSE UNCHANGED pageVars

DeskInit ==
  /\ G!Init
  /\ part \in Parts
  /\ S!Init /\ B!Init /\ W!Init /\ L!Init /\ P!Init /\ I!Init /\ T!Init

DeskNext ==
  \/ Only("sessions") /\ S!Next
  \/ Only("billing") /\ B!Next
  \/ Only("wallets") /\ W!Next
  \/ Only("leads") /\ L!Next
  \/ Only("pipelines") /\ P!FlagNext
  \/ Only("stages") /\ P!RowNext
  \/ Only("insights") /\ I!Next
  \/ Only("team") /\ T!Next
  \/ Only("pages") /\ G!Next

DeskSpec == DeskInit /\ [][DeskNext]_deskVars

-----------------------------------------------------------------------------
\* What a part keeps is looked at when it is at work: another one is in an initial
\* state of its own.
At(p, F) == part = p => F

\* The types of the state of the parts.
DeskTypeOK ==
  /\ At("sessions", S!TypeOK) /\ At("billing", B!TypeOK) /\ At("wallets", W!TypeOK)
  /\ At("leads", L!TypeOK) /\ (part \in {"pipelines", "stages"} => P!TypeOK)
  /\ At("insights", I!TypeOK)
  /\ At("team", T!TypeOK) /\ At("pages", G!TypeOK)

\* A login has at most one session that goes back to it, a revoked token whose entry
\* Redis took is not accepted again, and no session outlives a reset that it was there before.
LoggedOutStaysOut ==
  At("sessions", S!OneLinePerLogin /\ S!RevokedStaysOut /\ S!ResetEndsSessions)

\* A login whose sessions are gone gets none again.
EndedStaysEnded == S!EndedStaysEnded

\* The plan of a tenant is one that was bought, FREE, or Pro if the price that was
\* bought is no plan's; and FREE once the end of its subscriptions is handled.
PlanIsPaidFor == At("billing", B!PlanWasBought /\ B!EndedIsFree)

\* A withdrawal is paid once for its key, with the amount asked, and is answered as
\* submitted only if it was; an answered provisioning has the wallet's accounts.
PaidOnceAsAsked ==
  At("wallets", W!PaidOnceAsAsked /\ W!SubmittedIsPaid /\ W!UnbookedIsUnfinished)

\* A converted lead has its contact, one for each address it was converted with, and
\* its deal if asked for; an assignment that was answered was told to the assignee, and
\* the status of an update announced.
LeadsConvertWhole == At("leads", L!ConversionIsWhole /\ L!OneContactPerEmail /\ L!AnsweredIsTold)

\* Calls that do not overlap never leave two default pipelines, and none only if one
\* asked for it or failed; stages are never in a mixture of two reorderings.
PipelinesInOrder ==
  At("pipelines", P!AloneKeepsOneDefault) /\ At("stages", P!OrderIsOneCalls)

\* An answer is as recent as its caches explain and has the shape that was asked for;
\* the score of a lead follows its updates.
InsightsAreRight ==
  At("insights", I!RecentEnough /\ I!AnswersInKind /\ I!ScoreFollowsUpdates)

\* A role that was taken is of use for one life of a token and the time a login or
\* refresh was under way that had read it, the guards refuse nothing
\* the permission map promises but what is listed, and who is invited waits.
TeamsKeepRank == At("team", T!StaleRoleEnds /\ T!PromisesAreGranted /\ T!InvitedWait)

\* Once a call of a page was answered, a query it touches has seen it, or is loaded again,
\* but for the calls and queries that Forgetful lists, the charts among them.
PagesKeepUp == At("pages", G!KeepsUp)
=============================================================================
