--------------------------------- MODULE Queues ---------------------------------
(***************************************************************************)
(* The queues and those who wait in them: the jobs of Messages, Webhooks,  *)
(* Notifications and Embeddings and the requests of ApiClient, side by     *)
(* side. They share no state, so a behaviour is one of the part that is at *)
(* work, and the others stay in their initial state.                       *)
(***************************************************************************)
EXTENDS Naturals, FiniteSets

CONSTANTS
  Sent, Texts, Templated,
  MaxMessages,    \* bound on the messages that are sent
  Posts, Hooks, OwnerOf, TenantOf, NoTenant, Test,
  Notices, Requests, NoCounter,
  Embeds, Deletion, NoJob, Nothing, ColumnsMatch,
  Calls, MaxTokens, NoToken, SendsRefresh,
  SendAttempts, PostAttempts, NoticeAttempts, EmbedAttempts   \* attempts of a job

VARIABLES
  part,
  mPlace, mTries, mStalls, row, sendStage, accepted, template,
  wPlace, wTries, wStalls, hook, failures, deliveries, sending,
  nPlace, nTries, nStalls, rows, counter, lasting, countStage, at, counted, alone,
  ePlace, eTries, eStalls, version, exists, adding, holder, text, vector, embedStage,
  token, valid, session, unreachable, isRefreshing, where, with, retried

messageVars == <<mPlace, mTries, mStalls, row, sendStage, accepted, template>>
webhookVars == <<wPlace, wTries, wStalls, hook, failures, deliveries, sending>>
notificationVars == <<nPlace, nTries, nStalls, rows, counter, lasting, countStage, at, counted, alone>>
embeddingVars == <<ePlace, eTries, eStalls, version, exists, adding, holder, text, vector, embedStage>>
clientVars == <<token, valid, session, unreachable, isRefreshing, where, with, retried>>
queuesVars == <<part, messageVars, webhookVars, notificationVars, embeddingVars, clientVars>>

M == INSTANCE Messages WITH
  Jobs <- Sent, MaxTries <- SendAttempts,
  place <- mPlace, tries <- mTries, stalls <- mStalls, stage <- sendStage

W == INSTANCE Webhooks WITH
  Jobs <- Posts, MaxTries <- PostAttempts,
  place <- wPlace, tries <- wTries, stalls <- wStalls

N == INSTANCE Notifications WITH
  Jobs <- Notices, MaxTries <- NoticeAttempts,
  place <- nPlace, tries <- nTries, stalls <- nStalls, stage <- countStage

E == INSTANCE Embeddings WITH
  Jobs <- Embeds, MaxTries <- EmbedAttempts,
  place <- ePlace, tries <- eTries, stalls <- eStalls, stage <- embedStage

C == INSTANCE ApiClient WITH at <- where

ASSUME QueuesAssumption ==
  /\ M!MessageAssumption /\ M!QueueAssumption /\ W!QueueAssumption
  /\ N!NotificationAssumption /\ N!QueueAssumption
  /\ E!EmbeddingAssumption /\ E!QueueAssumption /\ C!ClientAssumption

MessagePart ==
  /\ part = "messages"
  /\ UNCHANGED <<part, webhookVars, notificationVars, embeddingVars, clientVars>>
WebhookPart ==
  /\ part = "webhooks"
  /\ UNCHANGED <<part, messageVars, notificationVars, embeddingVars, clientVars>>
NotificationPart ==
  /\ part = "notifications"
  /\ UNCHANGED <<part, messageVars, webhookVars, embeddingVars, clientVars>>
EmbeddingPart ==
  /\ part = "embeddings"
  /\ UNCHANGED <<part, messageVars, webhookVars, notificationVars, clientVars>>
ClientPart ==
  /\ part = "client"
  /\ UNCHANGED <<part, messageVars, webhookVars, notificationVars, embeddingVars>>

QueuesInit ==
  /\ part \in {"messages", "webhooks", "notifications", "embeddings", "client"}
  /\ M!Init /\ W!Init /\ N!Init /\ E!Init /\ C!Init

\* Bound on the messages.
FewMessages == Cardinality({m \in Sent : row'[m] # "none" \/ mPlace'[m] # "none"}) <= MaxMessages

QueuesNext ==
  \/ MessagePart /\ M!Next /\ FewMessages
  \/ WebhookPart /\ W!Next
  \/ NotificationPart /\ N!Next
  \/ EmbeddingPart /\ E!Next
  \/ ClientPart /\ C!Next

\* The fairness of the five.
QueuesSpec ==
  /\ QueuesInit /\ [][QueuesNext]_queuesVars
  /\ WF_queuesVars(\/ MessagePart /\ (\E m \in Sent : M!Work(m))
                   \/ WebhookPart /\ (\E j \in Posts : W!Work(j))
                   \/ NotificationPart /\ (\E j \in Notices : N!Work(j))
                   \/ EmbeddingPart /\ (\E j \in Embeds : E!Work(j))
                   \/ ClientPart /\ (\E c \in Calls : C!Network(c)))

-----------------------------------------------------------------------------
\* The types of the state of the five.
QueuesTypeOK == M!TypeOK /\ W!TypeOK /\ N!TypeOK /\ E!TypeOK /\ C!TypeOK

\* A job that has completed has sent its message, SENT is true, and a message goes
\* out at most once for each time its job is handed out.
SentAsRecorded == M!CompletedIsSent /\ M!SendsBounded

\* A failure that is counted has a delivery that shows it.
FailuresAreRecorded == W!FailuresAreRecorded

\* A job that has completed has told its user, once for each attempt; calls that do
\* not overlap keep the unread number that of the table.
UsersAreTold == N!ToldByItsJob /\ N!ExactWhenAlone

\* A vector of another text than its row's has a job that is not completed, and no
\* job replaces the text of a row by an older one.
VectorsFollow == []E!VectorOfItsText /\ E!NeverOlder

\* One refresh is under way at a time, and nobody waits without one.
OneRefresh == C!OneRefresh

\* SMS and templated emails are sent or their attempts used up, every other job of
\* the queues ends, and every request of the page is answered or rejected.
QueuesEnd ==
  M!MessagesGoOut /\ W!JobsEnd /\ N!JobsEnd /\ E!JobsEnd /\ C!RequestsEnd

\* A page whose session goes on is not logged out.
KeepsSession == C!KeepsSession
=============================================================================
