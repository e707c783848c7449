------------------------------ MODULE QueuesProofs ------------------------------
(***************************************************************************)
(* Theorems about Queues and its parts, for any jobs, attempts, webhooks,  *)
(* tenants, requests and tokens: Messages, Webhooks, Notifications,        *)
(* Embeddings and ApiClient.                                               *)
(***************************************************************************)
EXTENDS Queues, FiniteSetTheorems, TLAPS

\* A job that has not ended has an attempt, and a worker's death, left.
Left(where1, tried, stalled, attempts) ==
  where1 \notin {"completed", "failed"} => tried < attempts /\ stalled < 2

(* Messages.                                                               *)

MessageLeft == \A m \in Sent : Left(mPlace[m], mTries[m], mStalls[m], SendAttempts)

\* The worker that holds a job is the one at work with its message; a message of
\* the service has its row before its job, an email of automation has none.
MessageHeld ==
  \A m \in Sent :
    /\ sendStage[m] \in {"sending", "accepted", "failing", "written"} <=> mPlace[m] = "active"
    /\ sendStage[m] = "adding" => mPlace[m] = "none" /\ row[m] # "none" /\ m \notin Templated
    /\ row[m] = "none" /\ m \notin Templated => mPlace[m] = "none"
    /\ m \in Templated => row[m] = "none" /\ sendStage[m] # "failing"

\* The row and the queue tell of a message that is sent.
MessageTold ==
  \A m \in Sent :
    /\ sendStage[m] \in {"accepted", "written"} \/ row[m] = "SENT" => accepted[m] > 0
    /\ sendStage[m] = "written" => row[m] \in {"SENT", "deleted"}
    /\ mPlace[m] = "completed" => accepted[m] > 0 /\ row[m] \notin {"QUEUED", "FAILED"}

\* A turn of a job that has not sent yet is one more than the times it was sent.
MessagePaced ==
  \A m \in Sent :
    /\ accepted[m] <= M!HandedOut(m)
    /\ mPlace[m] \in {"none", "waiting"} \/ sendStage[m] = "sending" => accepted[m] < M!HandedOut(m)

MessageInv == M!TypeOK /\ MessageLeft /\ MessageHeld /\ MessageTold /\ MessagePaced

(* Webhooks.                                                               *)

PostLeft == \A j \in Posts : Left(wPlace[j], wTries[j], wStalls[j], PostAttempts)

\* One job is worked on, and its deliveries only.
OnePosting == \A i, j \in Posts : wPlace[i] = "active" /\ wPlace[j] = "active" => i = j
PostHeld == \A j \in Posts : \A h \in Hooks : sending[j][h] # "idle" => wPlace[j] = "active"

\* No delivery of the turn is recorded before it is one that was answered.
TurnsRecorded ==
  \A d \in deliveries :
    /\ d.turn <= W!HandedOut(d.job)
    /\ d.turn = W!HandedOut(d.job) =>
         \/ wPlace[d.job] \in {"completed", "failed"}
         \/ wPlace[d.job] = "active" /\ sending[d.job][d.hook] \in {"takenLogged", "refusedLogged", "settled"}

\* A failure that is recorded and not yet counted leaves room in the counter.
FailuresCounted ==
  \A h \in Hooks :
    /\ failures[h] <= Cardinality(W!FailedDeliveries(h))
    /\ \A j \in Posts : sending[j][h] = "refusedLogged" /\ hook[h] # "deleted" =>
         failures[h] + 1 <= Cardinality(W!FailedDeliveries(h))

PostInv ==
  /\ W!TypeOK /\ PostLeft /\ OnePosting /\ PostHeld /\ TurnsRecorded
  /\ IsFiniteSet(deliveries) /\ FailuresCounted

(* Notifications.                                                          *)

NoticeLeft == \A j \in Notices : Left(nPlace[j], nTries[j], nStalls[j], NoticeAttempts)

NoticeHeld ==
  \A j \in Notices :
    /\ countStage[j] \in {"idle", "done", "inserting", "looking", "increasing", "finishing"}
    /\ countStage[j] \notin {"idle", "done"} <=> nPlace[j] = "active"

RequestHeld ==
  \A r \in Requests :
    /\ countStage[r] \notin {"inserting", "looking", "increasing", "finishing"}
    /\ countStage[r] = "idle" => at[r] = N!NoRow
    /\ countStage[r] \in {"marking", "getting", "decreasing", "gettingFirst", "decreasingFirst", "removing"}
         => at[r] \in N!Row

\* A job has one row for each turn, and none yet for one that has not inserted.
OneRowPerTurn ==
  /\ \A n, o \in rows : n.job = o.job /\ n.turn = o.turn => n = o
  /\ \A n \in rows :
       /\ 0 < n.turn /\ n.turn <= N!HandedOut(n.job)
       /\ nPlace[n.job] \in {"none", "waiting"} \/ countStage[n.job] = "inserting" =>
            n.turn < N!HandedOut(n.job)

\* A job that is past the insert has told its user, unless a request removed it.
Told ==
  \A j \in Notices :
    nPlace[j] = "completed" \/ countStage[j] \in {"looking", "increasing", "finishing"} =>
      \/ \E n \in rows : n.job = j
      \/ \E r \in Requests : at[r].job = j /\ countStage[r] # "idle"

\* What a call that is alone knows of the number and of its row.
Exact(n) == counter \in {NoCounter, n}
FoundUnread(r) == at[r] \in rows /\ ~at[r].read
Knows(a) ==
  /\ countStage[a] \in {"inserting", "finishing"} => Exact(N!Unread)
  /\ countStage[a] = "looking" => Exact(N!Unread - 1)
  /\ countStage[a] = "increasing" => counter = N!Unread - 1
  /\ countStage[a] \in {"counting", "setting"} => counter = NoCounter
  /\ countStage[a] = "setting" => counted[a] = N!Unread
  /\ countStage[a] = "resetting" => N!Unread = 0
  /\ countStage[a] \in {"marking", "gettingFirst"} => FoundUnread(a) /\ Exact(N!Unread)
  /\ countStage[a] = "getting" => Exact(N!Unread + 1)
  /\ countStage[a] = "decreasing" => counter = N!Unread + 1
  /\ countStage[a] = "decreasingFirst" => FoundUnread(a) /\ counter = N!Unread
  /\ countStage[a] = "removing" =>
       at[a] \in rows /\ Exact(IF at[a].read THEN N!Unread ELSE N!Unread - 1)

Alone ==
  alone =>
    /\ ~lasting
    /\ \A a, b \in N!Busy : a = b
    /\ N!Busy = {} => Exact(N!Unread)
    /\ \A a \in N!Busy : Knows(a)

NoticeRows ==
  /\ N!TypeOK /\ NoticeLeft /\ NoticeHeld /\ RequestHeld /\ IsFiniteSet(rows)
  /\ OneRowPerTurn /\ Told

NoticeInv == NoticeRows /\ Alone

(* Embeddings.                                                             *)

EmbedLeft == \A j \in Embeds : Left(ePlace[j], eTries[j], eStalls[j], EmbedAttempts)

\* One job is worked on.
OneEmbedding == \A i, j \in Embeds : ePlace[i] = "active" /\ ePlace[j] = "active" => i = j

EmbedHeld ==
  /\ \A j \in Embeds : embedStage[j] # "idle" <=> ePlace[j] = "active"
  /\ embedStage[Deletion] \in {"idle", "asking"} /\ adding[Deletion] = 0
  /\ \A j \in E!Upserts : adding[j] = 0 => ePlace[j] = "none"

\* The id is that of the upsert that has not ended, which has the youngest text.
HolderIsOpen ==
  /\ \A j \in E!Upserts : ePlace[j] \in {"waiting", "active"} =>
       holder = j /\ (text # Nothing => text <= adding[j])
  /\ \A j \in Embeds : adding[j] <= version
  /\ text # Nothing => text <= version /\ text # 0

\* A row is as the last upsert wrote it, and only one that did not complete left it
\* with another vector.
VectorFollows ==
  /\ E!VectorOfItsText
  /\ \A j \in E!Upserts : embedStage[j] = "written" => text = adding[j]

EmbedInv == E!TypeOK /\ EmbedLeft /\ OneEmbedding /\ EmbedHeld /\ HolderIsOpen /\ VectorFollows

(* ApiClient.                                                              *)

\* The flag is that of one request, and nobody waits when it is down.
OneFlag ==
  /\ IF isRefreshing THEN \E c \in Calls : C!Refreshing = {c} ELSE C!Refreshing = {}
  /\ C!failedQueue # {} => isRefreshing

ClientInv == C!TypeOK /\ OneFlag

-----------------------------------------------------------------------------

LEMMA QueueConstants ==
  /\ SendAttempts \in Nat /\ SendAttempts > 0
  /\ PostAttempts \in Nat /\ PostAttempts > 0
  /\ NoticeAttempts \in Nat /\ NoticeAttempts > 0
  /\ EmbedAttempts \in Nat /\ EmbedAttempts > 0
  /\ Texts \subseteq Sent /\ Templated \subseteq Sent \ Texts
  BY QueuesAssumption DEF QueuesAssumption, M!MessageAssumption, M!QueueAssumption, W!QueueAssumption,
     N!QueueAssumption, E!QueueAssumption

(* Messages.                                                               *)

LEMMA MessageInit == M!Init => MessageInv
<1> SUFFICES ASSUME M!Init PROVE MessageInv
  OBVIOUS
<1> USE DEF M!Init, M!QueueInit
<1>1. M!TypeOK /\ MessageLeft
  BY QueueConstants DEF M!TypeOK, M!QueueTypeOK, MessageLeft, Left, M!Over
<1>2. MessageHeld /\ MessageTold
  BY DEF MessageHeld, MessageTold
<1>3. MessagePaced
  BY DEF MessagePaced, M!HandedOut
<1> QED
  BY <1>1, <1>2, <1>3 DEF MessageInv

\* What is true of the other messages stays so.
MessageKept(o) ==
  /\ mPlace'[o] = mPlace[o] /\ mTries'[o] = mTries[o] /\ mStalls'[o] = mStalls[o]
  /\ row'[o] = row[o] /\ sendStage'[o] = sendStage[o] /\ accepted'[o] = accepted[o]

\* The queue's own steps.
LEMMA MessageQueue ==
  ASSUME MessageInv, NEW m \in Sent,
         \/ UNCHANGED M!queueVars
         \/ \E from \in {"none", "waiting", "active"},
               to \in {"waiting", "active", "completed", "failed"} : M!Moves(m, from, to)
         \/ M!Throws(m) \/ M!Dies(m)
  PROVE  /\ M!QueueTypeOK'
         /\ Left(mPlace'[m], mTries'[m], mStalls'[m], SendAttempts)
         /\ \A o \in Sent \ {m} :
              mPlace'[o] = mPlace[o] /\ mTries'[o] = mTries[o] /\ mStalls'[o] = mStalls[o]
<1> USE QueueConstants DEF MessageInv, M!TypeOK, M!QueueTypeOK, MessageLeft, Left, M!Over
<1>1. CASE UNCHANGED M!queueVars
  BY <1>1 DEF M!queueVars
<1>2. CASE \E from \in {"none", "waiting", "active"},
              to \in {"waiting", "active", "completed", "failed"} : M!Moves(m, from, to)
  BY <1>2 DEF M!Moves
<1>3. CASE M!Throws(m)
  BY <1>3 DEF M!Throws
<1>4. CASE M!Dies(m)
  BY <1>4 DEF M!Dies
<1> QED
  BY <1>1, <1>2, <1>3, <1>4

\* One message is looked at: the others are as they were.
LEMMA OneMessage ==
  ASSUME MessageInv, NEW m \in Sent, M!TypeOK',
         Left(mPlace'[m], mTries'[m], mStalls'[m], SendAttempts),
         \A o \in Sent \ {m} : MessageKept(o),
         /\ sendStage'[m] \in {"sending", "accepted", "failing", "written"} <=> mPlace'[m] = "active"
         /\ sendStage'[m] = "adding" => mPlace'[m] = "none" /\ row'[m] # "none" /\ m \notin Templated
         /\ row'[m] = "none" /\ m \notin Templated => mPlace'[m] = "none"
         /\ m \in Templated => row'[m] = "none" /\ sendStage'[m] # "failing",
         /\ sendStage'[m] \in {"accepted", "written"} \/ row'[m] = "SENT" => accepted'[m] > 0
         /\ sendStage'[m] = "written" => row'[m] \in {"SENT", "deleted"}
         /\ mPlace'[m] = "completed" => accepted'[m] > 0 /\ row'[m] \notin {"QUEUED", "FAILED"},
         /\ accepted'[m] <= mTries'[m] + mStalls'[m] + 1
         /\ mPlace'[m] \in {"none", "waiting"} \/ sendStage'[m] = "sending" =>
              accepted'[m] < mTries'[m] + mStalls'[m] + 1
  PROVE  MessageInv'
<1>1. MessageLeft'
  BY DEF MessageInv, MessageLeft, MessageKept
<1>2. MessageHeld'
  BY DEF MessageInv, MessageHeld, MessageKept
<1>3. MessageTold'
  BY DEF MessageInv, MessageTold, MessageKept
<1>4. MessagePaced'
  BY DEF MessageInv, MessagePaced, MessageKept, M!HandedOut
<1> QED
  BY <1>1, <1>2, <1>3, <1>4 DEF MessageInv

LEMMA MessageStep == MessageInv /\ [M!Next]_(M!vars) => MessageInv'
<1> SUFFICES ASSUME MessageInv, [M!Next]_(M!vars) PROVE MessageInv'
  OBVIOUS
<1> USE DEF M!Goes, M!Writes, M!TypeOK, M!QueueTypeOK, MessageKept
<1>1. ASSUME NEW m \in Sent, M!Create(m) PROVE MessageInv'
  <2>1. M!TypeOK'
    BY <1>1 DEF M!Create, MessageInv, M!queueVars
  <2> QED
    BY <1>1, <2>1, OneMessage DEF M!Create, M!queueVars, MessageInv, MessageLeft, MessageHeld,
       MessageTold, MessagePaced, M!HandedOut
<1>2. ASSUME NEW m \in Sent, M!Enqueue(m) PROVE MessageInv'
  <2>1. UNCHANGED M!queueVars \/ M!Moves(m, "none", "waiting")
    BY <1>2 DEF M!Enqueue, M!Add
  <2>2. M!TypeOK' /\ \A o \in Sent \ {m} : MessageKept(o)
    BY <1>2, <2>1, MessageQueue DEF M!Enqueue, MessageInv
  <2> QED
    BY <1>2, <2>1, <2>2, MessageQueue, OneMessage
       DEF M!Enqueue, M!Moves, M!queueVars, MessageInv, MessageHeld, MessageTold, MessagePaced, M!HandedOut
<1>3. ASSUME NEW m \in Sent, M!Delete(m) PROVE MessageInv'
  <2>1. M!TypeOK'
    BY <1>3 DEF M!Delete, MessageInv, M!queueVars
  <2> QED
    BY <1>3, <2>1, OneMessage DEF M!Delete, M!queueVars, MessageInv, MessageLeft, MessageHeld,
       MessageTold, MessagePaced, M!HandedOut
<1>4. CASE M!DeleteTemplate
  BY <1>4 DEF M!DeleteTemplate, M!queueVars, MessageInv, MessageLeft, MessageHeld, MessageTold,
     MessagePaced, M!HandedOut
<1>5. ASSUME NEW m \in Sent, M!Start(m) PROVE MessageInv'
  <2>1. M!Moves(m, "waiting", "active")
    BY <1>5 DEF M!Start, M!TakeOneOf
  <2>2. M!TypeOK' /\ \A o \in Sent \ {m} : MessageKept(o)
    BY <1>5, <2>1, MessageQueue DEF M!Start, MessageInv
  <2>3. Left(mPlace'[m], mTries'[m], mStalls'[m], SendAttempts)
    BY <2>1, MessageQueue
  <2> QED
    BY <1>5, <2>1, <2>2, <2>3, OneMessage
       DEF M!Start, M!Moves, MessageInv, MessageHeld, MessageTold, MessagePaced, M!HandedOut
<1>6. ASSUME NEW m \in Sent, M!NoBody(m) PROVE MessageInv'
  <2>1. M!Moves(m, "active", "failed")
    BY <1>6 DEF M!NoBody, M!GivesUp
  <2>2. M!TypeOK' /\ \A o \in Sent \ {m} : MessageKept(o)
    BY <1>6, <2>1, MessageQueue DEF M!NoBody, MessageInv
  <2>3. Left(mPlace'[m], mTries'[m], mStalls'[m], SendAttempts)
    BY <2>1, MessageQueue
  <2> QED
    BY <1>6, <2>1, <2>2, <2>3, OneMessage
       DEF M!NoBody, M!Moves, MessageInv, MessageHeld, MessageTold, MessagePaced, M!HandedOut
<1>7. ASSUME NEW m \in Sent, M!Accept(m) PROVE MessageInv'
  <2>1. M!TypeOK'
    BY <1>7 DEF M!Accept, MessageInv, M!queueVars
  <2> QED
    BY <1>7, <2>1, OneMessage DEF M!Accept, M!queueVars, MessageInv, MessageLeft, MessageHeld,
       MessageTold, MessagePaced, M!HandedOut
<1>8. ASSUME NEW m \in Sent, M!Fails(m), sendStage[m] \in {"sending", "accepted"},
             UNCHANGED <<row, accepted, template>>
      PROVE  MessageInv'
  <2>1. UNCHANGED M!queueVars \/ M!Throws(m)
    BY <1>8 DEF M!Fails
  <2>2. M!TypeOK' /\ \A o \in Sent \ {m} : MessageKept(o)
    BY <1>8, <2>1, MessageQueue DEF M!Fails, MessageInv
  <2>3. CASE m \in Texts
    BY <1>8, <2>1, <2>2, <2>3, MessageQueue, OneMessage, QueueConstants
       DEF M!Fails, M!queueVars, MessageInv, MessageHeld, MessageTold, MessagePaced, M!HandedOut
  <2>4. CASE m \notin Texts
    BY <1>8, <2>1, <2>2, <2>4, MessageQueue, OneMessage
       DEF M!Fails, M!Throws, MessageInv, MessageHeld, MessageTold, MessagePaced, M!HandedOut
  <2> QED
    BY <2>3, <2>4
<1>9. ASSUME NEW m \in Sent, M!WriteSent(m) PROVE MessageInv'
  <2>1. M!TypeOK'
    BY <1>9 DEF M!WriteSent, MessageInv, M!queueVars
  <2> QED
    BY <1>9, <2>1, OneMessage DEF M!WriteSent, M!queueVars, MessageInv, MessageLeft, MessageHeld,
       MessageTold, MessagePaced, M!HandedOut
<1>10. ASSUME NEW m \in Sent, M!WriteFailed(m) PROVE MessageInv'
  <2>1. M!TypeOK' /\ \A o \in Sent \ {m} : MessageKept(o)
    BY <1>10, MessageQueue DEF M!WriteFailed, MessageInv
  <2>2. Left(mPlace'[m], mTries'[m], mStalls'[m], SendAttempts)
    BY <1>10, MessageQueue DEF M!WriteFailed
  <2>3. /\ mPlace[m] = "active" /\ mPlace'[m] \in {"waiting", "failed"}
        /\ mTries'[m] = mTries[m] + 1 /\ mStalls'[m] = mStalls[m]
        /\ mTries[m] \in Nat /\ mStalls[m] \in Nat
    BY <1>10 DEF M!WriteFailed, M!Throws, MessageInv
  <2>4. accepted'[m] = accepted[m] /\ accepted[m] \in Nat /\ accepted[m] <= mTries[m] + mStalls[m] + 1
    BY <1>10 DEF M!WriteFailed, MessageInv, MessagePaced, M!HandedOut
  <2>5. /\ accepted'[m] <= mTries'[m] + mStalls'[m] + 1
        /\ accepted'[m] < mTries'[m] + mStalls'[m] + 1
    BY <2>3, <2>4
  <2> QED
    BY <1>10, <2>1, <2>2, <2>3, <2>5, OneMessage DEF M!WriteFailed, MessageInv, MessageHeld, MessageTold
<1>11. ASSUME NEW m \in Sent, M!Finish(m) PROVE MessageInv'
  <2>1. M!Moves(m, "active", "completed")
    BY <1>11 DEF M!Finish, M!Completes
  <2>2. M!TypeOK' /\ \A o \in Sent \ {m} : MessageKept(o)
    BY <1>11, <2>1, MessageQueue DEF M!Finish, MessageInv
  <2>3. Left(mPlace'[m], mTries'[m], mStalls'[m], SendAttempts)
    BY <2>1, MessageQueue
  <2> QED
    BY <1>11, <2>1, <2>2, <2>3, OneMessage
       DEF M!Finish, M!Moves, MessageInv, MessageHeld, MessageTold, MessagePaced, M!HandedOut
<1>12. ASSUME NEW m \in Sent, M!WorkerDies(m) PROVE MessageInv'
  <2>1. M!TypeOK' /\ \A o \in Sent \ {m} : MessageKept(o)
    BY <1>12, MessageQueue DEF M!WorkerDies, MessageInv
  <2>2. Left(mPlace'[m], mTries'[m], mStalls'[m], SendAttempts)
    BY <1>12, MessageQueue DEF M!WorkerDies
  <2>3. /\ mPlace[m] = "active" /\ mPlace'[m] \in {"waiting", "failed"}
        /\ mTries'[m] = mTries[m] /\ mStalls'[m] = mStalls[m] + 1
        /\ mTries[m] \in Nat /\ mStalls[m] \in Nat
    BY <1>12 DEF M!WorkerDies, M!Dies, MessageInv
  <2>4. accepted'[m] = accepted[m] /\ accepted[m] \in Nat /\ accepted[m] <= mTries[m] + mStalls[m] + 1
    BY <1>12 DEF M!WorkerDies, MessageInv, MessagePaced, M!HandedOut
  <2>5. /\ accepted'[m] <= mTries'[m] + mStalls'[m] + 1
        /\ accepted'[m] < mTries'[m] + mStalls'[m] + 1
    BY <2>3, <2>4
  <2> QED
    BY <1>12, <2>1, <2>2, <2>3, <2>5, OneMessage DEF M!WorkerDies, MessageInv, MessageHeld, MessageTold
<1>13. CASE UNCHANGED M!vars
  BY <1>13 DEF M!vars, M!queueVars, MessageInv, MessageLeft, MessageHeld, MessageTold,
     MessagePaced, M!HandedOut
<1> QED
  BY <1>1, <1>2, <1>3, <1>4, <1>5, <1>6, <1>7, <1>8, <1>9, <1>10, <1>11, <1>12, <1>13
     DEF M!Next, M!Work, M!Refuse, M!WriteSentFails

\* The inductive invariant of Messages.
THEOREM MessageInvariant == M!Spec => []MessageInv
  BY MessageInit, MessageStep, PTL DEF M!Spec

\* A completed job has sent its message, and SENT is true, whichever update fails.
THEOREM CompletedAreSent == M!Spec => []M!CompletedIsSent
<1>1. MessageInv => M!CompletedIsSent
  BY DEF MessageInv, MessageTold, M!CompletedIsSent
<1> QED
  BY <1>1, MessageInvariant, PTL

\* A message goes out at most once for each time its job is handed out.
THEOREM SendsAreBounded == M!Spec => []M!SendsBounded
<1>1. MessageInv => M!SendsBounded
  BY DEF MessageInv, MessagePaced, M!SendsBounded
<1> QED
  BY <1>1, MessageInvariant, PTL

(* What the attempts of a job allow, and what the source's columns of one never do. *)

SendsLimited == \A m \in Sent : accepted[m] <= SendAttempts + 1

\* However updates of the row fail and workers die, a message goes out at most once
\* for each attempt of its job and once for a worker that died.
THEOREM SendsAreLimited == M!Spec => []SendsLimited
<1>1. M!Init => SendsLimited
  BY QueueConstants DEF M!Init, SendsLimited
<1>2. MessageInv /\ SendsLimited /\ [M!Next]_(M!vars) => SendsLimited'
  <2> SUFFICES ASSUME MessageInv, SendsLimited, [M!Next]_(M!vars) PROVE SendsLimited'
    OBVIOUS
  <2>1. ASSUME NEW m \in Sent, M!Accept(m) PROVE SendsLimited'
    <3>1. mPlace[m] = "active" /\ accepted[m] < mTries[m] + mStalls[m] + 1
      BY <2>1 DEF M!Accept, MessageInv, MessageHeld, MessagePaced, M!HandedOut
    <3>2. mTries[m] < SendAttempts /\ mStalls[m] < 2
      BY <3>1 DEF MessageInv, MessageLeft, Left
    <3>3. mTries[m] \in Nat /\ mStalls[m] \in Nat /\ accepted \in [Sent -> Nat]
      BY DEF MessageInv, M!TypeOK, M!QueueTypeOK
    <3>4. accepted[m] + 1 <= SendAttempts + 1
      BY <3>1, <3>2, <3>3, QueueConstants
    <3>5. accepted' = [accepted EXCEPT ![m] = @ + 1]
      BY <2>1 DEF M!Accept
    <3> QED
      BY <3>3, <3>4, <3>5 DEF SendsLimited
  <2>2. UNCHANGED accepted \/ \E m \in Sent : M!Accept(m)
    BY DEF M!Next, M!Work, M!vars, M!Create, M!Enqueue, M!Delete, M!DeleteTemplate, M!Start, M!NoBody,
           M!Refuse, M!WriteSent, M!WriteSentFails, M!WriteFailed, M!Finish, M!WorkerDies
  <2>3. UNCHANGED accepted => SendsLimited'
    BY DEF SendsLimited
  <2> QED
    BY <2>1, <2>2, <2>3
<1> QED
  BY <1>1, <1>2, MessageInvariant, PTL DEF M!Spec

DirectEmails == (Sent \ Texts) \ Templated

DirectEmailsStay ==
  \A m \in DirectEmails :
    accepted[m] = 0 /\ row[m] \notin {"SENT", "FAILED"} /\ mPlace[m] # "completed"

\* A mail of sendEmail never goes out, and its row never says so: it stays QUEUED,
\* for the worker gives the job up without an update when it finds no body.
THEOREM DirectEmailsNeverGoOut == M!Spec => []DirectEmailsStay
<1> DEFINE Unread == \A m \in DirectEmails :
                       accepted[m] = 0 /\ sendStage[m] # "failing" /\ row[m] # "FAILED"
<1>1. M!Init => Unread
  BY DEF M!Init, DirectEmails
<1>2. MessageInv /\ Unread /\ [M!Next]_(M!vars) => Unread'
  <2> SUFFICES ASSUME MessageInv, Unread, [M!Next]_(M!vars), NEW m \in DirectEmails
               PROVE  accepted'[m] = 0 /\ sendStage'[m] # "failing" /\ row'[m] # "FAILED"
    BY DEF DirectEmails
  <2>1. m \in Sent /\ m \notin Texts /\ m \notin Templated
    BY DEF DirectEmails
  <2>2. /\ accepted \in [Sent -> Nat] /\ row \in [Sent -> {"none", "QUEUED", "SENT", "FAILED", "deleted"}]
        /\ sendStage \in [Sent -> {"idle", "adding", "sending", "accepted", "failing", "written"}]
    BY DEF MessageInv, M!TypeOK
  <2>3. ASSUME NEW o \in Sent, M!Accept(o) PROVE o # m
    BY <2>1, <2>3 DEF M!Accept, M!HasBody
  <2>4. ASSUME NEW o \in Sent, M!WriteFailed(o) PROVE o # m
    BY <2>1, <2>4 DEF M!WriteFailed
  <2>5. ASSUME NEW o \in Sent, M!Fails(o) PROVE o # m \/ sendStage'[m] = "idle"
    BY <2>1, <2>2, <2>5 DEF M!Fails, M!Goes
  <2>6. ASSUME NEW o \in Sent, M!Accept(o) \/ M!WriteFailed(o)
        PROVE  accepted'[m] = 0 /\ sendStage'[m] # "failing" /\ row'[m] # "FAILED"
    BY <2>1, <2>2, <2>3, <2>4, <2>6 DEF M!Accept, M!WriteFailed, M!Goes, M!Writes
  <2>7. ASSUME NEW o \in Sent, M!Refuse(o) \/ M!WriteSentFails(o)
        PROVE  accepted'[m] = 0 /\ sendStage'[m] # "failing" /\ row'[m] # "FAILED"
    <3>1. M!Fails(o) /\ UNCHANGED <<row, accepted>>
      BY <2>7 DEF M!Refuse, M!WriteSentFails
    <3>2. sendStage'[m] # "failing"
      BY <2>1, <2>2, <2>5, <3>1 DEF M!Fails, M!Goes
    <3> QED
      BY <3>1, <3>2
  <2>8. ASSUME NEW o \in Sent,
               \/ M!Create(o) \/ M!Enqueue(o) \/ M!Delete(o) \/ M!Start(o) \/ M!NoBody(o)
               \/ M!WriteSent(o) \/ M!Finish(o) \/ M!WorkerDies(o)
        PROVE  accepted'[m] = 0 /\ sendStage'[m] # "failing" /\ row'[m] # "FAILED"
    BY <2>1, <2>2, <2>8 DEF M!Create, M!Enqueue, M!Delete, M!Start, M!NoBody, M!WriteSent, M!Finish,
       M!WorkerDies, M!Goes, M!Writes
  <2>9. CASE M!DeleteTemplate \/ UNCHANGED M!vars
    BY <2>9 DEF M!DeleteTemplate, M!vars
  <2> QED
    BY <2>6, <2>7, <2>8, <2>9 DEF M!Next, M!Work
<1>3. MessageInv /\ Unread => DirectEmailsStay
  BY DEF MessageInv, MessageTold, M!TypeOK, DirectEmailsStay, DirectEmails
<1> HIDE DEF Unread
<1> QED
  BY <1>1, <1>2, <1>3, MessageInvariant, PTL DEF M!Spec

-----------------------------------------------------------------------------

(* Webhooks.                                                               *)

LEMMA PostCardinality == ASSUME NEW S PROVE W!Cardinality(S) = Cardinality(S)
  BY DEF W!Cardinality, Cardinality

LEMMA PostInit == W!Init => PostInv
<1> SUFFICES ASSUME W!Init PROVE PostInv
  OBVIOUS
<1> USE DEF W!Init, W!QueueInit
<1>1. W!QueueTypeOK /\ PostLeft
  BY QueueConstants DEF W!QueueTypeOK, PostLeft, Left, W!Over
<1>2. W!TypeOK
  BY <1>1 DEF W!TypeOK
<1>3. OnePosting /\ PostHeld /\ TurnsRecorded /\ IsFiniteSet(deliveries)
  BY FS_EmptySet DEF OnePosting, PostHeld, TurnsRecorded
<1>4. FailuresCounted
  <2>1. \A h \in Hooks : W!FailedDeliveries(h) = {}
    BY DEF W!FailedDeliveries
  <2>2. Cardinality({}) = 0
    BY FS_EmptySet
  <2> QED
    BY <2>1, <2>2 DEF FailuresCounted
<1> QED
  BY <1>1, <1>2, <1>3, <1>4 DEF PostInv

\* The queue's own steps.
LEMMA PostQueue ==
  ASSUME PostInv, NEW j \in Posts,
         \/ \E from \in {"none", "waiting", "active"},
               to \in {"waiting", "active", "completed", "failed"} : W!Moves(j, from, to)
         \/ W!Throws(j) \/ W!Dies(j)
  PROVE  /\ W!QueueTypeOK' /\ PostLeft'
         /\ \A o \in Posts \ {j} :
              wPlace'[o] = wPlace[o] /\ wTries'[o] = wTries[o] /\ wStalls'[o] = wStalls[o]
<1> USE QueueConstants DEF PostInv, W!TypeOK, W!QueueTypeOK, PostLeft, Left, W!Over
<1>1. CASE \E from \in {"none", "waiting", "active"},
              to \in {"waiting", "active", "completed", "failed"} : W!Moves(j, from, to)
  BY <1>1 DEF W!Moves
<1>2. CASE W!Throws(j)
  BY <1>2 DEF W!Throws
<1>3. CASE W!Dies(j)
  BY <1>3 DEF W!Dies
<1> QED
  BY <1>1, <1>2, <1>3

\* The failed deliveries of a webhook are finitely many.
LEMMA FailedFinite ==
  ASSUME PostInv, NEW h \in Hooks
  PROVE  IsFiniteSet(W!FailedDeliveries(h)) /\ Cardinality(W!FailedDeliveries(h)) \in Nat
<1>1. W!FailedDeliveries(h) \subseteq deliveries
  BY DEF W!FailedDeliveries
<1> QED
  BY <1>1, FS_Subset, FS_CardinalityType DEF PostInv

\* Steps that change where a job is and let its deliveries rest.
LEMMA PostMoves ==
  ASSUME PostInv, NEW j \in Posts,
         \/ \E from \in {"none", "waiting", "active"},
               to \in {"waiting", "active", "completed", "failed"} :
              W!Moves(j, from, to) /\ (from = "active" => to = "completed")
                /\ (from # "active" => to \in {"waiting", "active"})
                /\ (to = "active" => from = "waiting" /\ \A o \in Posts : wPlace[o] # "active")
         \/ W!Throws(j) \/ W!Dies(j),
         sending' = [sending EXCEPT ![j] = [h \in Hooks |-> "idle"]],
         UNCHANGED <<hook, failures, deliveries>>
  PROVE  PostInv'
<1>1. W!QueueTypeOK' /\ PostLeft'
      /\ \A o \in Posts \ {j} :
           wPlace'[o] = wPlace[o] /\ wTries'[o] = wTries[o] /\ wStalls'[o] = wStalls[o]
  BY PostQueue
<1>2. W!TypeOK'
  BY <1>1 DEF PostInv, W!TypeOK
<1>3. \/ wPlace[j] # "completed" /\ wPlace[j] # "failed" /\ W!HandedOut(j)' = W!HandedOut(j)
         /\ wPlace'[j] \in {"waiting", "active", "completed"}
         /\ (wPlace'[j] = "active" => wPlace[j] = "waiting" /\ \A o \in Posts : wPlace[o] # "active")
         /\ (wPlace'[j] = "waiting" => wPlace[j] \in {"none", "waiting"})
      \/ wPlace[j] = "active" /\ wPlace'[j] \in {"waiting", "failed"} /\ W!HandedOut(j)' = W!HandedOut(j) + 1
  BY DEF PostInv, W!TypeOK, W!QueueTypeOK, W!Moves, W!Throws, W!Dies, W!HandedOut
<1>4. OnePosting'
  BY <1>1, <1>3 DEF PostInv, OnePosting
<1>5. PostHeld'
  BY <1>1 DEF PostInv, PostHeld, W!TypeOK
<1>6. TurnsRecorded'
  <2> SUFFICES ASSUME NEW d \in deliveries
               PROVE  /\ d.turn <= W!HandedOut(d.job)'
                      /\ d.turn = W!HandedOut(d.job)' =>
                           \/ wPlace'[d.job] \in {"completed", "failed"}
                           \/ /\ wPlace'[d.job] = "active"
                              /\ sending'[d.job][d.hook] \in {"takenLogged", "refusedLogged", "settled"}
    BY DEF TurnsRecorded
  <2>1. d.job \in Posts /\ d.hook \in Hooks /\ d.turn \in Nat
    BY DEF PostInv, W!TypeOK, W!Delivery
  <2>2. W!HandedOut(d.job) \in Nat
    BY <2>1 DEF W!HandedOut, PostInv, W!TypeOK, W!QueueTypeOK
  <2>3. d.turn <= W!HandedOut(d.job)
        /\ (d.turn = W!HandedOut(d.job) =>
              \/ wPlace[d.job] \in {"completed", "failed"}
              \/ /\ wPlace[d.job] = "active"
                 /\ sending[d.job][d.hook] \in {"takenLogged", "refusedLogged", "settled"})
    BY DEF PostInv, TurnsRecorded
  <2>4. CASE d.job # j
    <3>1. W!HandedOut(d.job)' = W!HandedOut(d.job) /\ wPlace'[d.job] = wPlace[d.job]
          /\ sending'[d.job] = sending[d.job]
      BY <1>1, <2>1, <2>4 DEF W!HandedOut, PostInv, W!TypeOK
    <3> QED
      BY <2>3, <3>1
  <2>5. CASE d.job = j
    BY <1>3, <2>1, <2>2, <2>3, <2>5
  <2> QED
    BY <2>4, <2>5
<1>7. FailuresCounted'
  <2>1. \A h \in Hooks : W!FailedDeliveries(h)' = W!FailedDeliveries(h)
    BY DEF W!FailedDeliveries
  <2>2. \A o \in Posts : \A h \in Hooks : sending'[o][h] = "refusedLogged" => sending[o][h] = "refusedLogged"
    BY DEF PostInv, W!TypeOK
  <2> QED
    BY <2>1, <2>2 DEF PostInv, FailuresCounted
<1> QED
  BY <1>1, <1>2, <1>4, <1>5, <1>6, <1>7 DEF PostInv

\* Steps of one delivery that leave the records alone.
LEMMA DeliveryGoes ==
  ASSUME PostInv, NEW j \in Posts, wPlace[j] = "active",
         NEW line \in [Hooks -> {"idle", "posting", "taken", "refused", "takenLogged", "refusedLogged", "settled"}],
         sending' = [sending EXCEPT ![j] = line],
         \A h \in Hooks :
           \/ line[h] = sending[j][h]
           \/ line[h] = "settled"
           \/ line[h] \in {"posting", "taken", "refused"} /\ sending[j][h] \in {"idle", "posting"},
         UNCHANGED <<wPlace, wTries, wStalls, hook, deliveries>>,
         failures' \in [Hooks -> Nat],
         \A h \in Hooks :
           \/ failures'[h] = failures[h]
           \/ failures'[h] = 0
           \/ /\ failures'[h] = failures[h] + 1 /\ sending[j][h] = "refusedLogged"
              /\ line[h] = "settled" /\ hook[h] # "deleted"
  PROVE  PostInv'
<1>1. W!TypeOK' /\ PostLeft' /\ OnePosting' /\ IsFiniteSet(deliveries)'
  BY DEF PostInv, W!TypeOK, W!QueueTypeOK, PostLeft, OnePosting
<1>2. PostHeld'
  BY DEF PostInv, PostHeld, W!TypeOK
<1>3. sending'[j] = line /\ \A o \in Posts \ {j} : sending'[o] = sending[o]
  BY DEF PostInv, W!TypeOK
<1>4. TurnsRecorded'
  <2> SUFFICES ASSUME NEW d \in deliveries
               PROVE  /\ d.turn <= W!HandedOut(d.job)
                      /\ d.turn = W!HandedOut(d.job) =>
                           \/ wPlace[d.job] \in {"completed", "failed"}
                           \/ /\ wPlace[d.job] = "active"
                              /\ sending'[d.job][d.hook] \in {"takenLogged", "refusedLogged", "settled"}
    BY DEF TurnsRecorded, W!HandedOut
  <2>1. d.job \in Posts /\ d.hook \in Hooks
    BY DEF PostInv, W!TypeOK, W!Delivery
  <2> QED
    BY <1>3, <2>1 DEF PostInv, TurnsRecorded
<1>5. FailuresCounted'
  <2> SUFFICES ASSUME NEW h \in Hooks
               PROVE  /\ failures'[h] <= Cardinality(W!FailedDeliveries(h))
                      /\ \A o \in Posts : sending'[o][h] = "refusedLogged" /\ hook[h] # "deleted" =>
                           failures'[h] + 1 <= Cardinality(W!FailedDeliveries(h))
    BY DEF FailuresCounted, W!FailedDeliveries
  <2> DEFINE n == Cardinality(W!FailedDeliveries(h))
  <2>1. n \in Nat /\ failures[h] \in Nat
    BY FailedFinite DEF PostInv, W!TypeOK
  <2>2. failures[h] <= n
        /\ \A o \in Posts : sending[o][h] = "refusedLogged" /\ hook[h] # "deleted" => failures[h] + 1 <= n
    BY DEF PostInv, FailuresCounted
  <2> HIDE DEF n
  <2>3. \A o \in Posts : sending'[o][h] = "refusedLogged" => sending[o][h] = "refusedLogged"
    BY <1>3
  <2>4. failures'[h] <= n
    BY <2>1, <2>2
  <2>5. ASSUME NEW o \in Posts, sending'[o][h] = "refusedLogged", hook[h] # "deleted"
        PROVE  failures'[h] + 1 <= n
    <3>1. sending[o][h] = "refusedLogged" /\ failures[h] + 1 <= n
      BY <2>2, <2>3, <2>5
    <3>2. wPlace[o] = "active"
      BY <3>1 DEF PostInv, PostHeld
    <3>3. o = j
      BY <3>2 DEF PostInv, OnePosting
    <3>4. line[h] = "refusedLogged"
      BY <1>3, <2>5, <3>3
    <3> QED
      BY <2>1, <3>1, <3>4
  <2> QED
    BY <2>4, <2>5 DEF n
<1> QED
  BY <1>1, <1>2, <1>4, <1>5 DEF PostInv

\* A delivery is recorded: the first one of its turn.
LEMMA DeliveryRecorded == ASSUME PostInv, NEW j \in Posts, NEW h \in Hooks, W!Record(j, h) PROVE PostInv'
<1> DEFINE good == sending[j][h] = "taken"
           new == [job |-> j, hook |-> h, turn |-> W!HandedOut(j), success |-> good]
<1>1. /\ sending[j][h] \in {"taken", "refused"} /\ hook[h] # "deleted"
      /\ deliveries' = deliveries \cup {new}
      /\ sending' = [sending EXCEPT ![j][h] = IF good THEN "takenLogged" ELSE "refusedLogged"]
      /\ UNCHANGED <<wPlace, wTries, wStalls, hook, failures>>
  BY DEF W!Record, W!Goes, W!queueVars
<1>2. wPlace[j] = "active"
  BY <1>1 DEF PostInv, PostHeld
<1>3. W!HandedOut(j) \in Nat
  BY DEF W!HandedOut, PostInv, W!TypeOK, W!QueueTypeOK
<1>4. new \in W!Delivery /\ new.job = j /\ new.hook = h /\ new.turn = W!HandedOut(j) /\ new.success = good
  BY <1>3 DEF W!Delivery
<1>5. new \notin deliveries
  BY <1>1, <1>2, <1>4 DEF PostInv, TurnsRecorded
<1>6. /\ \A o \in Posts \ {j} : sending'[o] = sending[o]
      /\ \A g \in Hooks \ {h} : sending'[j][g] = sending[j][g]
      /\ sending'[j][h] = IF good THEN "takenLogged" ELSE "refusedLogged"
  BY <1>1 DEF PostInv, W!TypeOK
<1> HIDE DEF new, good
<1>7. W!TypeOK' /\ PostLeft' /\ OnePosting'
  <2>1. W!QueueTypeOK' /\ PostLeft' /\ OnePosting'
    BY <1>1 DEF PostInv, W!TypeOK, W!QueueTypeOK, PostLeft, OnePosting
  <2>2. sending' \in [Posts -> [Hooks ->
           {"idle", "posting", "taken", "refused", "takenLogged", "refusedLogged", "settled"}]]
    BY <1>1 DEF PostInv, W!TypeOK
  <2> QED
    BY <1>1, <1>4, <2>1, <2>2 DEF PostInv, W!TypeOK
<1>8. PostHeld'
  BY <1>1, <1>2, <1>6 DEF PostInv, PostHeld
<1>9. TurnsRecorded'
  <2> SUFFICES ASSUME NEW d \in deliveries \cup {new}
               PROVE  /\ d.turn <= W!HandedOut(d.job)
                      /\ d.turn = W!HandedOut(d.job) =>
                           \/ wPlace[d.job] \in {"completed", "failed"}
                           \/ /\ wPlace[d.job] = "active"
                              /\ sending'[d.job][d.hook] \in {"takenLogged", "refusedLogged", "settled"}
    BY <1>1 DEF TurnsRecorded, W!HandedOut
  <2>1. CASE d = new
    BY <1>2, <1>3, <1>4, <1>6, <2>1
  <2>2. CASE d \in deliveries
    <3>1. d.job \in Posts /\ d.hook \in Hooks
      BY <2>2 DEF PostInv, W!TypeOK, W!Delivery
    <3> QED
      BY <1>6, <2>2, <3>1 DEF PostInv, TurnsRecorded
  <2> QED
    BY <2>1, <2>2
<1>10. IsFiniteSet(deliveries')
  BY <1>1, FS_AddElement DEF PostInv
<1>11. FailuresCounted'
  <2> SUFFICES ASSUME NEW g \in Hooks
               PROVE  /\ failures[g] <= Cardinality(W!FailedDeliveries(g)')
                      /\ \A o \in Posts : sending'[o][g] = "refusedLogged" /\ hook[g] # "deleted" =>
                           failures[g] + 1 <= Cardinality(W!FailedDeliveries(g)')
    BY <1>1 DEF FailuresCounted
  <2> DEFINE n == Cardinality(W!FailedDeliveries(g))
             m == Cardinality(W!FailedDeliveries(g)')
  <2>1. n \in Nat /\ failures[g] \in Nat /\ IsFiniteSet(W!FailedDeliveries(g))
    BY FailedFinite DEF PostInv, W!TypeOK
  <2>2. failures[g] <= n
        /\ \A o \in Posts : sending[o][g] = "refusedLogged" /\ hook[g] # "deleted" => failures[g] + 1 <= n
    BY DEF PostInv, FailuresCounted
  <2>3. CASE g = h /\ ~good
    <3>1. W!FailedDeliveries(g)' = W!FailedDeliveries(g) \cup {new}
      BY <1>1, <1>4, <2>3 DEF W!FailedDeliveries
    <3>2. new \notin W!FailedDeliveries(g)
      BY <1>5 DEF W!FailedDeliveries
    <3>3. m = n + 1
      BY <2>1, <3>1, <3>2, FS_AddElement
    <3> HIDE DEF n, m
    <3>4. failures[g] <= m /\ failures[g] + 1 <= m
      BY <2>1, <2>2, <3>3
    <3> QED
      BY <3>4 DEF m
  <2>4. CASE ~(g = h /\ ~good)
    <3>1. W!FailedDeliveries(g)' = W!FailedDeliveries(g)
      BY <1>1, <1>4, <2>4 DEF W!FailedDeliveries
    <3>2. \A o \in Posts : sending'[o][g] = "refusedLogged" => sending[o][g] = "refusedLogged"
      BY <1>6, <2>4
    <3> QED
      BY <2>2, <3>1, <3>2
  <2> QED
    BY <2>3, <2>4
<1> QED
  BY <1>7, <1>8, <1>9, <1>10, <1>11 DEF PostInv

LEMMA PostStep == PostInv /\ [W!Next]_(W!vars) => PostInv'
<1> SUFFICES ASSUME PostInv, [W!Next]_(W!vars) PROVE PostInv'
  OBVIOUS
<1>1. ASSUME NEW h \in Hooks, W!Toggle(h) PROVE PostInv'
  <2>1. /\ hook[h] # "deleted" /\ hook' = [hook EXCEPT ![h] = IF @ = "active" THEN "inactive" ELSE "active"]
        /\ UNCHANGED <<wPlace, wTries, wStalls, failures, deliveries, sending>>
    BY <1>1 DEF W!Toggle, W!queueVars
  <2>2. W!TypeOK' /\ PostLeft' /\ OnePosting' /\ PostHeld' /\ TurnsRecorded'
    BY <2>1 DEF PostInv, W!TypeOK, W!QueueTypeOK, PostLeft, OnePosting, PostHeld, TurnsRecorded, W!HandedOut
  <2>3. \A g \in Hooks : hook'[g] # "deleted" => hook[g] # "deleted"
    BY <2>1 DEF PostInv, W!TypeOK
  <2>4. FailuresCounted'
    BY <2>1, <2>3 DEF PostInv, FailuresCounted, W!FailedDeliveries
  <2> QED
    BY <2>1, <2>2, <2>4 DEF PostInv
<1>2. ASSUME NEW h \in Hooks, W!Delete(h) PROVE PostInv'
  <2>1. /\ hook' = [hook EXCEPT ![h] = "deleted"]
        /\ failures' = [failures EXCEPT ![h] = 0]
        /\ deliveries' = {d \in deliveries : d.hook # h}
        /\ UNCHANGED <<wPlace, wTries, wStalls, sending>>
    BY <1>2 DEF W!Delete, W!queueVars
  <2>2. W!TypeOK' /\ PostLeft' /\ OnePosting' /\ PostHeld'
    BY <2>1 DEF PostInv, W!TypeOK, W!QueueTypeOK, PostLeft, OnePosting, PostHeld
  <2>3. TurnsRecorded'
    BY <2>1 DEF PostInv, TurnsRecorded, W!HandedOut
  <2>4. IsFiniteSet(deliveries')
    BY <2>1, FS_Subset DEF PostInv
  <2>5. FailuresCounted'
    <3> SUFFICES ASSUME NEW g \in Hooks
                 PROVE  /\ failures'[g] <= Cardinality(W!FailedDeliveries(g)')
                        /\ \A o \in Posts : sending[o][g] = "refusedLogged" /\ hook'[g] # "deleted" =>
                             failures'[g] + 1 <= Cardinality(W!FailedDeliveries(g)')
      BY <2>1 DEF FailuresCounted
    <3>1. CASE g # h
      <4>1. W!FailedDeliveries(g)' = W!FailedDeliveries(g)
        BY <2>1, <3>1 DEF W!FailedDeliveries
      <4> QED
        BY <2>1, <3>1, <4>1 DEF PostInv, FailuresCounted, W!TypeOK
    <3>2. CASE g = h
      <4>1. W!FailedDeliveries(g)' = {}
        BY <2>1, <3>2 DEF W!FailedDeliveries
      <4>2. failures'[g] = 0 /\ hook'[g] = "deleted"
        BY <2>1, <3>2 DEF PostInv, W!TypeOK
      <4>3. Cardinality({}) = 0
        BY FS_EmptySet
      <4> QED
        BY <4>1, <4>2, <4>3
    <3> QED
      BY <3>1, <3>2
  <2> QED
    BY <2>2, <2>3, <2>4, <2>5 DEF PostInv
<1>3. ASSUME NEW j \in Posts, wPlace[j] \in {"none", "waiting"} PROVE W!Idle(j)
  BY <1>3 DEF PostInv, PostHeld, W!Idle
<1>4. ASSUME NEW j \in Posts, W!Idle(j), UNCHANGED sending
      PROVE  sending' = [sending EXCEPT ![j] = [h \in Hooks |-> "idle"]]
  BY <1>4 DEF W!Idle, PostInv, W!TypeOK
<1>5. ASSUME NEW j \in Posts, W!Announce(j) \/ W!RetryDelivery(j) PROVE PostInv'
  <2>1. W!Moves(j, "none", "waiting") /\ wPlace[j] = "none" /\ UNCHANGED <<hook, failures, deliveries, sending>>
    BY <1>5 DEF W!Announce, W!RetryDelivery, W!Add, W!Moves
  <2> QED
    BY <1>3, <1>4, <2>1, PostMoves
<1>6. ASSUME NEW j \in Posts, W!Start(j) PROVE PostInv'
  <2>1. /\ W!Moves(j, "waiting", "active") /\ wPlace[j] = "waiting"
        /\ \A o \in Posts : wPlace[o] # "active"
        /\ UNCHANGED <<hook, failures, deliveries, sending>>
    BY <1>6 DEF W!Start, W!TakeOneOf, W!Moves
  <2> QED
    BY <1>3, <1>4, <2>1, PostMoves
<1>7. ASSUME NEW j \in Posts, W!FindFails(j) PROVE PostInv'
  <2>1. W!Throws(j) /\ W!Idle(j) /\ UNCHANGED <<hook, failures, deliveries, sending>>
    BY <1>7 DEF W!FindFails
  <2> QED
    BY <1>4, <2>1, PostMoves
<1>8. ASSUME NEW j \in Posts, W!Finish(j) PROVE PostInv'
  <2>1. W!Moves(j, "active", "completed") /\ sending' = [sending EXCEPT ![j] = [h \in Hooks |-> "idle"]]
        /\ UNCHANGED <<hook, failures, deliveries>>
    BY <1>8 DEF W!Finish, W!Completes, W!Rests
  <2> QED
    BY <2>1, PostMoves
<1>9. ASSUME NEW j \in Posts, W!WorkerDies(j) PROVE PostInv'
  BY <1>9, PostMoves DEF W!WorkerDies, W!Rests
<1>10. ASSUME NEW j \in Posts, W!FindHooks(j) PROVE PostInv'
  <2> DEFINE line == [h \in Hooks |-> IF h \in W!Found(j) THEN "posting" ELSE "settled"]
  <2>1. /\ wPlace[j] = "active" /\ W!Idle(j) /\ sending' = [sending EXCEPT ![j] = line]
        /\ UNCHANGED <<wPlace, wTries, wStalls, hook, failures, deliveries>>
    BY <1>10 DEF W!FindHooks, W!queueVars
  <2>2. /\ line \in [Hooks -> {"idle", "posting", "taken", "refused", "takenLogged", "refusedLogged", "settled"}]
        /\ \A h \in Hooks : line[h] \in {"posting", "settled"} /\ sending[j][h] = "idle"
    BY <2>1 DEF W!Idle
  <2>3. failures \in [Hooks -> Nat]
    BY DEF PostInv, W!TypeOK
  <2> HIDE DEF line
  <2> QED
    BY <2>1, <2>2, <2>3, DeliveryGoes
<1>11. ASSUME NEW j \in Posts, NEW h \in Hooks, W!Post(j, h) \/ W!Reject(j, h) \/ W!Count(j, h) PROVE PostInv'
  <2> DEFINE line == sending'[j]
  <2>1. PICK next \in {"taken", "refused", "settled"} :
          /\ sending' = [sending EXCEPT ![j][h] = next]
          /\ next # "settled" => sending[j][h] = "posting"
          /\ sending[j][h] # "idle"
    BY <1>11 DEF W!Post, W!Reject, W!Count, W!Goes
  <2>2. /\ line \in [Hooks -> {"idle", "posting", "taken", "refused", "takenLogged", "refusedLogged", "settled"}]
        /\ line[h] = next /\ \A g \in Hooks \ {h} : line[g] = sending[j][g]
        /\ sending' = [sending EXCEPT ![j] = line]
    BY <2>1 DEF PostInv, W!TypeOK
  <2>3. wPlace[j] = "active" /\ UNCHANGED <<wPlace, wTries, wStalls, hook, deliveries>>
    BY <1>11, <2>1 DEF PostInv, PostHeld, W!Post, W!Reject, W!Count, W!queueVars
  <2>4. /\ failures' \in [Hooks -> Nat]
        /\ \A g \in Hooks :
             \/ failures'[g] = failures[g]
             \/ failures'[g] = 0
             \/ /\ failures'[g] = failures[g] + 1 /\ sending[j][g] = "refusedLogged"
                /\ line[g] = "settled" /\ hook[g] # "deleted"
    <3>1. failures \in [Hooks -> Nat]
      BY DEF PostInv, W!TypeOK
    <3>2. CASE W!Count(j, h)
      <4>1. /\ sending[j][h] \in {"takenLogged", "refusedLogged"} /\ hook[h] # "deleted"
            /\ failures' = [failures EXCEPT ![h] = IF sending[j][h] = "takenLogged" THEN 0 ELSE @ + 1]
        BY <3>2 DEF W!Count
      <4>2. next = "settled"
        BY <2>1, <4>1
      <4> HIDE DEF line
      <4> QED
        BY <2>2, <3>1, <4>1, <4>2
    <3>3. CASE W!Post(j, h) \/ W!Reject(j, h)
      BY <3>1, <3>3 DEF W!Post, W!Reject
    <3> QED
      BY <1>11, <3>2, <3>3
  <2>5. \A g \in Hooks :
          \/ line[g] = sending[j][g]
          \/ line[g] = "settled"
          \/ line[g] \in {"posting", "taken", "refused"} /\ sending[j][g] \in {"idle", "posting"}
    BY <2>1, <2>2
  <2> HIDE DEF line
  <2> QED
    BY <2>2, <2>3, <2>4, <2>5, DeliveryGoes
<1>12. CASE UNCHANGED W!vars
  BY <1>12 DEF W!vars, W!queueVars, PostInv, W!TypeOK, W!QueueTypeOK, PostLeft, OnePosting, PostHeld,
     TurnsRecorded, W!HandedOut, FailuresCounted, W!FailedDeliveries
<1> QED
  BY <1>1, <1>2, <1>5, <1>6, <1>7, <1>8, <1>9, <1>10, <1>11, <1>12, DeliveryRecorded DEF W!Next, W!Work

\* The inductive invariant of Webhooks.
THEOREM PostInvariant == W!Spec => []PostInv
  BY PostInit, PostStep, PTL DEF W!Spec

\* failureCount never tells of a failure that the deliveries do not show.
THEOREM FailuresAreShown == W!Spec => []W!FailuresAreRecorded
<1>1. PostInv => W!FailuresAreRecorded
  BY PostCardinality DEF PostInv, FailuresCounted, W!FailuresAreRecorded
<1> QED
  BY <1>1, PostInvariant, PTL

-----------------------------------------------------------------------------

(* Notifications.                                                          *)

LEMMA NoticeConstants == Requests \cap Notices = {} /\ NoCounter \notin Int
  BY QueuesAssumption DEF QueuesAssumption, N!NotificationAssumption

LEMMA NoticeCardinality == ASSUME NEW S PROVE N!Cardinality(S) = Cardinality(S)
  BY DEF N!Cardinality, Cardinality

\* The rows that are not read.
UnreadOf(set) == {n \in set : ~n.read}

LEMMA UnreadCounts ==
  ASSUME IsFiniteSet(rows)
  PROVE  /\ IsFiniteSet(UnreadOf(rows))
         /\ N!Unread = Cardinality(UnreadOf(rows)) /\ N!Unread \in Nat
<1>1. UnreadOf(rows) \subseteq rows
  BY DEF UnreadOf
<1>2. IsFiniteSet(UnreadOf(rows)) /\ Cardinality(UnreadOf(rows)) \in Nat
  BY <1>1, FS_Subset, FS_CardinalityType
<1>3. N!Unread = Cardinality(UnreadOf(rows))
  BY NoticeCardinality DEF N!Unread, UnreadOf
<1> QED
  BY <1>2, <1>3

LEMMA NoticeInit == N!Init => NoticeInv
<1> SUFFICES ASSUME N!Init PROVE NoticeInv
  OBVIOUS
<1> USE DEF N!Init, N!QueueInit
<1>1. N!QueueTypeOK /\ NoticeLeft
  BY QueueConstants DEF N!QueueTypeOK, NoticeLeft, Left, N!Over
<1>2. N!TypeOK
  BY <1>1 DEF N!TypeOK, N!Actors, N!Row
<1>3. NoticeHeld /\ RequestHeld
  BY DEF NoticeHeld, RequestHeld, N!Actors
<1>4. IsFiniteSet(rows) /\ OneRowPerTurn
  BY FS_EmptySet DEF OneRowPerTurn
<1>5. Told
  BY DEF Told, N!Actors
<1>6. Alone
  <2>1. N!Busy = {}
    BY DEF N!Busy
  <2> QED
    BY <2>1 DEF Alone, Exact
<1> QED
  BY <1>1, <1>2, <1>3, <1>4, <1>5, <1>6 DEF NoticeInv, NoticeRows

\* The queue's own steps.
LEMMA NoticeQueue ==
  ASSUME NoticeRows, NEW j \in Notices,
         \/ UNCHANGED N!queueVars
         \/ \E from \in {"none", "waiting", "active"},
               to \in {"waiting", "active", "completed", "failed"} : N!Moves(j, from, to)
         \/ N!Throws(j) \/ N!Dies(j)
  PROVE  /\ N!QueueTypeOK' /\ NoticeLeft'
         /\ \A o \in Notices \ {j} :
              nPlace'[o] = nPlace[o] /\ nTries'[o] = nTries[o] /\ nStalls'[o] = nStalls[o]
<1> USE QueueConstants DEF NoticeRows, N!TypeOK, N!QueueTypeOK, NoticeLeft, Left, N!Over
<1>1. CASE UNCHANGED N!queueVars
  BY <1>1 DEF N!queueVars
<1>2. CASE \E from \in {"none", "waiting", "active"},
              to \in {"waiting", "active", "completed", "failed"} : N!Moves(j, from, to)
  BY <1>2 DEF N!Moves
<1>3. CASE N!Throws(j)
  BY <1>3 DEF N!Throws
<1>4. CASE N!Dies(j)
  BY <1>4 DEF N!Dies
<1> QED
  BY <1>1, <1>2, <1>3, <1>4

\* Steps of the worker that leave the rows alone.
LEMMA NoticeMoves ==
  ASSUME NoticeRows, NEW j \in Notices, NEW next,
         countStage' = [countStage EXCEPT ![j] = next],
         UNCHANGED <<rows, at, counted>>,
         counter' \in Int \cup {NoCounter}, lasting' \in BOOLEAN, alone' \in BOOLEAN,
         \/ N!Moves(j, "none", "waiting") /\ next = countStage[j]
         \/ N!Moves(j, "waiting", "active") /\ next = "inserting"
         \/ /\ UNCHANGED N!queueVars
            /\ countStage[j] \in {"looking", "increasing"} /\ next \in {"increasing", "finishing"}
         \/ N!Moves(j, "active", "completed") /\ countStage[j] = "finishing" /\ next = "done"
         \/ N!Throws(j) /\ next = "idle"
         \/ N!Dies(j) /\ next = "idle"
  PROVE  NoticeRows'
<1>1. /\ N!QueueTypeOK' /\ NoticeLeft'
      /\ \A o \in Notices \ {j} :
           nPlace'[o] = nPlace[o] /\ nTries'[o] = nTries[o] /\ nStalls'[o] = nStalls[o]
  BY NoticeQueue
<1>2. \/ /\ nPlace[j] = "none" /\ nPlace'[j] = "waiting" /\ next = countStage[j]
         /\ N!HandedOut(j)' = N!HandedOut(j)
      \/ /\ nPlace[j] = "waiting" /\ nPlace'[j] = "active" /\ next = "inserting"
         /\ N!HandedOut(j)' = N!HandedOut(j)
      \/ /\ nPlace'[j] = nPlace[j] /\ N!HandedOut(j)' = N!HandedOut(j)
         /\ countStage[j] \in {"looking", "increasing"} /\ next \in {"increasing", "finishing"}
      \/ /\ nPlace[j] = "active" /\ nPlace'[j] = "completed" /\ N!HandedOut(j)' = N!HandedOut(j)
         /\ countStage[j] = "finishing" /\ next = "done"
      \/ /\ nPlace[j] = "active" /\ nPlace'[j] \in {"waiting", "failed"} /\ next = "idle"
         /\ N!HandedOut(j)' = N!HandedOut(j) + 1
  BY DEF NoticeRows, N!TypeOK, N!QueueTypeOK, N!Moves, N!Throws, N!Dies, N!HandedOut, N!queueVars
<1>3. /\ countStage'[j] = next
      /\ \A a \in N!Actors \ {j} : countStage'[a] = countStage[a]
      /\ Notices \subseteq N!Actors /\ Requests \subseteq N!Actors /\ j \notin Requests
  BY NoticeConstants DEF NoticeRows, N!TypeOK, N!Actors
<1>4. countStage[j] \in {"idle", "done", "inserting", "looking", "increasing", "finishing"}
      /\ (countStage[j] \notin {"idle", "done"} <=> nPlace[j] = "active")
  BY DEF NoticeRows, NoticeHeld
<1>5. next \in {"idle", "done", "inserting", "looking", "increasing", "finishing"}
      /\ (next \notin {"idle", "done"} <=> nPlace'[j] = "active")
  BY <1>2, <1>4
<1>6. N!TypeOK'
  BY <1>1, <1>5 DEF NoticeRows, N!TypeOK
<1>7. NoticeHeld' /\ RequestHeld'
  BY <1>1, <1>3, <1>5 DEF NoticeRows, NoticeHeld, RequestHeld
<1>8. OneRowPerTurn'
  <2>1. ASSUME NEW n \in rows
        PROVE  /\ 0 < n.turn /\ n.turn <= N!HandedOut(n.job)'
               /\ nPlace'[n.job] \in {"none", "waiting"} \/ countStage'[n.job] = "inserting" =>
                    n.turn < N!HandedOut(n.job)'
    <3>1. n.job \in Notices /\ n.turn \in Nat /\ N!HandedOut(n.job) \in Nat
      BY DEF NoticeRows, N!TypeOK, N!QueueTypeOK, N!Row, N!HandedOut
    <3>2. /\ 0 < n.turn /\ n.turn <= N!HandedOut(n.job)
          /\ nPlace[n.job] \in {"none", "waiting"} \/ countStage[n.job] = "inserting" =>
               n.turn < N!HandedOut(n.job)
      BY DEF NoticeRows, OneRowPerTurn
    <3>3. CASE n.job # j
      <4>1. N!HandedOut(n.job)' = N!HandedOut(n.job)
        BY <1>1, <3>1, <3>3 DEF N!HandedOut
      <4> QED
        BY <1>1, <1>3, <3>1, <3>2, <3>3, <4>1
    <3>4. CASE n.job = j
      BY <1>2, <1>3, <1>4, <3>1, <3>2, <3>4
    <3> QED
      BY <3>3, <3>4
  <2> QED
    BY <2>1 DEF NoticeRows, OneRowPerTurn
<1>9. Told'
  <2> SUFFICES ASSUME NEW o \in Notices,
                      nPlace'[o] = "completed" \/ countStage'[o] \in {"looking", "increasing", "finishing"}
               PROVE  \/ \E n \in rows : n.job = o
                      \/ \E r \in Requests : at[r].job = o /\ countStage'[r] # "idle"
    BY DEF Told
  <2>1. nPlace[o] = "completed" \/ countStage[o] \in {"looking", "increasing", "finishing"}
    BY <1>1, <1>2, <1>3, <1>4
  <2>2. \A r \in Requests : countStage'[r] = countStage[r]
    BY <1>3
  <2> QED
    BY <2>1, <2>2 DEF NoticeRows, Told
<1> QED
  BY <1>1, <1>6, <1>7, <1>8, <1>9 DEF NoticeRows

\* The steps of a request, which writes rows of the table at most that are there.
LEMMA RequestMoves ==
  ASSUME NoticeRows, NEW r \in Requests,
         NEW next \in {"done", "counting", "setting", "resetting", "marking", "getting", "decreasing",
                       "gettingFirst", "decreasingFirst", "removing"},
         countStage' = [countStage EXCEPT ![r] = next],
         UNCHANGED N!queueVars,
         \/ at' = at
         \/ countStage[r] = "idle" /\ \E n \in rows : at' = [at EXCEPT ![r] = n],
         next \in {"marking", "getting", "decreasing", "gettingFirst", "decreasingFirst", "removing"} =>
           at'[r] \in N!Row,
         counter' \in Int \cup {NoCounter}, lasting' \in BOOLEAN, alone' \in BOOLEAN,
         counted' \in [Requests -> Nat],
         rows' \subseteq N!Row, IsFiniteSet(rows'),
         \A n, o \in rows' : n.job = o.job /\ n.turn = o.turn => n = o,
         \A n \in rows' : \E o \in rows : o.job = n.job /\ o.turn = n.turn,
         \A n \in rows : (\E o \in rows' : o.job = n.job) \/ at'[r].job = n.job
  PROVE  NoticeRows'
<1>1. UNCHANGED <<nPlace, nTries, nStalls>> /\ \A j \in Notices : N!HandedOut(j)' = N!HandedOut(j)
  BY DEF N!queueVars, N!HandedOut
<1>2. /\ countStage'[r] = next
      /\ \A a \in N!Actors \ {r} : countStage'[a] = countStage[a]
      /\ Notices \subseteq N!Actors /\ Requests \subseteq N!Actors /\ r \notin Notices
      /\ r \in N!Actors
  BY NoticeConstants DEF NoticeRows, N!TypeOK, N!Actors
<1>3. /\ at' \in [Requests -> N!Row \cup {N!NoRow}] /\ \A q \in Requests \ {r} : at'[q] = at[q]
      /\ countStage[r] # "idle" => at' = at
  BY DEF NoticeRows, N!TypeOK
<1>4. N!TypeOK'
  <2>1. countStage' \in [N!Actors -> {"idle", "done", "inserting", "looking", "increasing", "finishing",
                           "counting", "setting", "resetting", "marking", "getting", "decreasing",
                           "gettingFirst", "decreasingFirst", "removing"}]
    BY <1>2 DEF NoticeRows, N!TypeOK
  <2>2. N!QueueTypeOK'
    BY <1>1 DEF NoticeRows, N!TypeOK, N!QueueTypeOK
  <2> QED
    BY <1>3, <2>1, <2>2 DEF NoticeRows, N!TypeOK
<1>5. NoticeLeft'
  BY <1>1 DEF NoticeRows, NoticeLeft
<1>6. NoticeHeld'
  BY <1>1, <1>2 DEF NoticeRows, NoticeHeld
<1>7. RequestHeld'
  BY <1>2, <1>3 DEF NoticeRows, RequestHeld
<1>8. OneRowPerTurn'
  <2> SUFFICES ASSUME NEW n \in rows'
               PROVE  /\ 0 < n.turn /\ n.turn <= N!HandedOut(n.job)'
                      /\ nPlace'[n.job] \in {"none", "waiting"} \/ countStage'[n.job] = "inserting" =>
                           n.turn < N!HandedOut(n.job)'
    BY DEF OneRowPerTurn
  <2>1. PICK o \in rows : o.job = n.job /\ o.turn = n.turn
    OBVIOUS
  <2>2. o.job \in Notices
    BY DEF NoticeRows, N!TypeOK, N!Row
  <2>3. /\ 0 < o.turn /\ o.turn <= N!HandedOut(o.job)
        /\ nPlace[o.job] \in {"none", "waiting"} \/ countStage[o.job] = "inserting" =>
             o.turn < N!HandedOut(o.job)
    BY DEF NoticeRows, OneRowPerTurn
  <2> QED
    BY <1>1, <1>2, <2>1, <2>2, <2>3
<1>9. Told'
  <2> SUFFICES ASSUME NEW j \in Notices,
                      nPlace'[j] = "completed" \/ countStage'[j] \in {"looking", "increasing", "finishing"}
               PROVE  \/ \E n \in rows' : n.job = j
                      \/ \E q \in Requests : at'[q].job = j /\ countStage'[q] # "idle"
    BY DEF Told
  <2>1. \/ \E n \in rows : n.job = j
        \/ \E q \in Requests : at[q].job = j /\ countStage[q] # "idle"
    BY <1>1, <1>2 DEF NoticeRows, Told
  <2>2. CASE \E n \in rows : n.job = j
    BY <1>2, <2>2
  <2>3. ASSUME NEW q \in Requests, at[q].job = j, countStage[q] # "idle"
        PROVE  at'[q].job = j /\ countStage'[q] # "idle"
    BY <1>2, <1>3, <2>3
  <2> QED
    BY <2>1, <2>2, <2>3
<1> QED
  BY <1>4, <1>5, <1>6, <1>7, <1>8, <1>9 DEF NoticeRows

\* A job writes the row of its turn, which is not there yet.
LEMMA NoticeInserted ==
  ASSUME NoticeRows, NEW j \in Notices, N!Insert(j)
  PROVE  /\ NoticeRows'
         /\ \E n \in N!Row \ rows : ~n.read /\ rows' = rows \cup {n}
<1> DEFINE new == [job |-> j, turn |-> N!HandedOut(j), read |-> FALSE]
<1>1. /\ countStage[j] = "inserting" /\ rows' = rows \cup {new}
      /\ countStage' = [countStage EXCEPT ![j] = "looking"]
      /\ UNCHANGED <<nPlace, nTries, nStalls, counter, lasting, at, counted>>
      /\ alone' = (alone /\ N!Busy \subseteq {j})
  BY DEF N!Insert, N!Goes, N!SameCounter, N!queueVars
<1>2. N!HandedOut(j) \in Nat /\ N!HandedOut(j) > 0
  BY DEF N!HandedOut, NoticeRows, N!TypeOK, N!QueueTypeOK
<1>3. new \in N!Row /\ new.job = j /\ new.turn = N!HandedOut(j) /\ ~new.read
  BY <1>2 DEF N!Row
<1> HIDE DEF new
<1>4. new \notin rows /\ \A n \in rows : n.job = j => n.turn # N!HandedOut(j)
  <2>1. \A n \in rows : n.job = j => n.turn < N!HandedOut(j) /\ n.turn \in Nat
    BY <1>1 DEF NoticeRows, OneRowPerTurn, N!TypeOK, N!Row
  <2> QED
    BY <1>2, <1>3, <2>1
<1>5. /\ countStage'[j] = "looking"
      /\ \A a \in N!Actors \ {j} : countStage'[a] = countStage[a]
      /\ Notices \subseteq N!Actors /\ Requests \subseteq N!Actors /\ j \notin Requests
  BY <1>1, NoticeConstants DEF NoticeRows, N!TypeOK, N!Actors
<1>6. N!TypeOK' /\ NoticeLeft'
  <2>1. N!QueueTypeOK' /\ NoticeLeft'
    BY <1>1 DEF NoticeRows, N!TypeOK, N!QueueTypeOK, NoticeLeft
  <2>2. alone' \in BOOLEAN
    BY <1>1
  <2> QED
    BY <1>1, <1>3, <2>1, <2>2 DEF NoticeRows, N!TypeOK
<1>7. nPlace[j] = "active" /\ NoticeHeld' /\ RequestHeld'
  BY <1>1, <1>5 DEF NoticeRows, NoticeHeld, RequestHeld
<1>8. IsFiniteSet(rows')
  BY <1>1, FS_AddElement DEF NoticeRows
<1>9. OneRowPerTurn'
  <2>1. \A n, o \in rows' : n.job = o.job /\ n.turn = o.turn => n = o
    BY <1>1, <1>3, <1>4 DEF NoticeRows, OneRowPerTurn
  <2> SUFFICES ASSUME NEW n \in rows'
               PROVE  /\ 0 < n.turn /\ n.turn <= N!HandedOut(n.job)
                      /\ nPlace[n.job] \in {"none", "waiting"} \/ countStage'[n.job] = "inserting" =>
                           n.turn < N!HandedOut(n.job)
    BY <1>1, <2>1 DEF OneRowPerTurn, N!HandedOut
  <2>2. CASE n = new
    BY <1>2, <1>3, <1>5, <1>7, <2>2
  <2>3. CASE n \in rows
    <3>1. n.job \in Notices
      BY <2>3 DEF NoticeRows, N!TypeOK, N!Row
    <3> QED
      BY <1>5, <2>3, <3>1 DEF NoticeRows, OneRowPerTurn
  <2> QED
    BY <1>1, <2>2, <2>3
<1>10. Told'
  <2> SUFFICES ASSUME NEW o \in Notices,
                      nPlace[o] = "completed" \/ countStage'[o] \in {"looking", "increasing", "finishing"}
               PROVE  \/ \E n \in rows' : n.job = o
                      \/ \E r \in Requests : at[r].job = o /\ countStage'[r] # "idle"
    BY <1>1 DEF Told
  <2>1. CASE o = j
    BY <1>1, <1>3, <2>1
  <2>2. CASE o # j
    <3>1. nPlace[o] = "completed" \/ countStage[o] \in {"looking", "increasing", "finishing"}
      BY <1>5, <2>2
    <3>2. \A r \in Requests : countStage'[r] = countStage[r]
      BY <1>5
    <3> QED
      BY <1>1, <3>1, <3>2 DEF NoticeRows, Told
  <2> QED
    BY <2>1, <2>2
<1> QED
  BY <1>1, <1>3, <1>4, <1>6, <1>7, <1>8, <1>9, <1>10 DEF NoticeRows

\* When a call goes on and is alone, so it was before.
LEMMA AloneBefore ==
  ASSUME NoticeInv, NEW a \in N!Actors, NEW next, N!Goes(a, next), alone'
  PROVE  /\ ~lasting /\ N!Busy \subseteq {a}
         /\ countStage[a] \in {"idle", "done"} => Exact(N!Unread)
         /\ Knows(a)
<1>1. alone /\ N!Busy \subseteq {a}
  BY DEF N!Goes
<1>2. CASE countStage[a] \in {"idle", "done"}
  <2>1. N!Busy = {}
    BY <1>1, <1>2 DEF N!Busy
  <2>2. Knows(a)
    BY <1>2 DEF Knows
  <2> QED
    BY <1>1, <2>1, <2>2 DEF NoticeInv, Alone
<1>3. CASE countStage[a] \notin {"idle", "done"}
  <2>1. a \in N!Busy
    BY <1>3 DEF N!Busy
  <2> QED
    BY <1>1, <1>3, <2>1 DEF NoticeInv, Alone
<1> QED
  BY <1>2, <1>3

\* What it knows next makes the state one of a call that is alone.
LEMMA AloneAfter ==
  ASSUME NoticeInv, NEW a \in N!Actors, NEW next, countStage' = [countStage EXCEPT ![a] = next],
         N!Busy \subseteq {a}, ~lasting',
         next \in {"idle", "done"} => Exact(N!Unread)',
         next \notin {"idle", "done"} => Knows(a)'
  PROVE  Alone'
<1>1. countStage'[a] = next /\ \A b \in N!Actors \ {a} : countStage'[b] = countStage[b]
  BY DEF NoticeInv, NoticeRows, N!TypeOK
<1>2. N!Busy' \subseteq {a} /\ (a \in N!Busy' <=> next \notin {"idle", "done"})
  BY <1>1 DEF N!Busy
<1>3. \A b, c \in N!Busy' : b = c
  BY <1>2
<1>4. N!Busy' = {} => Exact(N!Unread)'
  BY <1>2
<1>5. \A b \in N!Busy' : Knows(b)'
  <2> SUFFICES ASSUME NEW b \in N!Busy' PROVE Knows(b)'
    OBVIOUS
  <2>1. b = a
    BY <1>2
  <2> QED
    BY <1>2, <2>1 DEF Knows, FoundUnread
<1> QED
  BY <1>3, <1>4, <1>5 DEF Alone

LEMMA UnreadKept == UNCHANGED rows => N!Unread' = N!Unread
  BY DEF N!Unread

\* The number of unread rows after each change of the table.
LEMMA UnreadInserted ==
  ASSUME IsFiniteSet(rows), NEW n, n \notin rows, ~n.read, rows' = rows \cup {n}
  PROVE  N!Unread' = N!Unread + 1
<1>1. IsFiniteSet(rows')
  BY FS_AddElement
<1>2. UnreadOf(rows)' = UnreadOf(rows) \cup {n} /\ n \notin UnreadOf(rows)
  BY DEF UnreadOf
<1>3. IsFiniteSet(UnreadOf(rows)) /\ N!Unread = Cardinality(UnreadOf(rows))
  BY UnreadCounts
<1>4. N!Unread' = Cardinality(UnreadOf(rows)')
  BY NoticeCardinality DEF N!Unread, UnreadOf
<1> QED
  BY <1>2, <1>3, <1>4, FS_AddElement

LEMMA UnreadTaken ==
  ASSUME IsFiniteSet(rows), NEW n \in rows, UnreadOf(rows)' = UnreadOf(rows) \ {n}
  PROVE  N!Unread' = IF n.read THEN N!Unread ELSE N!Unread - 1
<1>1. IsFiniteSet(UnreadOf(rows)) /\ N!Unread = Cardinality(UnreadOf(rows)) /\ N!Unread \in Nat
  BY UnreadCounts
<1>2. N!Unread' = Cardinality(UnreadOf(rows)')
  BY NoticeCardinality DEF N!Unread, UnreadOf
<1>3. n \in UnreadOf(rows) <=> ~n.read
  BY DEF UnreadOf
<1> QED
  BY <1>1, <1>2, <1>3, FS_RemoveElement

\* A row is the only one of its job and turn.
LEMMA StoredAlone == ASSUME NoticeRows, NEW n \in rows PROVE N!Stored(n) = {n}
  BY DEF NoticeRows, OneRowPerTurn, N!Stored

LEMMA WorkerStep ==
  ASSUME NoticeInv, NEW j \in Notices,
         N!Enqueue(j) \/ N!Work(j) \/ N!WorkerDies(j)
  PROVE  NoticeInv'
<1> USE DEF N!Goes, N!Breaks, N!SameCounter
<1>0. j \in N!Actors /\ NoticeRows /\ countStage[j] = countStage[j]
      /\ countStage \in [N!Actors -> {"idle", "done", "inserting", "looking", "increasing", "finishing",
                           "counting", "setting", "resetting", "marking", "getting", "decreasing",
                           "gettingFirst", "decreasingFirst", "removing"}]
      /\ alone \in BOOLEAN /\ lasting \in BOOLEAN /\ counter \in Int \cup {NoCounter}
  BY DEF N!Actors, NoticeInv, NoticeRows, N!TypeOK
<1>1. CASE N!Enqueue(j)
  <2>1. /\ N!Moves(j, "none", "waiting")
        /\ UNCHANGED <<rows, counter, lasting, countStage, at, counted, alone>>
    BY <1>1 DEF N!Enqueue, N!Add
  <2>2. countStage' = [countStage EXCEPT ![j] = countStage[j]]
    BY <1>0, <2>1
  <2>3. NoticeRows'
    BY <1>0, <2>1, <2>2, NoticeMoves
  <2>4. Alone'
    BY <2>1, UnreadKept DEF NoticeInv, Alone, N!Busy, Knows, Exact, FoundUnread
  <2> QED
    BY <2>3, <2>4 DEF NoticeInv
<1>2. CASE N!Start(j)
  <2>1. /\ N!Moves(j, "waiting", "active") /\ N!Goes(j, "inserting") /\ nPlace[j] = "waiting"
        /\ UNCHANGED <<rows, counter, lasting, at, counted>>
    BY <1>2 DEF N!Start, N!TakeOneOf, N!Moves
  <2>2. NoticeRows'
    BY <1>0, <2>1, NoticeMoves
  <2>3. Alone'
    <3>1. CASE ~alone'
      BY <3>1 DEF Alone
    <3>2. CASE alone'
      <4>1. countStage[j] \in {"idle", "done"}
        BY <2>1 DEF NoticeInv, NoticeRows, NoticeHeld
      <4>2. ~lasting /\ N!Busy \subseteq {j} /\ Exact(N!Unread)
        BY <1>0, <2>1, <3>2, <4>1, AloneBefore
      <4>3. countStage'[j] = "inserting"
        BY <1>0, <2>1
      <4>4. Knows(j)'
        BY <2>1, <4>2, <4>3, UnreadKept DEF Knows, Exact
      <4> QED
        BY <1>0, <2>1, <4>2, <4>4, AloneAfter
    <3> QED
      BY <3>1, <3>2
  <2> QED
    BY <2>2, <2>3 DEF NoticeInv
<1>3. CASE N!Insert(j)
  <2>1. NoticeRows'
    BY <1>0, <1>3, NoticeInserted
  <2>2. PICK n \in N!Row \ rows : ~n.read /\ rows' = rows \cup {n}
    BY <1>0, <1>3, NoticeInserted
  <2>3. Alone'
    <3>1. CASE ~alone'
      BY <3>1 DEF Alone
    <3>2. CASE alone'
      <4>1. /\ N!Goes(j, "looking") /\ countStage[j] = "inserting" /\ UNCHANGED <<counter, lasting>>
        BY <1>3 DEF N!Insert
      <4>2. ~lasting /\ N!Busy \subseteq {j} /\ Knows(j)
        BY <1>0, <4>1, <3>2, AloneBefore
      <4>3. N!Unread' = N!Unread + 1 /\ N!Unread \in Nat
        BY <2>2, UnreadInserted, UnreadCounts DEF NoticeInv, NoticeRows
      <4>4. countStage'[j] = "looking"
        BY <1>0, <4>1
      <4>5. Knows(j)'
        BY <4>1, <4>2, <4>3, <4>4 DEF Knows, Exact
      <4> QED
        BY <1>0, <4>1, <4>2, <4>5, AloneAfter
    <3> QED
      BY <3>1, <3>2
  <2> QED
    BY <2>1, <2>3 DEF NoticeInv
<1>4. CASE N!Look(j) \/ N!Increase(j)
  <2> DEFINE next == countStage'[j]
  <2>1. /\ next \in {"increasing", "finishing"} /\ N!Goes(j, next)
        /\ countStage[j] \in {"looking", "increasing"}
        /\ UNCHANGED N!queueVars /\ UNCHANGED <<rows, at, counted>>
        /\ alone' \in BOOLEAN
    BY <1>0, <1>4 DEF N!Look, N!Increase
  <2>2. counter' \in Int \cup {NoCounter} /\ lasting' \in BOOLEAN
    <3>1. CASE N!Look(j)
      BY <1>0, <3>1 DEF N!Look
    <3>2. CASE N!Increase(j)
      <4>1. CASE counter = NoCounter
        BY <3>2, <4>1 DEF N!Increase, N!IncrBy
      <4>2. CASE counter # NoCounter
        BY <1>0, <3>2, <4>2 DEF N!Increase, N!IncrBy
      <4> QED
        BY <4>1, <4>2
    <3> QED
      BY <1>4, <3>1, <3>2
  <2>3. NoticeRows'
    BY <1>0, <2>1, <2>2, NoticeMoves
  <2>4. Alone'
    <3>1. CASE ~alone'
      BY <3>1 DEF Alone
    <3>2. CASE alone'
      <4>1. ~lasting /\ N!Busy \subseteq {j} /\ Knows(j)
        BY <1>0, <2>1, <3>2, AloneBefore
      <4>2. N!Unread \in Nat /\ N!Unread' = N!Unread
        BY <2>1, UnreadCounts, UnreadKept DEF NoticeInv, NoticeRows
      <4>3. CASE N!Look(j)
        <5>1. next = IF counter = NoCounter THEN "finishing" ELSE "increasing"
          BY <1>0, <4>3 DEF N!Look
        <5>2. ~lasting' /\ Knows(j)'
          BY <4>1, <4>2, <4>3, <5>1 DEF N!Look, Knows, Exact
        <5> QED
          BY <1>0, <2>1, <4>1, <5>2, AloneAfter
      <4>4. CASE N!Increase(j)
        <5>1. next = "finishing" /\ countStage[j] = "increasing"
          BY <1>0, <4>4 DEF N!Increase
        <5>2. counter' = N!Unread /\ ~lasting'
          BY <4>1, <4>2, <4>4, <5>1, NoticeConstants DEF N!Increase, N!IncrBy, Knows
        <5>3. Knows(j)'
          BY <4>2, <5>1, <5>2 DEF Knows, Exact
        <5> QED
          BY <1>0, <2>1, <4>1, <5>2, <5>3, AloneAfter
      <4> QED
        BY <1>4, <4>3, <4>4
    <3> QED
      BY <3>1, <3>2
  <2> QED
    BY <2>3, <2>4 DEF NoticeInv
<1>5. CASE N!Finish(j)
  <2>1. /\ N!Moves(j, "active", "completed") /\ N!Goes(j, "done") /\ countStage[j] = "finishing"
        /\ UNCHANGED <<rows, counter, lasting, at, counted>>
    BY <1>5 DEF N!Finish, N!Completes
  <2>2. NoticeRows'
    BY <1>0, <2>1, NoticeMoves
  <2>3. Alone'
    <3>1. CASE ~alone'
      BY <3>1 DEF Alone
    <3>2. CASE alone'
      <4>1. ~lasting /\ N!Busy \subseteq {j} /\ Knows(j)
        BY <1>0, <2>1, <3>2, AloneBefore
      <4>2. Exact(N!Unread)'
        BY <2>1, <4>1, UnreadKept DEF Knows, Exact
      <4> QED
        BY <1>0, <2>1, <4>1, <4>2, AloneAfter
    <3> QED
      BY <3>1, <3>2
  <2> QED
    BY <2>2, <2>3 DEF NoticeInv
<1>6. CASE N!WorkFails(j) \/ N!WorkerDies(j)
  <2>1. /\ N!Throws(j) \/ N!Dies(j)
        /\ countStage' = [countStage EXCEPT ![j] = "idle"] /\ alone' = FALSE
        /\ UNCHANGED <<rows, counter, lasting, at, counted>>
    BY <1>6 DEF N!WorkFails, N!WorkerDies
  <2>2. NoticeRows'
    BY <1>0, <2>1, NoticeMoves
  <2> QED
    BY <2>1, <2>2 DEF NoticeInv, Alone
<1> QED
  BY <1>1, <1>2, <1>3, <1>4, <1>5, <1>6 DEF N!Work

\* A request that writes no row.
LEMMA RequestReads ==
  ASSUME NoticeInv, NEW r \in Requests,
         NEW next \in {"done", "counting", "setting", "resetting", "marking", "getting", "decreasing",
                       "gettingFirst", "decreasingFirst", "removing"},
         countStage' = [countStage EXCEPT ![r] = next],
         UNCHANGED N!queueVars, rows' = rows,
         \/ at' = at /\ (next \in {"marking", "getting", "decreasing", "gettingFirst", "decreasingFirst", "removing"}
                           => countStage[r] \in {"marking", "getting", "decreasing", "gettingFirst", "decreasingFirst"})
         \/ countStage[r] = "idle" /\ \E n \in rows : at' = [at EXCEPT ![r] = n],
         counter' \in Int \cup {NoCounter}, lasting' \in BOOLEAN, alone' \in BOOLEAN,
         counted' \in [Requests -> Nat],
         alone' => /\ N!Goes(r, next)
                   /\ ~lasting' /\ (next = "done" => Exact(N!Unread)') /\ (next # "done" => Knows(r)')
  PROVE  NoticeInv'
<1>1. NoticeRows /\ r \in N!Actors /\ at \in [Requests -> N!Row \cup {N!NoRow}]
      /\ rows \subseteq N!Row /\ IsFiniteSet(rows)
      /\ \A n, o \in rows : n.job = o.job /\ n.turn = o.turn => n = o
  BY DEF NoticeInv, NoticeRows, N!TypeOK, N!Actors, OneRowPerTurn
<1>2. next \in {"marking", "getting", "decreasing", "gettingFirst", "decreasingFirst", "removing"} =>
           at'[r] \in N!Row
  <2>1. CASE at' = at
    BY <1>1, <2>1 DEF NoticeRows, RequestHeld
  <2>2. CASE \E n \in rows : at' = [at EXCEPT ![r] = n]
    BY <1>1, <2>2
  <2> QED
    BY <2>1, <2>2
<1>3. /\ at' = at \/ (countStage[r] = "idle" /\ \E n \in rows : at' = [at EXCEPT ![r] = n])
      /\ rows' \subseteq N!Row /\ IsFiniteSet(rows')
      /\ \A n, o \in rows' : n.job = o.job /\ n.turn = o.turn => n = o
      /\ \A n \in rows' : \E o \in rows : o.job = n.job /\ o.turn = n.turn
      /\ \A n \in rows : (\E o \in rows' : o.job = n.job) \/ at'[r].job = n.job
  BY <1>1
<1>4. NoticeRows'
  BY <1>1, <1>2, <1>3, RequestMoves
<1>5. Alone'
  <2>1. CASE ~alone'
    BY <2>1 DEF Alone
  <2>2. CASE alone'
    <3>1. N!Busy \subseteq {r}
      BY <1>1, <2>2, AloneBefore
    <3> QED
      BY <1>1, <2>2, <3>1, AloneAfter
  <2> QED
    BY <1>1, <2>1, <2>2
<1> QED
  BY <1>4, <1>5 DEF NoticeInv

\* A request that writes rows, none of them new.
LEMMA RequestWrites ==
  ASSUME NoticeInv, NEW r \in Requests, NEW next \in {"done", "resetting", "getting"},
         countStage' = [countStage EXCEPT ![r] = next],
         UNCHANGED N!queueVars, UNCHANGED <<at, counter, lasting, counted>>,
         next = "getting" => countStage[r] = "marking",
         alone' \in BOOLEAN,
         rows' \subseteq N!Row, IsFiniteSet(rows'),
         \A n, o \in rows' : n.job = o.job /\ n.turn = o.turn => n = o,
         \A n \in rows' : \E o \in rows : o.job = n.job /\ o.turn = n.turn,
         \A n \in rows : (\E o \in rows' : o.job = n.job) \/ at[r].job = n.job,
         alone' => /\ N!Goes(r, next)
                   /\ next = "done" => Exact(N!Unread)'
                   /\ next # "done" => Knows(r)'
  PROVE  NoticeInv'
<1>1. NoticeRows /\ r \in N!Actors /\ counter' \in Int \cup {NoCounter} /\ lasting' \in BOOLEAN
      /\ counted' \in [Requests -> Nat] /\ at' = at
  BY DEF NoticeInv, NoticeRows, N!TypeOK, N!Actors
<1>2. next \in {"marking", "getting", "decreasing", "gettingFirst", "decreasingFirst", "removing"} =>
           at'[r] \in N!Row
  BY <1>1 DEF NoticeRows, RequestHeld
<1>a. \A n \in rows : (\E o \in rows' : o.job = n.job) \/ at'[r].job = n.job
  BY <1>1
<1>3. NoticeRows'
  BY <1>1, <1>2, <1>a, RequestMoves
<1>4. Alone'
  <2>1. CASE ~alone'
    BY <2>1 DEF Alone
  <2>2. CASE alone'
    <3>1. N!Busy \subseteq {r} /\ ~lasting
      BY <1>1, <2>2, AloneBefore
    <3> QED
      BY <1>1, <2>2, <3>1, AloneAfter
  <2> QED
    BY <1>1, <2>1, <2>2
<1> QED
  BY <1>3, <1>4 DEF NoticeInv

\* What a request finds of its own, alone or not.
LEMMA RequestKnows ==
  ASSUME NoticeInv, NEW r \in Requests
  PROVE  /\ r \in N!Actors /\ alone \in BOOLEAN /\ lasting \in BOOLEAN
         /\ counter \in Int \cup {NoCounter} /\ counted \in [Requests -> Nat]
         /\ at \in [Requests -> N!Row \cup {N!NoRow}]
         /\ rows \subseteq N!Row /\ IsFiniteSet(rows)
         /\ \A n, o \in rows : n.job = o.job /\ n.turn = o.turn => n = o
         /\ N!Unread \in Nat
         /\ \A next : countStage' = [countStage EXCEPT ![r] = next] => countStage'[r] = next
         /\ \A next : N!Goes(r, next) => alone' \in BOOLEAN
         /\ \A next : N!Goes(r, next) /\ alone' =>
              /\ ~lasting /\ Knows(r)
              /\ countStage[r] \in {"idle", "done"} => Exact(N!Unread)
<1>1. r \in N!Actors
  BY DEF N!Actors
<1>2. \A next : N!Goes(r, next) /\ alone' =>
        /\ ~lasting /\ Knows(r)
        /\ countStage[r] \in {"idle", "done"} => Exact(N!Unread)
  BY <1>1, AloneBefore
<1>3. N!Unread \in Nat
  BY UnreadCounts DEF NoticeInv, NoticeRows
<1>4. \A next : N!Goes(r, next) => alone' \in BOOLEAN
  BY DEF N!Goes
<1> QED
  BY <1>1, <1>2, <1>3, <1>4 DEF NoticeInv, NoticeRows, N!TypeOK, OneRowPerTurn

LEMMA CountStep ==
  ASSUME NoticeInv, NEW r \in Requests, N!GetUnreadCount(r)
  PROVE  NoticeInv'
<1> USE DEF N!SameCounter
<1>1. N!Unread' = N!Unread /\ UNCHANGED N!queueVars /\ UNCHANGED <<rows, at>>
  BY UnreadKept DEF N!GetUnreadCount
<1>2. ASSUME NEW next \in {"counting", "done"}, countStage[r] = "idle", N!Goes(r, next),
             next = IF counter = NoCounter THEN "counting" ELSE "done",
             UNCHANGED <<counter, lasting, counted>>
      PROVE  NoticeInv'
  <2>1. alone' => ~lasting' /\ (next = "done" => Exact(N!Unread)') /\ (next # "done" => Knows(r)')
    BY <1>1, <1>2, RequestKnows DEF N!Goes, Knows, Exact
  <2> QED
    BY <1>1, <1>2, <2>1, RequestReads, RequestKnows DEF N!Goes
<1>3. ASSUME countStage[r] = "counting", N!Goes(r, "setting"),
             counted' = [counted EXCEPT ![r] = N!Unread], UNCHANGED <<counter, lasting>>
      PROVE  NoticeInv'
  <2>1. counted' \in [Requests -> Nat] /\ counted'[r] = N!Unread
    BY <1>3, RequestKnows
  <2>2. alone' => ~lasting' /\ Knows(r)'
    BY <1>1, <1>3, <2>1, RequestKnows DEF N!Goes, Knows
  <2> QED
    BY <1>1, <1>3, <2>1, <2>2, RequestReads, RequestKnows DEF N!Goes
<1>4. ASSUME countStage[r] = "setting", N!SetEx(counted[r]), N!Goes(r, "done"), UNCHANGED counted
      PROVE  NoticeInv'
  <2>1. counter' \in Int /\ ~lasting' /\ counted' \in [Requests -> Nat]
    BY <1>4, RequestKnows DEF N!SetEx
  <2>2. alone' => Exact(N!Unread)'
    BY <1>1, <1>4, RequestKnows DEF N!SetEx, Knows, Exact
  <2>3. lasting' \in BOOLEAN /\ counter' \in Int \cup {NoCounter}
    BY <1>4, <2>1 DEF N!SetEx
  <2>4. countStage' = [countStage EXCEPT ![r] = "done"] /\ alone' \in BOOLEAN
    BY <1>4, RequestKnows DEF N!Goes
  <2> QED
    BY <1>1, <1>4, <2>1, <2>2, <2>3, <2>4, RequestReads
<1> QED
  BY <1>2, <1>3, <1>4 DEF N!GetUnreadCount

LEMMA FindStep ==
  ASSUME NoticeInv, NEW r \in Requests, N!FindToMark(r) \/ N!FindToDelete(r)
  PROVE  NoticeInv'
<1>1. PICK n \in rows, next \in {"done", "marking", "removing", "gettingFirst"} :
        /\ N!Find(r, n) /\ N!Goes(r, next)
        /\ next \in {"done", "removing"} <=> n.read
  BY DEF N!FindToMark, N!FindToDelete
<1>2. /\ countStage[r] = "idle" /\ at' = [at EXCEPT ![r] = n]
      /\ UNCHANGED <<counter, lasting, rows, counted>> /\ UNCHANGED N!queueVars
      /\ N!Unread' = N!Unread
  BY <1>1, UnreadKept DEF N!Find, N!SameCounter
<1>3. at'[r] = n /\ n \in rows' /\ countStage'[r] = next
  BY <1>1, <1>2, RequestKnows DEF N!Goes
<1>4. alone' => ~lasting' /\ (next = "done" => Exact(N!Unread)') /\ (next # "done" => Knows(r)')
  <2> SUFFICES ASSUME alone' PROVE ~lasting' /\ (next = "done" => Exact(N!Unread)') /\ (next # "done" => Knows(r)')
    OBVIOUS
  <2>1. ~lasting /\ Exact(N!Unread)
    BY <1>1, <1>2, RequestKnows
  <2> QED
    BY <1>1, <1>2, <1>3, <2>1 DEF Knows, Exact, FoundUnread
<1> QED
  BY <1>1, <1>2, <1>4, RequestReads, RequestKnows DEF N!Goes

LEMMA DecreaseStep ==
  ASSUME NoticeInv, NEW r \in Requests, N!Get(r) \/ N!Decrease(r)
  PROVE  NoticeInv'
<1>1. /\ UNCHANGED <<rows, at, counted>> /\ UNCHANGED N!queueVars /\ N!Unread' = N!Unread
      /\ counter' \in Int \cup {NoCounter} /\ lasting' \in BOOLEAN
  <2>1. CASE N!Get(r)
    BY <2>1, UnreadKept, RequestKnows DEF N!Get, N!SameCounter
  <2>2. CASE N!Decrease(r)
    <3>1. /\ N!IncrBy(-1) /\ UNCHANGED <<rows, at, counted>> /\ UNCHANGED N!queueVars
          /\ counter \in Int \cup {NoCounter} /\ lasting \in BOOLEAN
      BY <2>2, RequestKnows DEF N!Decrease
    <3>2. CASE counter = NoCounter
      BY <3>1, <3>2, UnreadKept DEF N!IncrBy
    <3>3. CASE counter # NoCounter
      BY <3>1, <3>3, UnreadKept DEF N!IncrBy
    <3> QED
      BY <3>2, <3>3
  <2> QED
    BY <2>1, <2>2
<1>2. CASE N!Get(r)
  <2> DEFINE next == IF counter # NoCounter /\ counter > 0
                     THEN N!Decreasing(countStage[r]) ELSE N!AfterCounter(countStage[r])
  <2>1. /\ countStage[r] \in {"getting", "gettingFirst"} /\ N!Goes(r, next) /\ UNCHANGED <<counter, lasting>>
        /\ next \in {"decreasing", "decreasingFirst", "removing", "done"}
        /\ next = "decreasing" <=> countStage[r] = "getting" /\ counter # NoCounter /\ counter > 0
        /\ next = "decreasingFirst" <=> countStage[r] = "gettingFirst" /\ counter # NoCounter /\ counter > 0
        /\ next = "removing" <=> countStage[r] = "gettingFirst" /\ ~(counter # NoCounter /\ counter > 0)
    BY <1>2 DEF N!Get, N!Getting, N!Decreasing, N!AfterCounter, N!SameCounter
  <2> HIDE DEF next
  <2>2. alone' => ~lasting' /\ (next = "done" => Exact(N!Unread)') /\ (next # "done" => Knows(r)')
    <3> SUFFICES ASSUME alone' PROVE ~lasting' /\ (next = "done" => Exact(N!Unread)') /\ (next # "done" => Knows(r)')
      OBVIOUS
    <3>1. ~lasting /\ Knows(r) /\ N!Unread \in Nat /\ countStage'[r] = next
      BY <2>1, RequestKnows DEF N!Goes
    <3>2. CASE countStage[r] = "getting"
      <4>1. counter \in {NoCounter, N!Unread + 1}
        BY <3>1, <3>2 DEF Knows, Exact
      <4> QED
        BY <1>1, <2>1, <3>1, <3>2, <4>1 DEF Knows, Exact
    <3>3. CASE countStage[r] = "gettingFirst"
      <4>1. FoundUnread(r) /\ counter \in {NoCounter, N!Unread} /\ N!Unread > 0
        <5>1. FoundUnread(r) /\ counter \in {NoCounter, N!Unread}
          BY <3>1, <3>3 DEF Knows, Exact
        <5>2. at[r] \in UnreadOf(rows)
          BY <5>1 DEF FoundUnread, UnreadOf
        <5>3. IsFiniteSet(UnreadOf(rows)) /\ N!Unread = Cardinality(UnreadOf(rows))
          BY UnreadCounts, RequestKnows
        <5>4. N!Unread # 0
          BY <5>2, <5>3, FS_EmptySet
        <5> QED
          BY <3>1, <5>1, <5>4
      <4> QED
        BY <1>1, <2>1, <3>1, <3>3, <4>1 DEF Knows, Exact, FoundUnread
    <3> QED
      BY <2>1, <3>2, <3>3
  <2> QED
    BY <1>1, <2>1, <2>2, RequestReads, RequestKnows DEF N!Goes
<1>3. CASE N!Decrease(r)
  <2> DEFINE next == N!AfterCounter(countStage[r])
  <2>1. /\ countStage[r] \in {"decreasing", "decreasingFirst"} /\ N!Goes(r, next) /\ N!IncrBy(-1)
        /\ next = IF countStage[r] = "decreasingFirst" THEN "removing" ELSE "done"
    BY <1>3 DEF N!Decrease, N!AfterCounter
  <2> HIDE DEF next
  <2>2. alone' => ~lasting' /\ (next = "done" => Exact(N!Unread)') /\ (next # "done" => Knows(r)')
    <3> SUFFICES ASSUME alone' PROVE ~lasting' /\ (next = "done" => Exact(N!Unread)') /\ (next # "done" => Knows(r)')
      OBVIOUS
    <3>1. ~lasting /\ Knows(r) /\ N!Unread \in Nat /\ countStage'[r] = next
      BY <2>1, RequestKnows DEF N!Goes
    <3>2. /\ counter \in Int
          /\ countStage[r] = "decreasing" => counter = N!Unread + 1
          /\ countStage[r] = "decreasingFirst" => FoundUnread(r) /\ counter = N!Unread
      BY <2>1, <3>1 DEF Knows
    <3>3. counter' = counter - 1 /\ ~lasting'
      BY <2>1, <3>1, <3>2, NoticeConstants DEF N!IncrBy
    <3> QED
      BY <1>1, <2>1, <3>1, <3>2, <3>3 DEF Knows, Exact, FoundUnread
  <2> QED
    BY <1>1, <2>1, <2>2, RequestReads, RequestKnows DEF N!Goes
<1> QED
  BY <1>2, <1>3

LEMMA MarkStep ==
  ASSUME NoticeInv, NEW r \in Requests, N!Mark(r)
  PROVE  NoticeInv'
<1>1. /\ countStage[r] = "marking" /\ UNCHANGED N!queueVars /\ UNCHANGED <<at, counter, lasting, counted>>
      /\ at[r] \in N!Row
  BY DEF N!Mark, N!SameCounter, NoticeInv, NoticeRows, RequestHeld
<1>2. CASE N!Stored(at[r]) = {}
  <2>1. countStage' = [countStage EXCEPT ![r] = "done"] /\ ~alone' /\ alone' \in BOOLEAN /\ rows' = rows
    BY <1>2 DEF N!Mark, N!Breaks
  <2> QED
    BY <1>1, <2>1, RequestReads, RequestKnows
<1>3. CASE N!Stored(at[r]) # {}
  <2> DEFINE n == at[r]
             read == [n EXCEPT !.read = TRUE]
  <2>1. rows' = (rows \ N!Stored(n)) \cup {read} /\ N!Goes(r, "getting")
    BY <1>3 DEF N!Mark
  <2>2. read \in N!Row /\ read.job = n.job /\ read.turn = n.turn /\ read.read
    BY <1>1 DEF N!Row
  <2>3. PICK m \in rows : m.job = n.job /\ m.turn = n.turn
    BY <1>3 DEF N!Stored
  <2>4. \A o \in rows : o \in N!Stored(n) <=> o.job = n.job /\ o.turn = n.turn
    BY DEF N!Stored
  <2> HIDE DEF read, n
  <2>5. rows' \subseteq N!Row /\ IsFiniteSet(rows')
    <3>1. IsFiniteSet(rows \ N!Stored(n))
      BY RequestKnows, FS_Subset
    <3> QED
      BY <2>1, <2>2, <3>1, RequestKnows, FS_AddElement
  <2>6. \A o, p \in rows' : o.job = p.job /\ o.turn = p.turn => o = p
    BY <2>1, <2>2, <2>4, RequestKnows
  <2>7. \A o \in rows' : \E p \in rows : p.job = o.job /\ p.turn = o.turn
    BY <2>1, <2>2, <2>3
  <2>8. \A o \in rows : \E p \in rows' : p.job = o.job
    BY <2>1, <2>2, <2>4
  <2>9. alone' => Knows(r)'
    <3> SUFFICES ASSUME alone' PROVE Knows(r)'
      OBVIOUS
    <3>1. Knows(r) /\ countStage'[r] = "getting" /\ N!Unread \in Nat
      BY <2>1, RequestKnows DEF N!Goes
    <3>2. n \in rows /\ ~n.read /\ Exact(N!Unread)
      BY <1>1, <3>1 DEF Knows, FoundUnread, n
    <3>3. N!Stored(n) = {n}
      BY <3>2, StoredAlone DEF NoticeInv
    <3>4. UnreadOf(rows)' = UnreadOf(rows) \ {n}
      BY <2>1, <2>2, <3>3 DEF UnreadOf
    <3>5. N!Unread' = N!Unread - 1
      BY <3>2, <3>4, UnreadTaken, RequestKnows
    <3> QED
      BY <1>1, <3>1, <3>2, <3>5 DEF Knows, Exact
  <2>10. countStage' = [countStage EXCEPT ![r] = "getting"] /\ alone' \in BOOLEAN
    BY <2>1, RequestKnows DEF N!Goes
  <2> QED
    BY <1>1, <2>1, <2>5, <2>6, <2>7, <2>8, <2>9, <2>10, RequestWrites
<1> QED
  BY <1>2, <1>3

LEMMA RemoveStep ==
  ASSUME NoticeInv, NEW r \in Requests, N!Remove(r)
  PROVE  NoticeInv'
<1> DEFINE n == at[r]
<1>1. /\ countStage[r] = "removing" /\ UNCHANGED N!queueVars /\ UNCHANGED <<at, counter, lasting, counted>>
      /\ n \in N!Row /\ rows' = rows \ N!Stored(n)
      /\ countStage' = [countStage EXCEPT ![r] = "done"] /\ alone' \in BOOLEAN
      /\ N!Stored(n) = {} => ~alone'
      /\ N!Stored(n) # {} => N!Goes(r, "done")
  BY RequestKnows DEF N!Remove, N!SameCounter, N!Goes, N!Breaks, NoticeInv, NoticeRows, RequestHeld
<1>2. rows' \subseteq N!Row /\ IsFiniteSet(rows')
  BY <1>1, RequestKnows, FS_Subset
<1>3. /\ \A o, p \in rows' : o.job = p.job /\ o.turn = p.turn => o = p
      /\ \A o \in rows' : \E p \in rows : p.job = o.job /\ p.turn = o.turn
      /\ \A o \in rows : (\E p \in rows' : p.job = o.job) \/ at[r].job = o.job
  BY <1>1, RequestKnows DEF N!Stored
<1>4. alone' => N!Goes(r, "done") /\ Exact(N!Unread)'
  <2> SUFFICES ASSUME alone' PROVE N!Goes(r, "done") /\ Exact(N!Unread)'
    OBVIOUS
  <2>1. N!Goes(r, "done") /\ Knows(r) /\ N!Unread \in Nat
    BY <1>1, RequestKnows
  <2>2. n \in rows /\ Exact(IF n.read THEN N!Unread ELSE N!Unread - 1)
    BY <1>1, <2>1 DEF Knows
  <2>3. N!Stored(n) = {n}
    BY <2>2, StoredAlone DEF NoticeInv
  <2>4. UnreadOf(rows)' = UnreadOf(rows) \ {n}
    BY <1>1, <2>3 DEF UnreadOf
  <2>5. N!Unread' = IF n.read THEN N!Unread ELSE N!Unread - 1
    BY <2>2, <2>4, UnreadTaken, RequestKnows
  <2> QED
    BY <1>1, <2>1, <2>2, <2>5 DEF Exact
<1> QED
  BY <1>1, <1>2, <1>3, <1>4, RequestWrites

LEMMA MarkAllStep ==
  ASSUME NoticeInv, NEW r \in Requests, N!MarkAllRead(r)
  PROVE  NoticeInv'
<1>1. UNCHANGED N!queueVars /\ UNCHANGED <<at, counted>>
  BY DEF N!MarkAllRead
<1>2. ASSUME countStage[r] = "idle", N!Goes(r, "resetting"), UNCHANGED <<counter, lasting>>,
             rows' = {[n EXCEPT !.read = TRUE] : n \in rows}
      PROVE  NoticeInv'
  <2> DEFINE read == [n \in rows |-> [n EXCEPT !.read = TRUE]]
  <2>1. \A n \in rows : /\ read[n] \in N!Row /\ read[n].job = n.job /\ read[n].turn = n.turn
                        /\ read[n].read
    BY RequestKnows DEF N!Row
  <2>2. rows' = {read[n] : n \in rows}
    BY <1>2
  <2>3. IsFiniteSet(rows')
    <3>1. read \in Surjection(rows, rows')
      BY <2>2 DEF Surjection
    <3> QED
      BY <3>1, RequestKnows, FS_Surjection
  <2> HIDE DEF read
  <2>4. rows' \subseteq N!Row /\ \A n \in rows' : n.read
    BY <2>1, <2>2
  <2>5. \A o, p \in rows' : o.job = p.job /\ o.turn = p.turn => o = p
    BY <2>1, <2>2, RequestKnows
  <2>6. /\ \A o \in rows' : \E p \in rows : p.job = o.job /\ p.turn = o.turn
        /\ \A o \in rows : \E p \in rows' : p.job = o.job
    BY <2>1, <2>2
  <2>7. N!Unread' = 0
    <3>1. UnreadOf(rows)' = {}
      BY <2>4 DEF UnreadOf
    <3>2. N!Unread' = Cardinality(UnreadOf(rows)')
      BY NoticeCardinality DEF N!Unread, UnreadOf
    <3> QED
      BY <3>1, <3>2, FS_EmptySet
  <2>8. countStage'[r] = "resetting" /\ countStage' = [countStage EXCEPT ![r] = "resetting"]
        /\ alone' \in BOOLEAN
    BY <1>2, RequestKnows DEF N!Goes
  <2>9. Knows(r)'
    BY <2>7, <2>8 DEF Knows
  <2> QED
    BY <1>1, <1>2, <2>3, <2>4, <2>5, <2>6, <2>8, <2>9, RequestWrites
<1>3. ASSUME countStage[r] = "resetting", N!SetEx(0), N!Goes(r, "done"), rows' = rows
      PROVE  NoticeInv'
  <2>1. counter' = 0 /\ ~lasting' /\ lasting' \in BOOLEAN /\ counted' \in [Requests -> Nat]
    BY <1>1, <1>3, RequestKnows DEF N!SetEx
  <2>2. alone' => Exact(N!Unread)'
    BY <1>3, <2>1, UnreadKept, RequestKnows DEF Knows, Exact
  <2>3. countStage' = [countStage EXCEPT ![r] = "done"] /\ alone' \in BOOLEAN
    BY <1>3, RequestKnows DEF N!Goes
  <2>4. at' = at /\ counter' \in Int \cup {NoCounter}
    BY <1>1, <2>1
  <2>5. alone' => N!Goes(r, "done") /\ ~lasting' /\ Exact(N!Unread)'
    BY <1>3, <2>1, <2>2
  <2> QED
    BY <1>1, <1>3, <2>1, <2>3, <2>4, <2>5, RequestReads
<1> QED
  BY <1>2, <1>3 DEF N!MarkAllRead, N!SameCounter

LEMMA NoticeStep == NoticeInv /\ [N!Next]_(N!vars) => NoticeInv'
<1> SUFFICES ASSUME NoticeInv, [N!Next]_(N!vars) PROVE NoticeInv'
  OBVIOUS
<1>1. CASE N!Expire
  <2>1. /\ ~lasting /\ counter' = NoCounter /\ lasting' = lasting /\ (alone' <=> N!Busy = {})
        /\ alone' \in BOOLEAN
        /\ UNCHANGED <<nPlace, nTries, nStalls, rows, countStage, at, counted>>
    BY <1>1 DEF N!Expire, N!queueVars
  <2>2. N!TypeOK' /\ NoticeLeft' /\ NoticeHeld' /\ RequestHeld'
    BY <2>1 DEF NoticeInv, NoticeRows, N!TypeOK, N!QueueTypeOK, NoticeLeft, NoticeHeld, RequestHeld
  <2>3. IsFiniteSet(rows') /\ OneRowPerTurn' /\ Told'
    BY <2>1 DEF NoticeInv, NoticeRows, OneRowPerTurn, N!HandedOut, Told
  <2>4. Alone'
    BY <2>1 DEF Alone, N!Busy, Exact
  <2> QED
    BY <2>2, <2>3, <2>4 DEF NoticeInv, NoticeRows
<1>2. ASSUME NEW r \in Requests, N!RequestFails(r) PROVE NoticeInv'
  <2>1. /\ countStage' = [countStage EXCEPT ![r] = "done"] /\ ~alone' /\ alone' \in BOOLEAN
        /\ UNCHANGED N!queueVars /\ UNCHANGED <<rows, counter, lasting, at, counted>>
    BY <1>2 DEF N!RequestFails, N!Breaks, N!SameCounter
  <2> QED
    BY <2>1, RequestReads, RequestKnows
<1>3. CASE UNCHANGED N!vars
  BY <1>3 DEF N!vars, N!queueVars, NoticeInv, NoticeRows, N!TypeOK, N!QueueTypeOK, NoticeLeft, NoticeHeld,
     RequestHeld, OneRowPerTurn, N!HandedOut, Told, Alone, N!Busy, N!Unread, Knows, Exact, FoundUnread
<1> QED
  BY <1>1, <1>2, <1>3, WorkerStep, CountStep, FindStep, DecreaseStep, MarkStep, RemoveStep, MarkAllStep
     DEF N!Next, N!Request

\* The inductive invariant of Notifications.
THEOREM NoticeInvariant == N!Spec => []NoticeInv
  BY NoticeInit, NoticeStep, PTL DEF N!Spec

\* Calls that do not overlap keep the unread number that of the table.
THEOREM UnreadIsExact == N!Spec => []N!ExactWhenAlone
<1>1. NoticeInv => N!ExactWhenAlone
  BY DEF NoticeInv, Alone, Exact, N!ExactWhenAlone
<1> QED
  BY <1>1, NoticeInvariant, PTL

\* A job tells its user once for each time it is handed out, and one that completed
\* has told: the rows of a job have different turns.
THEOREM UsersAreToldOnce == N!Spec => []N!ToldByItsJob
<1>1. ASSUME NoticeInv, NEW j \in Notices PROVE N!Cardinality({n \in rows : n.job = j}) <= N!HandedOut(j)
  <2> DEFINE told == {n \in rows : n.job = j}
             turn == [n \in told |-> n.turn]
  <2>1. N!HandedOut(j) \in Nat
    BY <1>1 DEF N!HandedOut, NoticeInv, NoticeRows, N!TypeOK, N!QueueTypeOK
  <2>2. \A n \in told : n.turn \in 1 .. N!HandedOut(j)
    BY <1>1, <2>1 DEF NoticeInv, NoticeRows, OneRowPerTurn, N!TypeOK, N!Row
  <2>3. turn \in Injection(told, 1 .. N!HandedOut(j))
    BY <1>1, <2>2 DEF Injection, IsInjective, NoticeInv, NoticeRows, OneRowPerTurn
  <2>4. IsFiniteSet(1 .. N!HandedOut(j)) /\ Cardinality(1 .. N!HandedOut(j)) = N!HandedOut(j)
    BY <2>1, FS_Interval
  <2> HIDE DEF turn, told
  <2>5. Cardinality(told) <= N!HandedOut(j)
    BY <2>3, <2>4, FS_Injection
  <2> QED
    BY <2>5, NoticeCardinality DEF told
<1>2. NoticeInv => N!ToldByItsJob
  BY <1>1 DEF NoticeInv, NoticeRows, Told, N!ToldByItsJob
<1> QED
  BY <1>2, NoticeInvariant, PTL

-----------------------------------------------------------------------------

(* Embeddings.                                                             *)

LEMMA EmbedConstants == Deletion \in Embeds /\ NoJob \notin Embeds /\ Nothing \notin Nat
  BY QueuesAssumption DEF QueuesAssumption, E!EmbeddingAssumption

LEMMA EmbedInit == E!Init => EmbedInv
<1> SUFFICES ASSUME E!Init PROVE EmbedInv
  OBVIOUS
<1> USE EmbedConstants DEF E!Init, E!QueueInit
<1>1. E!QueueTypeOK /\ EmbedLeft
  BY QueueConstants DEF E!QueueTypeOK, EmbedLeft, Left, E!Over
<1>2. E!TypeOK
  BY <1>1 DEF E!TypeOK, E!Stages
<1>3. OneEmbedding /\ EmbedHeld /\ HolderIsOpen
  BY DEF OneEmbedding, EmbedHeld, HolderIsOpen, E!Upserts
<1>4. VectorFollows
  BY DEF VectorFollows, E!VectorOfItsText, E!Upserts
<1> QED
  BY <1>1, <1>2, <1>3, <1>4 DEF EmbedInv

\* The queue's own steps.
LEMMA EmbedQueue ==
  ASSUME EmbedInv, NEW j \in Embeds,
         \/ \E from \in {"none", "waiting", "active"},
               to \in {"waiting", "active", "completed", "failed"} : E!Moves(j, from, to)
         \/ E!Throws(j) \/ E!Dies(j)
  PROVE  /\ E!QueueTypeOK' /\ EmbedLeft'
         /\ \A o \in Embeds \ {j} : ePlace'[o] = ePlace[o]
<1> USE QueueConstants DEF EmbedInv, E!TypeOK, E!QueueTypeOK, EmbedLeft, Left, E!Over
<1>1. CASE \E from \in {"none", "waiting", "active"},
              to \in {"waiting", "active", "completed", "failed"} : E!Moves(j, from, to)
  BY <1>1 DEF E!Moves
<1>2. CASE E!Throws(j)
  BY <1>2 DEF E!Throws
<1>3. CASE E!Dies(j)
  BY <1>3 DEF E!Dies
<1> QED
  BY <1>1, <1>2, <1>3

\* What the steps of the queue alone, and the failures, keep: no text and no vector
\* changes, and the job has not completed.
LEMMA EmbedKept ==
  ASSUME EmbedInv, NEW j \in Embeds, NEW to \in {"waiting", "active", "failed"},
         ePlace[j] \in {"waiting", "active"}, E!QueueTypeOK', EmbedLeft', OneEmbedding',
         ePlace'[j] = to, \A o \in Embeds \ {j} : ePlace'[o] = ePlace[o],
         UNCHANGED <<version, exists, adding, holder, text, vector>>,
         NEW next \in {"idle", "asking"}, embedStage' = [embedStage EXCEPT ![j] = next],
         next # "idle" <=> to = "active"
  PROVE  EmbedInv'
<1>1. E!TypeOK'
  BY DEF EmbedInv, E!TypeOK, E!Stages
<1>2. EmbedHeld'
  BY EmbedConstants DEF EmbedInv, EmbedHeld, E!TypeOK, E!Stages, E!Upserts
<1>3. HolderIsOpen'
  BY DEF EmbedInv, HolderIsOpen, E!Upserts
<1>4. VectorFollows'
  <2>1. E!VectorOfItsText'
    BY DEF EmbedInv, VectorFollows, E!VectorOfItsText, E!Upserts
  <2>2. \A o \in E!Upserts : embedStage'[o] = "written" => text' = adding'[o]
    BY DEF EmbedInv, VectorFollows, E!TypeOK, E!Stages, E!Upserts
  <2> QED
    BY <2>1, <2>2 DEF VectorFollows
<1> QED
  BY <1>1, <1>2, <1>3, <1>4 DEF EmbedInv

\* A text is not replaced by an older one.
NotOlder == text # Nothing /\ text' # Nothing => text' >= text

LEMMA EmbedStep == EmbedInv /\ [E!Next]_(E!vars) => EmbedInv' /\ [NotOlder]_(E!vars)
<1> SUFFICES ASSUME EmbedInv, [E!Next]_(E!vars) PROVE EmbedInv' /\ [NotOlder]_(E!vars)
  OBVIOUS
<1> USE DEF E!Goes, E!record, E!stored
<1> DEFINE Fine == EmbedInv' /\ NotOlder
<1>a. text \in Nat \cup {Nothing} /\ (text' = text => NotOlder)
  BY DEF EmbedInv, E!TypeOK, NotOlder
<1>1. ASSUME NEW j \in Embeds, E!Write(j) PROVE Fine
  <2>1. /\ j \in E!Upserts /\ adding[j] = 0 /\ ePlace[j] = "none" /\ embedStage[j] = "idle"
        /\ version' = version + 1 /\ exists' = TRUE /\ adding' = [adding EXCEPT ![j] = version + 1]
        /\ UNCHANGED <<text, vector, embedStage>>
        /\ version \in Nat /\ j # Deletion
    BY <1>1 DEF E!Write, E!NewText, EmbedInv, EmbedHeld, E!TypeOK, E!Upserts
  <2>2. /\ E!QueueTypeOK' /\ EmbedLeft' /\ \A o \in Embeds \ {j} : ePlace'[o] = ePlace[o]
        /\ \/ ePlace'[j] = "none" /\ holder' = holder
           \/ ePlace'[j] = "waiting" /\ holder = NoJob /\ holder' = j
    <3>1. CASE E!Lost
      BY <2>1, <3>1 DEF E!Lost, E!queueVars, EmbedInv, E!TypeOK, E!QueueTypeOK, EmbedLeft
    <3>2. CASE holder = NoJob /\ E!Add(j) /\ holder' = j
      <4>1. E!Moves(j, "none", "waiting")
        BY <3>2 DEF E!Add
      <4>2. ePlace'[j] = "waiting"
        BY <4>1 DEF E!Moves, EmbedInv, E!TypeOK, E!QueueTypeOK
      <4> QED
        BY <3>2, <4>1, <4>2, EmbedQueue
    <3> QED
      BY <1>1, <3>1, <3>2 DEF E!Write
  <2>3. E!TypeOK'
    BY <2>1, <2>2 DEF EmbedInv, E!TypeOK
  <2>4. OneEmbedding' /\ EmbedHeld'
    BY <2>1, <2>2, EmbedConstants DEF EmbedInv, OneEmbedding, EmbedHeld, E!TypeOK, E!Upserts
  <2>5. HolderIsOpen'
    <3>1. \A o \in Embeds : adding[o] \in Nat /\ adding[o] <= version
      BY DEF EmbedInv, HolderIsOpen, E!TypeOK
    <3>2. \A o \in Embeds : adding'[o] <= version'
      BY <2>1, <3>1 DEF EmbedInv, E!TypeOK
    <3>3. text # Nothing => text <= version /\ text <= version' /\ text # 0
      BY <1>a, <2>1 DEF EmbedInv, HolderIsOpen
    <3>4. ASSUME NEW o \in E!Upserts, ePlace'[o] \in {"waiting", "active"}
          PROVE  holder' = o /\ (text # Nothing => text <= adding'[o])
      <4>1. CASE o = j
        BY <2>1, <2>2, <3>3, <3>4, <4>1 DEF EmbedInv, E!TypeOK
      <4>2. CASE o # j
        <5>1. holder = o /\ (text # Nothing => text <= adding[o])
          BY <2>2, <3>4, <4>2 DEF EmbedInv, HolderIsOpen, E!Upserts
        <5> QED
          BY <2>1, <2>2, <4>2, <5>1, EmbedConstants DEF EmbedInv, E!TypeOK, E!Upserts
      <4> QED
        BY <4>1, <4>2
    <3> QED
      BY <2>1, <3>2, <3>3, <3>4 DEF HolderIsOpen
  <2>6. VectorFollows'
    <3>1. ASSUME text # Nothing, vector # text
          PROVE  \E o \in E!Upserts : adding'[o] = text /\ ePlace'[o] # "completed"
      <4>1. PICK o \in E!Upserts : adding[o] = text /\ ePlace[o] # "completed"
        BY <3>1 DEF EmbedInv, VectorFollows, E!VectorOfItsText
      <4>2. CASE o # j
        BY <2>1, <2>2, <4>1, <4>2 DEF E!Upserts, EmbedInv, E!TypeOK
      <4>3. o # j
        BY <2>1, <3>1, <4>1 DEF EmbedInv, HolderIsOpen
      <4> QED
        BY <4>2, <4>3
    <3>2. \A o \in E!Upserts : embedStage'[o] = "written" => text' = adding'[o]
      BY <2>1 DEF EmbedInv, VectorFollows, E!Upserts, E!TypeOK
    <3> QED
      BY <2>1, <3>1, <3>2 DEF VectorFollows, E!VectorOfItsText
  <2> QED
    BY <1>a, <2>1, <2>2, <2>3, <2>4, <2>5, <2>6 DEF EmbedInv
<1>2. CASE E!Delete
  <2>1. UNCHANGED <<version, adding, holder, text, vector, embedStage>> /\ exists' \in BOOLEAN
    BY <1>2 DEF E!Delete, E!Lost
  <2>2. /\ E!QueueTypeOK' /\ EmbedLeft'
        /\ \A o \in Embeds \ {Deletion} : ePlace'[o] = ePlace[o]
        /\ \/ ePlace'[Deletion] = ePlace[Deletion]
           \/ ePlace[Deletion] = "none" /\ ePlace'[Deletion] = "waiting"
    <3>1. CASE E!Lost
      BY <3>1 DEF E!Lost, E!queueVars, EmbedInv, E!TypeOK, E!QueueTypeOK, EmbedLeft
    <3>2. CASE E!Add(Deletion)
      <4>1. E!Moves(Deletion, "none", "waiting")
        BY <3>2 DEF E!Add
      <4>2. ePlace[Deletion] = "none" /\ ePlace'[Deletion] = "waiting"
        BY <4>1, EmbedConstants DEF E!Moves, EmbedInv, E!TypeOK, E!QueueTypeOK
      <4> QED
        BY <4>1, <4>2, EmbedConstants, EmbedQueue
    <3> QED
      BY <1>2, <3>1, <3>2 DEF E!Delete
  <2>3. E!TypeOK'
    BY <2>1, <2>2 DEF EmbedInv, E!TypeOK
  <2>4. OneEmbedding' /\ EmbedHeld' /\ HolderIsOpen' /\ VectorFollows'
    BY <2>1, <2>2, EmbedConstants DEF EmbedInv, OneEmbedding, EmbedHeld, HolderIsOpen, VectorFollows,
       E!VectorOfItsText, E!Upserts
  <2> QED
    BY <1>a, <2>1, <2>2, <2>3, <2>4 DEF EmbedInv
<1>3. CASE E!Forget
  <2>1. UNCHANGED <<ePlace, eTries, eStalls, version, exists, adding, text, vector, embedStage>>
        /\ holder' = NoJob /\ ePlace[holder] \in {"completed", "failed"}
    BY <1>3 DEF E!Forget, E!queueVars, E!Over
  <2>2. E!TypeOK' /\ EmbedLeft' /\ OneEmbedding' /\ EmbedHeld' /\ VectorFollows'
    BY <2>1 DEF EmbedInv, E!TypeOK, E!QueueTypeOK, EmbedLeft, OneEmbedding, EmbedHeld, VectorFollows,
       E!VectorOfItsText
  <2>3. HolderIsOpen'
    BY <2>1 DEF EmbedInv, HolderIsOpen
  <2> QED
    BY <1>a, <2>1, <2>2, <2>3 DEF EmbedInv
<1>4. ASSUME NEW j \in Embeds, E!Start(j) PROVE Fine
  <2>1. E!Moves(j, "waiting", "active") /\ \A o \in Embeds : ePlace[o] # "active"
    BY <1>4 DEF E!Start, E!TakeOneOf
  <2>2. ePlace[j] = "waiting" /\ ePlace'[j] = "active"
    BY <2>1 DEF E!Moves, EmbedInv, E!TypeOK, E!QueueTypeOK
  <2>3. E!QueueTypeOK' /\ EmbedLeft' /\ \A o \in Embeds \ {j} : ePlace'[o] = ePlace[o]
    BY <2>1, EmbedQueue
  <2>4. OneEmbedding'
    BY <2>1, <2>3 DEF OneEmbedding
  <2> QED
    BY <1>a, <1>4, <2>2, <2>3, <2>4, EmbedKept DEF E!Start
<1>5. ASSUME NEW j \in Embeds, E!WorkFails(j) \/ E!WorkerDies(j) PROVE Fine
  <2>1. (E!Throws(j) \/ E!Dies(j)) /\ embedStage' = [embedStage EXCEPT ![j] = "idle"]
        /\ UNCHANGED <<version, exists, adding, holder, text, vector>>
    BY <1>5 DEF E!WorkFails, E!WorkerDies
  <2>2. ePlace[j] = "active" /\ ePlace'[j] \in {"waiting", "failed"}
    BY <2>1 DEF E!Throws, E!Dies, EmbedInv, E!TypeOK, E!QueueTypeOK
  <2>3. E!QueueTypeOK' /\ EmbedLeft' /\ \A o \in Embeds \ {j} : ePlace'[o] = ePlace[o]
    BY <2>1, EmbedQueue
  <2>4. OneEmbedding'
    BY <2>2, <2>3 DEF EmbedInv, OneEmbedding
  <2> QED
    BY <1>a, <2>1, <2>2, <2>3, <2>4, EmbedKept
<1>6. ASSUME NEW j \in Embeds, E!GenerateEmbedding(j) PROVE Fine
  <2>1. /\ j \in E!Upserts /\ embedStage[j] = "asking" /\ embedStage' = [embedStage EXCEPT ![j] = "embedded"]
        /\ UNCHANGED <<ePlace, eTries, eStalls, version, exists, adding, holder, text, vector>>
    BY <1>6 DEF E!GenerateEmbedding, E!queueVars
  <2>2. E!TypeOK' /\ EmbedLeft' /\ OneEmbedding' /\ HolderIsOpen'
    BY <2>1 DEF EmbedInv, E!TypeOK, E!QueueTypeOK, E!Stages, EmbedLeft, OneEmbedding, HolderIsOpen
  <2>3. EmbedHeld' /\ VectorFollows'
    BY <2>1 DEF EmbedInv, E!TypeOK, E!Stages, E!Upserts, EmbedHeld, VectorFollows, E!VectorOfItsText
  <2> QED
    BY <1>a, <2>1, <2>2, <2>3 DEF EmbedInv
<1>7. ASSUME NEW j \in Embeds, E!UpsertRow(j) PROVE Fine
  <2>1. /\ embedStage[j] = "embedded" /\ embedStage' = [embedStage EXCEPT ![j] = "written"]
        /\ text' = adding[j]
        /\ UNCHANGED <<ePlace, eTries, eStalls, version, exists, adding, holder, vector>>
    BY <1>7 DEF E!UpsertRow, E!queueVars
  <2>2. j \in E!Upserts /\ ePlace[j] = "active" /\ adding[j] \in Nat /\ adding[j] # 0
    BY <2>1 DEF EmbedInv, E!TypeOK, EmbedHeld, E!Upserts
  <2>3. NotOlder
    BY <1>a, <2>1, <2>2 DEF EmbedInv, HolderIsOpen, NotOlder
  <2>4. E!TypeOK' /\ EmbedLeft' /\ OneEmbedding'
    BY <2>1, <2>2 DEF EmbedInv, E!TypeOK, E!QueueTypeOK, E!Stages, EmbedLeft, OneEmbedding
  <2>5. EmbedHeld'
    BY <2>1, <2>2 DEF EmbedInv, EmbedHeld, E!TypeOK, E!Stages, E!Upserts
  <2>6. HolderIsOpen'
    <3>1. adding[j] <= version
      BY <2>2 DEF EmbedInv, HolderIsOpen
    <3>2. \A o \in E!Upserts : ePlace[o] \in {"waiting", "active"} => o = j
      BY <2>2 DEF EmbedInv, HolderIsOpen
    <3> QED
      BY <2>1, <2>2, <3>1, <3>2 DEF EmbedInv, HolderIsOpen
  <2>7. VectorFollows'
    <3>1. \A o \in E!Upserts : embedStage'[o] = "written" => o = j
      BY <2>1, <2>2 DEF EmbedInv, EmbedHeld, OneEmbedding, E!TypeOK, E!Upserts
    <3> QED
      BY <2>1, <2>2, <3>1 DEF EmbedInv, VectorFollows, E!VectorOfItsText
  <2> QED
    BY <2>3, <2>4, <2>5, <2>6, <2>7 DEF EmbedInv
<1>8. ASSUME NEW j \in Embeds, E!Remove(j) \/ E!WriteVector(j) PROVE Fine
  <2>1. /\ E!Moves(j, "active", "completed") /\ embedStage' = [embedStage EXCEPT ![j] = "idle"]
        /\ UNCHANGED <<version, exists, adding, holder>>
    BY <1>8 DEF E!Remove, E!WriteVector, E!Completes
  <2>2. ePlace[j] = "active" /\ ePlace'[j] = "completed"
    BY <2>1 DEF E!Moves, EmbedInv, E!TypeOK, E!QueueTypeOK
  <2>3. E!QueueTypeOK' /\ EmbedLeft' /\ \A o \in Embeds \ {j} : ePlace'[o] = ePlace[o]
    BY <2>1, EmbedQueue
  <2>4. /\ text' = Nothing \/ text' = text
        /\ vector' = text'
    <3>1. CASE E!Remove(j)
      BY <3>1 DEF E!Remove
    <3>2. CASE E!WriteVector(j)
      <4>1. j \in E!Upserts /\ embedStage[j] = "written"
        BY <3>2 DEF E!WriteVector, EmbedInv, EmbedHeld, E!Upserts
      <4>2. text = adding[j] /\ adding[j] \in Nat
        BY <4>1 DEF EmbedInv, VectorFollows, E!TypeOK
      <4> QED
        BY <3>2, <4>2, EmbedConstants DEF E!WriteVector
    <3> QED
      BY <1>8, <3>1, <3>2
  <2>5. NotOlder
    BY <1>a, <2>4 DEF NotOlder
  <2>6. E!TypeOK' /\ OneEmbedding' /\ EmbedHeld'
    BY <2>1, <2>2, <2>3, <2>4, EmbedConstants
       DEF EmbedInv, E!TypeOK, E!Stages, OneEmbedding, EmbedHeld, E!Upserts
  <2>7. HolderIsOpen'
    BY <2>1, <2>2, <2>3, <2>4 DEF EmbedInv, HolderIsOpen, E!Upserts
  <2>8. VectorFollows'
    <3>1. \A o \in E!Upserts : embedStage'[o] = "written" => FALSE
      BY <2>1, <2>2 DEF EmbedInv, EmbedHeld, OneEmbedding, E!TypeOK, E!Upserts
    <3> QED
      BY <2>4, <3>1 DEF VectorFollows, E!VectorOfItsText
  <2> QED
    BY <2>3, <2>5, <2>6, <2>7, <2>8 DEF EmbedInv
<1>9. CASE UNCHANGED E!vars
  BY <1>9 DEF E!vars, E!queueVars, EmbedInv, E!TypeOK, E!QueueTypeOK, EmbedLeft, OneEmbedding, EmbedHeld,
     HolderIsOpen, VectorFollows, E!VectorOfItsText
<1> QED
  BY <1>1, <1>2, <1>3, <1>4, <1>5, <1>6, <1>7, <1>8, <1>9 DEF E!Next, E!Work

\* The inductive invariant of Embeddings.
THEOREM EmbedInvariant == E!Spec => []EmbedInv
  BY EmbedInit, EmbedStep, PTL DEF E!Spec

\* A vector of another text than its row's is left by a job that did not complete.
THEOREM VectorsAreOfTheirText == E!Spec => []E!VectorOfItsText
<1>1. EmbedInv => E!VectorOfItsText
  BY DEF EmbedInv, VectorFollows
<1> QED
  BY <1>1, EmbedInvariant, PTL

\* No attempt of a job replaces the text of a row by an older one.
THEOREM TextsAreNeverOlder == E!Spec => E!NeverOlder
<1>1. [NotOlder]_(E!vars) => [text # Nothing /\ text' # Nothing => text' >= text]_(E!vars)
  BY DEF NotOlder
<1> QED
  BY <1>1, EmbedInvariant, EmbedStep, PTL DEF E!Spec, E!NeverOlder

NothingEmbedded ==
  ~ColumnsMatch => vector = Nothing /\ \A j \in E!Upserts : ePlace[j] # "completed"

\* While the raw UPDATE names columns that the table has not, no vector is ever
\* written and no upsert completes.
THEOREM SourceEmbedsNothing == E!Spec => []NothingEmbedded
<1>1. E!Init => NothingEmbedded
  BY DEF E!Init, E!QueueInit, NothingEmbedded, E!Upserts
<1>2. EmbedInv /\ NothingEmbedded /\ [E!Next]_(E!vars) => NothingEmbedded'
  <2> SUFFICES ASSUME EmbedInv, NothingEmbedded, [E!Next]_(E!vars), ~ColumnsMatch
               PROVE  vector' = Nothing /\ \A j \in E!Upserts : ePlace'[j] # "completed"
    BY DEF NothingEmbedded
  <2>1. vector = Nothing /\ \A j \in E!Upserts : ePlace[j] # "completed"
    BY DEF NothingEmbedded
  <2>2. ePlace \in [Embeds -> {"none", "waiting", "active"} \cup E!Over]
    BY DEF EmbedInv, E!TypeOK, E!QueueTypeOK
  <2>3. ASSUME NEW j \in Embeds, E!Remove(j)
        PROVE  vector' = Nothing /\ \A i \in E!Upserts : ePlace'[i] # "completed"
    BY <2>1, <2>2, <2>3 DEF E!Remove, E!Completes, E!Moves, E!Upserts
  <2>4. ASSUME NEW j \in Embeds, E!WriteVector(j) PROVE FALSE
    BY <2>4 DEF E!WriteVector
  <2>5. ASSUME NEW j \in Embeds, E!Start(j) \/ E!WorkFails(j) \/ E!WorkerDies(j)
        PROVE  vector' = Nothing /\ \A i \in E!Upserts : ePlace'[i] # "completed"
    BY <2>1, <2>2, <2>5 DEF E!Start, E!TakeOneOf, E!Moves, E!WorkFails, E!Throws, E!WorkerDies, E!Dies,
       E!stored, E!Upserts
  <2>6. ASSUME NEW j \in Embeds, E!GenerateEmbedding(j) \/ E!UpsertRow(j)
        PROVE  UNCHANGED <<vector, ePlace>>
    BY <2>6 DEF E!GenerateEmbedding, E!UpsertRow, E!stored, E!queueVars
  <2>7. ASSUME NEW j \in Embeds, E!Write(j)
        PROVE  vector' = Nothing /\ \A i \in E!Upserts : ePlace'[i] # "completed"
    BY <2>1, <2>2, <2>7 DEF E!Write, E!NewText, E!Lost, E!Add, E!Moves, E!stored, E!queueVars, E!Upserts
  <2>8. CASE E!Delete
    BY <2>1, <2>2, <2>8, EmbedConstants DEF E!Delete, E!Lost, E!Add, E!Moves, E!stored, E!queueVars, E!Upserts
  <2>9. CASE E!Forget \/ UNCHANGED E!vars
    BY <2>1, <2>9 DEF E!Forget, E!stored, E!queueVars, E!vars
  <2> QED
    BY <2>1, <2>3, <2>4, <2>5, <2>6, <2>7, <2>8, <2>9 DEF E!Next, E!Work
<1> QED
  BY <1>1, <1>2, EmbedInvariant, PTL DEF E!Spec

-----------------------------------------------------------------------------

(* ApiClient.                                                              *)

LEMMA ClientConstants == MaxTokens \in Nat /\ MaxTokens > 0 /\ NoToken \notin Nat
  BY QueuesAssumption DEF QueuesAssumption, C!ClientAssumption

LEMMA ClientInit == C!Init => ClientInv
<1> SUFFICES ASSUME C!Init PROVE ClientInv
  OBVIOUS
<1>1. 1 \in 1 .. MaxTokens /\ 1 \in 1 .. MaxTokens + 1
  BY ClientConstants
<1>2. C!TypeOK
  BY <1>1 DEF C!Init, C!TypeOK
<1>3. OneFlag
  BY DEF C!Init, OneFlag, C!Refreshing, C!failedQueue
<1> QED
  BY <1>2, <1>3 DEF ClientInv

\* Ends of a refresh: it takes the whole queue with it.
LEMMA RefreshEnds ==
  ASSUME ClientInv, NEW c \in Calls, where[c] = "refreshing", NEW next \in {"sent", "rejected"},
         where' = [d \in Calls |-> IF d \in C!failedQueue \cup {c} THEN next ELSE where[d]],
         ~isRefreshing'
  PROVE  OneFlag'
<1>1. C!Refreshing = {c}
  BY DEF ClientInv, OneFlag, C!Refreshing
<1>2. C!Refreshing' = {} /\ C!failedQueue' = {}
  BY <1>1 DEF C!Refreshing, C!failedQueue
<1> QED
  BY <1>2 DEF OneFlag

LEMMA ClientStep == ClientInv /\ [C!Next]_(C!vars) => ClientInv'
<1> SUFFICES ASSUME ClientInv, [C!Next]_(C!vars) PROVE ClientInv'
  OBVIOUS
<1> USE DEF C!server, C!Gets
<1>1. ASSUME NEW c \in Calls, C!Send(c) PROVE ClientInv'
  <2>1. C!TypeOK'
    BY <1>1, ClientConstants DEF C!Send, ClientInv, C!TypeOK
  <2>2. C!Refreshing' = C!Refreshing /\ C!failedQueue' = C!failedQueue
    BY <1>1 DEF C!Send, ClientInv, C!TypeOK, C!Refreshing, C!failedQueue
  <2> QED
    BY <1>1, <2>1, <2>2 DEF C!Send, ClientInv, OneFlag
<1>2. CASE C!Expire \/ C!SessionEnds
  <2>1. valid' \in 1 .. MaxTokens + 1
    <3>1. CASE C!Expire
      <4>1. token \in 1 .. MaxTokens
        BY <3>1 DEF C!Expire, ClientInv, C!TypeOK
      <4> QED
        BY <3>1, <4>1, ClientConstants DEF C!Expire
    <3>2. CASE C!SessionEnds
      BY <3>2 DEF C!SessionEnds, ClientInv, C!TypeOK
    <3> QED
      BY <1>2, <3>1, <3>2
  <2>2. UNCHANGED <<token, unreachable, isRefreshing, where, with, retried>> /\ session' \in BOOLEAN
    BY <1>2 DEF C!Expire, C!SessionEnds, ClientInv, C!TypeOK
  <2> QED
    BY <2>1, <2>2 DEF ClientInv, C!TypeOK, OneFlag, C!Refreshing, C!failedQueue
<1>3. ASSUME NEW c \in Calls, C!Answered(c) PROVE ClientInv'
  <2>1. C!TypeOK'
    BY <1>3 DEF C!Answered, ClientInv, C!TypeOK
  <2>2. C!Refreshing' = C!Refreshing /\ C!failedQueue' = C!failedQueue
    BY <1>3 DEF C!Answered, ClientInv, C!TypeOK, C!Refreshing, C!failedQueue
  <2> QED
    BY <1>3, <2>1, <2>2 DEF C!Answered, ClientInv, OneFlag
<1>4. ASSUME NEW c \in Calls, C!Unauthorized(c) PROVE ClientInv'
  <2>1. C!TypeOK'
    BY <1>4 DEF C!Unauthorized, ClientInv, C!TypeOK
  <2>2. CASE C!Gets(c, "rejected") /\ UNCHANGED isRefreshing
    <3>1. C!Refreshing' = C!Refreshing /\ C!failedQueue' = C!failedQueue
      BY <1>4, <2>2 DEF C!Unauthorized, ClientInv, C!TypeOK, C!Refreshing, C!failedQueue
    <3> QED
      BY <2>1, <2>2, <3>1 DEF ClientInv, OneFlag
  <2>3. CASE C!Gets(c, "queued") /\ isRefreshing /\ UNCHANGED isRefreshing
    <3>1. C!Refreshing' = C!Refreshing
      BY <1>4, <2>3 DEF C!Unauthorized, ClientInv, C!TypeOK, C!Refreshing
    <3> QED
      BY <2>1, <2>3, <3>1 DEF ClientInv, OneFlag
  <2>4. CASE C!Gets(c, "refreshing") /\ ~isRefreshing /\ isRefreshing'
    <3>1. C!Refreshing = {}
      BY <2>4 DEF ClientInv, OneFlag
    <3>2. C!Refreshing' = {c}
      BY <2>4, <3>1 DEF ClientInv, C!TypeOK, C!Refreshing
    <3> QED
      BY <2>1, <2>4, <3>2 DEF ClientInv, OneFlag
  <2> QED
    BY <1>4, <2>2, <2>3, <2>4 DEF C!Unauthorized
<1>5. ASSUME NEW c \in Calls, C!Refreshed(c) PROVE ClientInv'
  <2>1. C!TypeOK'
    <3>1. valid \in 1 .. MaxTokens
      BY <1>5, ClientConstants DEF C!Refreshed, ClientInv, C!TypeOK
    <3>2. token' \in 1 .. MaxTokens \cup {NoToken}
      BY <1>5, <3>1 DEF C!Refreshed
    <3>3. where' \in [Calls -> {"none", "sent", "queued", "refreshing", "answered", "rejected"}]
      BY <1>5 DEF C!Refreshed, ClientInv, C!TypeOK
    <3>4. with' \in [Calls -> 1 .. MaxTokens \cup {NoToken}]
      BY <1>5, <3>2 DEF C!Refreshed, ClientInv, C!TypeOK
    <3> QED
      BY <1>5, <3>2, <3>3, <3>4 DEF C!Refreshed, ClientInv, C!TypeOK
  <2>2. OneFlag'
    BY <1>5, RefreshEnds DEF C!Refreshed
  <2> QED
    BY <2>1, <2>2 DEF ClientInv
<1>6. ASSUME NEW c \in Calls, C!RefreshRefused(c) \/ C!RefreshLost(c) PROVE ClientInv'
  <2>1. C!TypeOK'
    BY <1>6 DEF C!RefreshRefused, C!RefreshLost, C!Fail, ClientInv, C!TypeOK
  <2>2. OneFlag'
    BY <1>6, RefreshEnds DEF C!RefreshRefused, C!RefreshLost, C!Fail
  <2> QED
    BY <2>1, <2>2 DEF ClientInv
<1>7. CASE UNCHANGED C!vars
  BY <1>7 DEF C!vars, ClientInv, C!TypeOK, OneFlag, C!Refreshing, C!failedQueue
<1> QED
  BY <1>1, <1>2, <1>3, <1>4, <1>5, <1>6, <1>7 DEF C!Next, C!Network

\* The inductive invariant of ApiClient.
THEOREM ClientInvariant == C!Spec => []ClientInv
  BY ClientInit, ClientStep, PTL DEF C!Spec

LEMMA ClientCardinality == ASSUME NEW S PROVE C!Cardinality(S) = Cardinality(S)
  BY DEF C!Cardinality, Cardinality

\* Requests that are answered with 401 at once refresh once, and none of them waits
\* for a refresh that is over.
THEOREM RefreshesAreOne == C!Spec => []C!OneRefresh
<1>1. ASSUME ClientInv PROVE C!OneRefresh
  <2>1. CASE isRefreshing
    <3>1. PICK c \in Calls : C!Refreshing = {c}
      BY <1>1, <2>1 DEF ClientInv, OneFlag
    <3>2. Cardinality({c}) = 1
      BY FS_Singleton
    <3> QED
      BY <1>1, <2>1, <3>1, <3>2, ClientCardinality DEF ClientInv, OneFlag, C!OneRefresh
  <2>2. CASE ~isRefreshing
    <3>1. C!Refreshing = {} /\ Cardinality({}) = 0
      BY <1>1, <2>2, FS_EmptySet DEF ClientInv, OneFlag
    <3> QED
      BY <1>1, <2>2, <3>1, ClientCardinality DEF ClientInv, OneFlag, C!OneRefresh
  <2> QED
    BY <2>1, <2>2
<1> QED
  BY <1>1, ClientInvariant, PTL

\* A refresh that carried its token would keep the page logged in while the server has
\* its session: nothing but the missing body takes it away.
THEOREM SessionsAreKept == SendsRefresh => (C!Spec => []C!KeepsSession)
<1> SUFFICES ASSUME SendsRefresh PROVE C!Spec => []C!KeepsSession
  OBVIOUS
<1>1. C!Init => C!KeepsSession
  BY ClientConstants DEF C!Init, C!KeepsSession
<1>2. ClientInv /\ C!KeepsSession /\ [C!Next]_(C!vars) => C!KeepsSession'
  <2> SUFFICES ASSUME ClientInv, C!KeepsSession, [C!Next]_(C!vars) PROVE C!KeepsSession'
    OBVIOUS
  <2>1. ASSUME NEW c \in Calls, C!Refreshed(c) PROVE C!KeepsSession'
    <3>1. valid \in Nat /\ token' = valid
      BY <2>1, ClientConstants DEF C!Refreshed, ClientInv, C!TypeOK
    <3> QED
      BY <3>1, ClientConstants DEF C!KeepsSession
  <2>2. ASSUME NEW c \in Calls, C!RefreshRefused(c) PROVE C!KeepsSession'
    BY <2>2 DEF C!RefreshRefused, C!server, C!KeepsSession
  <2>3. ASSUME NEW c \in Calls, C!RefreshLost(c) PROVE C!KeepsSession'
    BY <2>3 DEF C!RefreshLost, C!KeepsSession
  <2>4. ASSUME NEW c \in Calls, C!Send(c) \/ C!Answered(c) \/ C!Unauthorized(c)
        PROVE  C!KeepsSession'
    BY <2>4 DEF C!Send, C!Answered, C!Unauthorized, C!server, C!KeepsSession
  <2>5. CASE C!Expire \/ C!SessionEnds \/ UNCHANGED C!vars
    BY <2>5 DEF C!Expire, C!SessionEnds, C!vars, C!KeepsSession
  <2> QED
    BY <2>1, <2>2, <2>3, <2>4, <2>5 DEF C!Next, C!Network
<1> QED
  BY <1>1, <1>2, ClientInvariant, PTL DEF C!Spec

NothingRenewed ==
  ~SendsRefresh =>
    /\ token \in {1, NoToken}
    /\ \A c \in Calls : with[c] \in {1, NoToken} /\ (retried[c] => where[c] \in {"refreshing", "rejected"})

\* With the source's refresh, the page never has another access token than that of
\* its login, and a request that was answered with 401 is not sent again.
THEOREM SourceRenewsNothing == C!Spec => []NothingRenewed
<1>1. C!Init => NothingRenewed
  BY DEF C!Init, NothingRenewed
<1>2. ClientInv /\ NothingRenewed /\ [C!Next]_(C!vars) => NothingRenewed'
  <2> SUFFICES ASSUME ClientInv, NothingRenewed, [C!Next]_(C!vars), ~SendsRefresh
               PROVE  NothingRenewed'
    BY DEF NothingRenewed
  <2>0. /\ with \in [Calls -> 1 .. MaxTokens \cup {NoToken}] /\ retried \in [Calls -> BOOLEAN]
        /\ where \in [Calls -> {"none", "sent", "queued", "refreshing", "answered", "rejected"}]
    BY DEF ClientInv, C!TypeOK
  <2>1. ASSUME NEW c \in Calls, C!Refreshed(c) PROVE FALSE
    BY <2>1 DEF C!Refreshed
  <2>2. ASSUME NEW c \in Calls, C!RefreshRefused(c) \/ C!RefreshLost(c) PROVE NothingRenewed'
    <3>1. /\ token' = NoToken /\ UNCHANGED <<with, retried>>
          /\ \A d \in Calls : where'[d] \in {where[d], "rejected"}
      BY <2>2 DEF C!RefreshRefused, C!RefreshLost, C!Fail
    <3> QED
      BY <3>1 DEF NothingRenewed
  <2>3. ASSUME NEW c \in Calls, C!Send(c) PROVE NothingRenewed'
    BY <2>0, <2>3 DEF C!Send, C!Gets, NothingRenewed
  <2>4. ASSUME NEW c \in Calls, C!Answered(c) PROVE NothingRenewed'
    BY <2>0, <2>4 DEF C!Answered, C!Gets, NothingRenewed
  <2>5. ASSUME NEW c \in Calls, C!Unauthorized(c) PROVE NothingRenewed'
    BY <2>0, <2>5 DEF C!Unauthorized, C!Gets, NothingRenewed
  <2>6. CASE C!Expire \/ C!SessionEnds \/ UNCHANGED C!vars
    BY <2>6 DEF C!Expire, C!SessionEnds, C!vars, NothingRenewed
  <2> QED
    BY <2>1, <2>2, <2>3, <2>4, <2>5, <2>6 DEF C!Next, C!Network
<1> QED
  BY <1>1, <1>2, ClientInvariant, PTL DEF C!Spec

-----------------------------------------------------------------------------

(* Queues.                                                                 *)

\* A behaviour of Queues is one of each part: the parts that are not at work stutter.
LEMMA QueuesPartsInit == QueuesInit => M!Init /\ W!Init /\ N!Init /\ E!Init /\ C!Init
  BY DEF QueuesInit

LEMMA QueuesPartsStep ==
  [QueuesNext]_queuesVars =>
    /\ [M!Next]_(M!vars) /\ [W!Next]_(W!vars) /\ [N!Next]_(N!vars) /\ [E!Next]_(E!vars) /\ [C!Next]_(C!vars)
<1> SUFFICES ASSUME [QueuesNext]_queuesVars
             PROVE  /\ [M!Next]_(M!vars) /\ [W!Next]_(W!vars) /\ [N!Next]_(N!vars)
                    /\ [E!Next]_(E!vars) /\ [C!Next]_(C!vars)
  OBVIOUS
<1> USE DEF messageVars, webhookVars, notificationVars, embeddingVars, clientVars,
     M!vars, M!queueVars, W!vars, W!queueVars, N!vars, N!queueVars, E!vars, E!queueVars, C!vars
<1>1. CASE MessagePart /\ M!Next /\ FewMessages
  BY <1>1 DEF MessagePart
<1>2. CASE WebhookPart /\ W!Next
  BY <1>2 DEF WebhookPart
<1>3. CASE NotificationPart /\ N!Next
  BY <1>3 DEF NotificationPart
<1>4. CASE EmbeddingPart /\ E!Next
  BY <1>4 DEF EmbeddingPart
<1>5. CASE ClientPart /\ C!Next
  BY <1>5 DEF ClientPart
<1>6. CASE UNCHANGED queuesVars
  BY <1>6 DEF queuesVars
<1> QED
  BY <1>1, <1>2, <1>3, <1>4, <1>5, <1>6 DEF QueuesNext

\* A behaviour of Queues is one of each of its parts.
THEOREM QueuesParts == QueuesSpec => M!Spec /\ W!Spec /\ N!Spec /\ E!Spec /\ C!Spec
  BY QueuesPartsInit, QueuesPartsStep, PTL DEF QueuesSpec, M!Spec, W!Spec, N!Spec, E!Spec, C!Spec

\* The five parts keep their types; no job has more than its attempts.
THEOREM QueuesTypeCorrect == QueuesSpec => []QueuesTypeOK
<1>1. MessageInv /\ PostInv /\ NoticeInv /\ EmbedInv /\ ClientInv => QueuesTypeOK
  BY DEF MessageInv, PostInv, NoticeInv, NoticeRows, EmbedInv, ClientInv, QueuesTypeOK
<1> QED
  BY <1>1, QueuesParts, MessageInvariant, PostInvariant, NoticeInvariant, EmbedInvariant, ClientInvariant, PTL

\* Rows and queue tell of the messages that are sent, none of them more often than
\* its job is handed out.
THEOREM QueuesSendAsRecorded == QueuesSpec => []SentAsRecorded
<1>1. M!CompletedIsSent /\ M!SendsBounded => SentAsRecorded
  BY DEF SentAsRecorded
<1> QED
  BY <1>1, QueuesParts, CompletedAreSent, SendsAreBounded, PTL

\* A failure that is counted has a delivery that shows it.
THEOREM QueuesRecordFailures == QueuesSpec => []FailuresAreRecorded
<1>1. W!FailuresAreRecorded => FailuresAreRecorded
  BY DEF FailuresAreRecorded
<1> QED
  BY <1>1, QueuesParts, FailuresAreShown, PTL

\* A job tells its user, and calls that do not overlap count right.
THEOREM QueuesTellUsers == QueuesSpec => []UsersAreTold
<1>1. N!ToldByItsJob /\ N!ExactWhenAlone => UsersAreTold
  BY DEF UsersAreTold
<1> QED
  BY <1>1, QueuesParts, UsersAreToldOnce, UnreadIsExact, PTL

\* A vector follows its text, and no text is replaced by an older one.
THEOREM QueuesKeepVectors == QueuesSpec => VectorsFollow
  BY QueuesParts, VectorsAreOfTheirText, TextsAreNeverOlder, PTL DEF VectorsFollow

\* One refresh is under way at a time, and nobody waits without one.
THEOREM QueuesRefreshOnce == QueuesSpec => []OneRefresh
<1>1. C!OneRefresh => OneRefresh
  BY DEF OneRefresh
<1> QED
  BY <1>1, QueuesParts, RefreshesAreOne, PTL
=============================================================================
