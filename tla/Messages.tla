------------------------------- MODULE Messages -------------------------------
(***************************************************************************)
(* CommunicationsService, EmailWorker and SmsWorker: a message is a row    *)
(* and a job of its channel's queue, which a worker hands to the provider  *)
(* (SendGrid, Twilio) before it writes the outcome to the row. The emails  *)
(* of automation name a template and have no row. Queries and the provider *)
(* may fail, workers may die, rows and the template may be deleted.        *)
(***************************************************************************)
EXTENDS JobQueue

CONSTANTS
  Texts,      \* the SMS among the messages
  Templated   \* the emails of automation. The others are those of sendEmail, whose
              \* jobs have their body in html, where the worker reads htmlBody

MessageAssumption == Texts \subseteq Jobs /\ Templated \subseteq Jobs \ Texts

VARIABLES
  row,       \* communications.status of each message
  stage,     \* how far its request, or the worker that holds its job, is
  accepted,  \* how often the provider took the message
  template   \* is the template of the Templated stored?

vars == <<queueVars, row, stage, accepted, template>>

Emails == Jobs \ Texts

TypeOK ==
  /\ QueueTypeOK
  /\ row \in [Jobs -> {"none", "QUEUED", "SENT", "FAILED", "deleted"}]
  /\ stage \in [Jobs -> {"idle", "adding", "sending", "accepted", "failing", "written"}]
  /\ accepted \in [Jobs -> Nat]
  /\ template \in BOOLEAN

Init ==
  /\ QueueInit
  /\ row = [m \in Jobs |-> "none"]
  /\ stage = [m \in Jobs |-> "idle"]
  /\ accepted = [m \in Jobs |-> 0]
  /\ template = TRUE

Goes(m, next) == stage' = [stage EXCEPT ![m] = next]
Writes(m, status) == row' = [row EXCEPT ![m] = status]

\* SmsWorker catches what it is thrown, to write FAILED first; EmailWorker does not.
Fails(m) ==
  IF m \in Texts THEN Goes(m, "failing") /\ UNCHANGED queueVars
                 ELSE Throws(m) /\ Goes(m, "idle")
-----------------------------------------------------------------------------
(* sendEmail, sendSms and delete.                                          *)

Create(m) ==
  /\ row[m] = "none" /\ m \notin Templated
  /\ Writes(m, "QUEUED") /\ Goes(m, "adding")
  /\ UNCHANGED <<queueVars, accepted, template>>

\* The add to the queue, or its failure: the row stays QUEUED.
Enqueue(m) ==
  /\ stage[m] = "adding" \/ (m \in Templated /\ place[m] = "none")
  /\ Goes(m, "idle")
  /\ Add(m) \/ UNCHANGED queueVars
  /\ UNCHANGED <<row, accepted, template>>

Delete(m) ==
  /\ row[m] \in {"QUEUED", "SENT", "FAILED"}
  /\ Writes(m, "deleted")
  /\ UNCHANGED <<queueVars, stage, accepted, template>>

DeleteTemplate ==
  /\ template
  /\ template' = FALSE
  /\ UNCHANGED <<queueVars, row, stage, accepted>>

(* The workers.                                                            *)

Start(m) ==
  /\ TakeOneOf(IF m \in Texts THEN Texts ELSE Emails, m)
  /\ Goes(m, "sending")
  /\ UNCHANGED <<row, accepted, template>>

HasBody(m) == m \in Texts \/ (m \in Templated /\ template)

\* An email without a body is an UnrecoverableError.
NoBody(m) ==
  /\ stage[m] = "sending" /\ ~HasBody(m)
  /\ GivesUp(m) /\ Goes(m, "idle")
  /\ UNCHANGED <<row, accepted, template>>

Accept(m) ==
  /\ stage[m] = "sending" /\ HasBody(m)
  /\ accepted' = [accepted EXCEPT ![m] = @ + 1]
  /\ Goes(m, "accepted")
  /\ UNCHANGED <<queueVars, row, template>>

\* The provider refuses it; or the query for the template fails.
Refuse(m) ==
  /\ stage[m] = "sending" /\ (HasBody(m) \/ m \in Templated)
  /\ Fails(m)
  /\ UNCHANGED <<row, accepted, template>>

\* An update of a row that is gone throws.
WriteSent(m) ==
  /\ stage[m] = "accepted" /\ row[m] \notin {"deleted", "none"}
  /\ Writes(m, "SENT") /\ Goes(m, "written")
  /\ UNCHANGED <<queueVars, accepted, template>>

WriteSentFails(m) ==
  /\ stage[m] = "accepted" /\ m \notin Templated
  /\ Fails(m)
  /\ UNCHANGED <<row, accepted, template>>

\* Injected fault: the error is not thrown again.
WriteFailedQuietly(m) ==
  /\ stage[m] = "failing"
  /\ IF row[m] = "deleted" THEN UNCHANGED row ELSE Writes(m, "FAILED")
  /\ Completes(m) /\ Goes(m, "idle")
  /\ UNCHANGED <<accepted, template>>

\* Whether the row takes the failure or not, the error goes on to the queue.
WriteFailed(m) ==
  /\ stage[m] = "failing"
  /\ \/ row[m] # "deleted" /\ Writes(m, "FAILED")
     \/ UNCHANGED row
  /\ Throws(m) /\ Goes(m, "idle")
  /\ UNCHANGED <<accepted, template>>

Finish(m) ==
  /\ stage[m] = "written" \/ (stage[m] = "accepted" /\ m \in Templated)
  /\ Completes(m) /\ Goes(m, "idle")
  /\ UNCHANGED <<row, accepted, template>>

WorkerDies(m) ==
  /\ Dies(m) /\ Goes(m, "idle")
  /\ UNCHANGED <<row, accepted, template>>

Work(m) ==
  \/ Start(m) \/ NoBody(m) \/ Accept(m) \/ Refuse(m) \/ WriteSent(m) \/ WriteSentFails(m)
  \/ WriteFailed(m) \/ Finish(m)

Next ==
  \/ DeleteTemplate
  \/ \E m \in Jobs : Create(m) \/ Enqueue(m) \/ Delete(m) \/ Work(m) \/ WorkerDies(m)

Spec == Init /\ [][Next]_vars

\* The workers go on with the jobs they have.
FairSpec == Spec /\ WF_vars(\E m \in Jobs : Work(m))
-----------------------------------------------------------------------------
\* A completed job has sent its message, and no row says SENT of a message the
\* provider did not take, whichever update, attempt or worker fails.
CompletedIsSent ==
  \A m \in Jobs :
    /\ place[m] = "completed" => accepted[m] > 0 /\ row[m] \notin {"QUEUED", "FAILED"}
    /\ row[m] = "SENT" => accepted[m] > 0

\* A message goes out at most once for each time its job is handed out: a failed
\* update of the row repeats it, nothing else does.
SendsBounded == \A m \in Jobs : accepted[m] <= HandedOut(m)

\* Again and again every message that was queued, if its text can be read, has
\* been handed to the provider, or its attempts or its workers are used up.
GoOut(messages) ==
  []<>(\A m \in messages :
         place[m] = "none" \/ accepted[m] > 0 \/ tries[m] = MaxTries \/ stalls[m] = 2)
MessagesGoOut == GoOut(Texts) /\ (GoOut(Templated) \/ <>(~template))
=============================================================================
