------------------------------ MODULE Embeddings ------------------------------
(***************************************************************************)
(* The stored embedding of one record: activities, tickets and messages    *)
(* queue a job with the record's text when it is created or changed, under *)
(* an id of the record, and a job without an id when it is deleted;        *)
(* AiEmbeddingWorker writes the row and then, in raw SQL, its vector.      *)
(***************************************************************************)
EXTENDS JobQueue

CONSTANTS
  Deletion,      \* the delete-embed job; the other jobs are upserts, one a version
  NoJob, Nothing,
  ColumnsMatch   \* whether the raw UPDATE names columns of the table; in the
                 \* source it does not: tenant_id against the migration's "tenantId"

EmbeddingAssumption ==
  /\ Deletion \in Jobs /\ NoJob \notin Jobs /\ ColumnsMatch \in BOOLEAN
  /\ Nothing \notin Nat

VARIABLES
  version,   \* of the record's text; 0 before it is created
  exists,    \* is there a record?
  adding,    \* the version whose text each upsert carries, once it is written
  holder,    \* the job that the id embed:<type>:<id> stands for
  text,      \* content of the row of ai_embeddings
  vector,    \* the version that its vector is of
  stage      \* how far the worker with each job is

vars == <<queueVars, version, exists, adding, holder, text, vector, stage>>
record == <<version, exists, adding>>
stored == <<text, vector>>

Upserts == Jobs \ {Deletion}
Stages == {"idle", "asking", "embedded", "written"}

TypeOK ==
  /\ QueueTypeOK
  /\ version \in Nat /\ exists \in BOOLEAN
  /\ adding \in [Jobs -> Nat]
  /\ holder \in Upserts \cup {NoJob}
  /\ text \in Nat \cup {Nothing} /\ vector \in Nat \cup {Nothing}
  /\ stage \in [Jobs -> Stages]

Init ==
  /\ QueueInit
  /\ version = 0 /\ exists = FALSE
  /\ adding = [j \in Jobs |-> 0]
  /\ holder = NoJob
  /\ text = Nothing /\ vector = Nothing
  /\ stage = [j \in Jobs |-> "idle"]

Goes(j, next) == stage' = [stage EXCEPT ![j] = next]

\* The record is created, or its text is changed: the handler writes it and calls
\* add, whose failure it only logs.
NewText(j) ==
  /\ j \in Upserts /\ adding[j] = 0
  /\ exists \/ version = 0
  /\ version' = version + 1 /\ exists' = TRUE
  /\ adding' = [adding EXCEPT ![j] = version']
  /\ UNCHANGED <<stored, stage>>

\* Injected fault: the job is added whatever its id stands for.
WriteAndAdd(j) == NewText(j) /\ Add(j) /\ holder' = j

Lost == UNCHANGED <<queueVars, holder>>

\* The queue drops a job whose id stands for another, one that has ended included.
Write(j) ==
  /\ NewText(j)
  /\ Lost \/ (holder = NoJob /\ Add(j) /\ holder' = j)

Delete ==
  /\ exists
  /\ exists' = FALSE
  /\ Lost \/ (Add(Deletion) /\ UNCHANGED holder)
  /\ UNCHANGED <<version, adding, stored, stage>>

\* Old jobs are removed, and their ids with them.
Forget ==
  /\ holder # NoJob /\ place[holder] \in Over
  /\ holder' = NoJob
  /\ UNCHANGED <<queueVars, record, stored, stage>>
-----------------------------------------------------------------------------
(* The worker.                                                             *)

Start(j) ==
  /\ TakeOneOf(Jobs, j) /\ Goes(j, "asking")
  /\ UNCHANGED <<record, holder, stored>>

\* deleteEmbedding.
Remove(j) ==
  /\ j = Deletion /\ stage[j] = "asking"
  /\ text' = Nothing /\ vector' = Nothing
  /\ Completes(j) /\ Goes(j, "idle")
  /\ UNCHANGED <<record, holder>>

GenerateEmbedding(j) ==
  /\ j \in Upserts /\ stage[j] = "asking"
  /\ Goes(j, "embedded")
  /\ UNCHANGED <<queueVars, record, holder, stored>>

UpsertRow(j) ==
  /\ stage[j] = "embedded"
  /\ text' = adding[j]
  /\ Goes(j, "written")
  /\ UNCHANGED <<queueVars, record, holder, vector>>

\* Injected fault: the worker forgets that the row may be gone or refused.
WriteVectorOrNot(j) ==
  /\ stage[j] = "written"
  /\ vector' \in {adding[j], vector}
  /\ Completes(j) /\ Goes(j, "idle")
  /\ UNCHANGED <<record, holder, text>>

\* An UPDATE of a row that is gone changes nothing.
WriteVector(j) ==
  /\ stage[j] = "written" /\ ColumnsMatch
  /\ vector' = IF text = Nothing THEN vector ELSE adding[j]
  /\ Completes(j) /\ Goes(j, "idle")
  /\ UNCHANGED <<record, holder, text>>

\* OpenAI or a query before the raw UPDATE fails, or that UPDATE has no such column.
WorkFails(j) ==
  /\ stage[j] \in {"asking", "embedded"} \/ (stage[j] = "written" /\ ~ColumnsMatch)
  /\ Throws(j) /\ Goes(j, "idle")
  /\ UNCHANGED <<record, holder, stored>>

WorkerDies(j) ==
  /\ Dies(j) /\ Goes(j, "idle")
  /\ UNCHANGED <<record, holder, stored>>

Work(j) ==
  \/ Start(j) \/ GenerateEmbedding(j) \/ UpsertRow(j) \/ WriteVector(j)
  \/ Remove(j) \/ WorkFails(j)

Next ==
  \/ Delete \/ Forget
  \/ \E j \in Jobs : Write(j) \/ Work(j) \/ WorkerDies(j)

Spec == Init /\ [][Next]_vars
FairSpec == Spec /\ WF_vars(\E j \in Jobs : Work(j))
-----------------------------------------------------------------------------
\* A row whose vector is of another text than its own is one whose job has not
\* completed: the two are written apart.
VectorOfItsText ==
  text # Nothing /\ vector # text =>
    \E j \in Upserts : adding[j] = text /\ place[j] # "completed"

\* The id of the record keeps its jobs in order: a retry never replaces a text by
\* an older one, although attempts of several jobs could otherwise overlap.
NeverOlder == [][text # Nothing /\ text' # Nothing => text' >= text]_vars

\* Every job of the record ends.
JobsEnd == []<>(\A j \in Jobs : place[j] \in {"none"} \cup Over)
=============================================================================
