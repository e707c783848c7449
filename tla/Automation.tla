------------------------------ MODULE Automation ------------------------------
(***************************************************************************)
(* AutomationService.processEvent, called for each job of the automation   *)
(* queue: every active workflow that listens to the event gets an          *)
(* execution record, its conditions are evaluated, its actions executed in *)
(* order, and the outcome is recorded and counted; meanwhile tenants       *)
(* toggle and delete workflows. All workflows here listen to the event.    *)
(***************************************************************************)
EXTENDS Naturals, Sequences

CONSTANTS
  Events,      \* jobs of the automation queue
  Workflows,
  ActionsOf,   \* [Workflows -> Seq(BOOLEAN)]: stopOnFailure of each action, in order
  NoWorkflow,
  MaxTries     \* attempts of an automation job (2 in the source)

AutomationAssumption ==
  /\ ActionsOf \in [Workflows -> Seq(BOOLEAN)]
  /\ NoWorkflow \notin Workflows
  /\ MaxTries \in Nat /\ MaxTries > 0

VARIABLES
  stored,      \* the workflows table
  isActive,
  job,         \* how far the job of each event is
  tries,       \* failed attempts of each job
  found,       \* the workflows its running attempt has found
  todo,        \* those of them it has not finished with
  running,     \* the one it is at
  results,     \* actionResults of the execution it is at
  executions   \* workflow_executions of each event and workflow, oldest first

vars == <<stored, isActive, job, tries, found, todo, running, results, executions>>
loopVars == <<found, todo, running, results>>

Active == {"next", "skipping", "acting", "counting", "catching", "blaming"}
Execution == [attempt : 1 .. MaxTries,
              status : {"RUNNING", "SKIPPED", "SUCCESS", "FAILED"},
              results : Seq(BOOLEAN)]

TypeOK ==
  /\ stored \subseteq Workflows
  /\ isActive \in [Workflows -> BOOLEAN]
  /\ job \in [Events -> {"none", "queued", "completed", "failed"} \cup Active]
  /\ tries \in [Events -> 0 .. MaxTries]
  /\ found \in [Events -> SUBSET Workflows]
  /\ todo \in [Events -> SUBSET Workflows]
  /\ running \in [Events -> Workflows \cup {NoWorkflow}]
  /\ results \in [Events -> Seq(BOOLEAN)]
  /\ executions \in [Events -> [Workflows -> Seq(Execution)]]

\* A workflow is created inactive.
Init ==
  /\ stored = Workflows
  /\ isActive = [w \in Workflows |-> FALSE]
  /\ job = [e \in Events |-> "none"]
  /\ tries = [e \in Events |-> 0]
  /\ found = [e \in Events |-> {}]
  /\ todo = [e \in Events |-> {}]
  /\ running = [e \in Events |-> NoWorkflow]
  /\ results = [e \in Events |-> <<>>]
  /\ executions = [e \in Events |-> [w \in Workflows |-> <<>>]]

Goes(e, phase) ==
  /\ job' = [job EXCEPT ![e] = phase]
  /\ UNCHANGED tries

\* Injected fault: one attempt too many.
RetryOnceMore(e) ==
  /\ tries' = [tries EXCEPT ![e] = @ + 1]
  /\ job' = [job EXCEPT ![e] = IF tries[e] < MaxTries THEN "queued" ELSE "failed"]

\* Injected fault: attempts are not counted.
RetryForEver(e) ==
  /\ job' = [job EXCEPT ![e] = "queued"]
  /\ UNCHANGED tries

\* The attempt fails: another one after a delay, or none is left.
Retry(e) ==
  /\ tries' = [tries EXCEPT ![e] = @ + 1]
  /\ job' = [job EXCEPT ![e] = IF tries[e] + 1 < MaxTries THEN "queued" ELSE "failed"]

\* The execution record of the running workflow; an update of it throws when
\* the deletion of the workflow has deleted it too.
LastOf(s) == s[Len(s)]

SetExecution(e, status, list) ==
  LET w == running[e]
      n == Len(executions[e][w]) IN
  /\ w \in stored
  /\ executions' = [executions EXCEPT ![e][w][n] = [@ EXCEPT !.status = status, !.results = list]]

\* Injected fault: the first workflow that fails ends the loop.
LeaveLoop(e) ==
  /\ todo' = [todo EXCEPT ![e] = IF job[e] = "blaming" THEN {} ELSE @ \ {running[e]}]
  /\ Goes(e, "next")
  /\ UNCHANGED <<found, running, results>>

NextWorkflow(e) ==
  /\ todo' = [todo EXCEPT ![e] = @ \ {running[e]}]
  /\ Goes(e, "next")
  /\ UNCHANGED <<found, running, results>>
-----------------------------------------------------------------------------
\* toggleActive and delete; the executions of a workflow are deleted with it.
ToggleActive(w) ==
  /\ w \in stored
  /\ isActive' = [isActive EXCEPT ![w] = ~@]
  /\ UNCHANGED <<stored, job, tries, loopVars, executions>>

Delete(w) ==
  /\ w \in stored
  /\ stored' = stored \ {w}
  /\ executions' = [e \in Events |-> [executions[e] EXCEPT ![w] = <<>>]]
  /\ UNCHANGED <<isActive, job, tries, loopVars>>

\* A deal or a lead changes.
Trigger(e) ==
  /\ job[e] = "none"
  /\ Goes(e, "queued")
  /\ UNCHANGED <<stored, isActive, loopVars, executions>>

\* The worker takes one job at a time.
FindWorkflows(e) ==
  /\ job[e] = "queued"
  /\ \A other \in Events : job[other] \notin Active
  /\ found' = [found EXCEPT ![e] = {w \in stored : isActive[w]}]
  /\ todo' = [todo EXCEPT ![e] = {w \in stored : isActive[w]}]
  /\ running' = [running EXCEPT ![e] = NoWorkflow]
  /\ results' = [results EXCEPT ![e] = <<>>]
  /\ Goes(e, "next")
  /\ UNCHANGED <<stored, isActive, executions>>

\* The next workflow of the list, which is in no order, gets its execution; the
\* conditions are evaluated on the event's data.
StartExecution(e, w) ==
  /\ job[e] = "next"
  /\ w \in todo[e] \cap stored
  /\ running' = [running EXCEPT ![e] = w]
  /\ results' = [results EXCEPT ![e] = <<>>]
  /\ executions' = [executions EXCEPT ![e][w] =
       Append(@, [attempt |-> tries[e] + 1, status |-> "RUNNING", results |-> <<>>])]
  /\ \E conditionsPass \in BOOLEAN : Goes(e, IF conditionsPass THEN "acting" ELSE "skipping")
  /\ UNCHANGED <<stored, isActive, found, todo>>

Skip(e) ==
  /\ job[e] = "skipping"
  /\ SetExecution(e, "SKIPPED", <<>>)
  /\ NextWorkflow(e)
  /\ UNCHANGED <<stored, isActive>>

\* The last action failed and stops the workflow.
Stopped(e) ==
  LET n == Len(results[e]) IN
  n > 0 /\ ~results[e][n] /\ ActionsOf[running[e]][n]

ActionsLeft(e) == Len(results[e]) < Len(ActionsOf[running[e]]) /\ ~Stopped(e)

\* ActionExecutor.execute catches whatever an action throws.
ExecuteAction(e) ==
  /\ job[e] = "acting"
  /\ ActionsLeft(e)
  /\ \E success \in BOOLEAN : results' = [results EXCEPT ![e] = Append(@, success)]
  /\ UNCHANGED <<stored, isActive, job, tries, found, todo, running, executions>>

\* Injected fault: one success is enough.
OutcomeOfAny(list) == IF list = <<>> \/ \E i \in 1 .. Len(list) : list[i] THEN "SUCCESS" ELSE "FAILED"

Outcome(list) == IF \A i \in 1 .. Len(list) : list[i] THEN "SUCCESS" ELSE "FAILED"

RecordResults(e) ==
  /\ job[e] = "acting"
  /\ ~ActionsLeft(e)
  /\ SetExecution(e, Outcome(results[e]), results[e])
  /\ Goes(e, "counting")
  /\ UNCHANGED <<stored, isActive, loopVars>>

\* runCount is incremented.
CountRun(e) ==
  /\ job[e] = "counting"
  /\ running[e] \in stored
  /\ NextWorkflow(e)
  /\ UNCHANGED <<stored, isActive, executions>>

\* An update inside the try block fails, that of a deleted workflow among them.
Throws(e) ==
  /\ \/ job[e] \in {"skipping", "counting"}
     \/ job[e] = "acting" /\ ~ActionsLeft(e)
  /\ Goes(e, "catching")
  /\ UNCHANGED <<stored, isActive, loopVars, executions>>

\* The catch block records the failure, over whatever was recorded, and counts it.
RecordError(e) ==
  /\ job[e] = "catching"
  /\ SetExecution(e, "FAILED", LastOf(executions[e][running[e]]).results)
  /\ Goes(e, "blaming")
  /\ UNCHANGED <<stored, isActive, loopVars>>

CountError(e) ==
  /\ job[e] = "blaming"
  /\ running[e] \in stored
  /\ NextWorkflow(e)
  /\ UNCHANGED <<stored, isActive, executions>>

Complete(e) ==
  /\ job[e] = "next"
  /\ todo[e] = {}
  /\ Goes(e, "completed")
  /\ UNCHANGED <<stored, isActive, loopVars, executions>>

\* A query outside the try block fails, or one of the catch block, that of a
\* deleted workflow among them; or the process dies. The whole loop is run again.
Fault(e) ==
  /\ job[e] \in Active \cup {"queued"}
  /\ Retry(e)
  /\ UNCHANGED <<stored, isActive, loopVars, executions>>

\* What makes a job throw for certain.
Gone(e) ==
  \/ job[e] = "next" /\ todo[e] # {} /\ todo[e] \cap stored = {}
  \/ job[e] \in {"catching", "blaming"} /\ running[e] \notin stored

JobStep(e) ==
  \/ FindWorkflows(e)
  \/ \E w \in Workflows : StartExecution(e, w)
  \/ Skip(e)
  \/ ExecuteAction(e)
  \/ RecordResults(e)
  \/ CountRun(e)
  \/ Throws(e)
  \/ RecordError(e)
  \/ CountError(e)
  \/ Complete(e)

Next ==
  \/ \E w \in Workflows : ToggleActive(w) \/ Delete(w)
  \/ \E e \in Events : Trigger(e) \/ JobStep(e) \/ Fault(e)

Spec == Init /\ [][Next]_vars

FairSpec == Spec /\ WF_vars(\E e \in Events : JobStep(e) \/ (Gone(e) /\ Fault(e)))
-----------------------------------------------------------------------------
\* One workflow that fails does not keep the others of the event from running: a job
\* that completes has come to an end with each of them, in its last attempt.
EveryWorkflowRuns ==
  \A e \in Events : job[e] = "completed" =>
    \A w \in found[e] \cap stored :
      \E i \in 1 .. Len(executions[e][w]) :
        /\ executions[e][w][i].attempt = tries[e] + 1
        /\ executions[e][w][i].status # "RUNNING"

\* The record tells what was done: SUCCESS that all the actions of the workflow
\* were, and no action follows one whose failure stops the workflow.
ResultsTellTheRun ==
  \A e \in Events : \A w \in Workflows :
    \A i \in 1 .. Len(executions[e][w]) :
      LET done == executions[e][w][i].results IN
      /\ executions[e][w][i].status = "SUCCESS" =>
           /\ Len(done) = Len(ActionsOf[w])
           /\ \A k \in 1 .. Len(done) : done[k]
      /\ \A k \in 1 .. Len(done) : ~done[k] /\ ActionsOf[w][k] => k = Len(done)

\* Every event is processed or given up, whatever is deleted meanwhile.
EventsEnd == []<>(\A e \in Events : job[e] \in {"none", "completed", "failed"})
=============================================================================
