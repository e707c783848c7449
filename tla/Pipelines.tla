------------------------------ MODULE Pipelines ------------------------------
(***************************************************************************)
(* PipelinesService: which pipeline of a tenant is the default one, and    *)
(* the order of one pipeline's stages. The default flag is cleared on the  *)
(* old pipeline and set on the new one by separate queries. An order is    *)
(* written row by row in a transaction, whose row locks are modelled;      *)
(* single queries create, move and delete stages meanwhile.                *)
(***************************************************************************)
EXTENDS FiniteSets, Sequences, Naturals

CONSTANTS
  Pipes,       \* pipelines; each is created once
  Setters,     \* calls of create or update that write isDefault
  Plain,       \* those of them with isDefault: false
  PipeOf,      \* [Setters -> Pipes]
  Deleters,    \* calls of delete
  DeletedBy,   \* [Deleters -> Pipes]
  Reorders,    \* calls of reorderStages
  ListOf,      \* [Reorders -> Seq(Stages)]: any stages, some of them twice
  Stages, Free,
  MaxPlace     \* a bound: the positions that createStage and updateStage write

PipelinesAssumption ==
  /\ PipeOf \in [Setters -> Pipes] /\ DeletedBy \in [Deleters -> Pipes]
  /\ Setters \cap Deleters = {} /\ Plain \subseteq Setters
  /\ ListOf \in [Reorders -> Seq(Stages)] /\ Free \notin Reorders /\ MaxPlace \in Nat

VARIABLES
  pipes,     \* the pipelines there are
  default,   \* those with the flag
  step,      \* how far each setter and deleter is
  old,       \* the default pipelines it has found, none or one
  raced,     \* has one of them overlapped with another?
  standing,  \* of each stage: is it to come, there, or deleted?
  position,  \* of each stage that is there, as committed
  placedBy,  \* the reordering that wrote it, or Free for another call
  written,   \* how many rows of its list each reordering has updated
  draft,     \* the positions it has given them, until it commits
  lock,      \* the reordering whose transaction holds the row
  order      \* how each reordering stands

vars == <<pipes, default, step, old, raced, standing, position, placedBy, written,
          draft, lock, order>>
flags == <<pipes, default, step, old, raced>>
rows == <<standing, position, placedBy, written, draft, lock, order>>

FlagCalls == Setters \cup Deleters
Busy == {c \in FlagCalls : step[c] \in {"look", "found", "cleared"}}
Listed(r) == {ListOf[r][i] : i \in DOMAIN ListOf[r]}

TypeOK ==
  /\ default \subseteq pipes /\ pipes \subseteq Pipes
  /\ step \in [FlagCalls -> {"none", "look", "found", "cleared", "done", "refused", "failed"}]
  /\ old \in [FlagCalls -> SUBSET Pipes] /\ raced \in BOOLEAN
  /\ standing \in [Stages -> {"planned", "there", "deleted"}]
  /\ position \in [Stages -> Nat] /\ placedBy \in [Stages -> Reorders \cup {Free}]
  /\ written \in [Reorders -> Nat] /\ \A r \in Reorders : written[r] <= Len(ListOf[r])
  /\ draft \in [Reorders -> [Stages -> Nat]]
  /\ lock \in [Stages -> Reorders \cup {Free}]
  /\ order \in [Reorders -> {"none", "open", "committed", "aborted"}]

\* A tenant whose one pipeline is the default, with some of the stages.
Init ==
  /\ \E p \in Pipes : pipes = {p} /\ default = {p}
  /\ step = [c \in FlagCalls |-> "none"]
  /\ old = [c \in FlagCalls |-> {}]
  /\ raced = FALSE
  /\ standing \in [Stages -> {"planned", "there"}]
  /\ position = [s \in Stages |-> 0] /\ placedBy = [s \in Stages |-> Free]
  /\ written = [r \in Reorders |-> 0]
  /\ draft = [r \in Reorders |-> [s \in Stages |-> 0]]
  /\ lock = [s \in Stages |-> Free]
  /\ order = [r \in Reorders |-> "none"]
-----------------------------------------------------------------------------
(* The default flag.                                                       *)

Steps(c, next) == step' = [step EXCEPT ![c] = next]

Begin(c) ==
  /\ step[c] = "none" /\ Steps(c, "look")
  /\ raced' = (raced \/ Busy # {})
  /\ UNCHANGED <<pipes, default, old, rows>>

Gone(p) == \E d \in Deleters : DeletedBy[d] = p /\ step[d] = "done"

\* With isDefault: false the flag of no other pipeline is looked at.
LeaveDefault(c) ==
  /\ c \in Plain /\ step[c] = "look"
  /\ Steps(c, IF Gone(PipeOf[c]) THEN "refused" ELSE "cleared")
  /\ UNCHANGED <<pipes, default, old, raced, rows>>

\* findDefault: any one of them. An update of a pipeline that is gone is refused.
FindDefault(c) ==
  /\ c \in Setters \ Plain /\ step[c] = "look"
  /\ Steps(c, IF Gone(PipeOf[c]) THEN "refused" ELSE "found")
  /\ IF default = {} THEN UNCHANGED old
     ELSE \E p \in default : old' = [old EXCEPT ![c] = {p}]
  /\ UNCHANGED <<pipes, default, raced, rows>>

\* Injected fault: the flag is cleared on the pipeline that is to have it.
ClearOwnFlag(c) ==
  /\ c \in Setters /\ step[c] = "found" /\ Steps(c, "cleared")
  /\ default' = default \ {PipeOf[c]}
  /\ UNCHANGED <<pipes, old, raced, rows>>

\* A row that is gone meanwhile makes the update fail.
ClearFlag(c) ==
  /\ c \in Setters /\ step[c] = "found"
  /\ IF old[c] \subseteq pipes
     THEN Steps(c, "cleared") /\ default' = default \ old[c]
     ELSE Steps(c, "refused") /\ UNCHANGED default
  /\ UNCHANGED <<pipes, old, raced, rows>>

\* The insert of a new pipeline, with its six stages, or the update of an old one.
SetFlag(c) ==
  /\ c \in Setters /\ step[c] = "cleared"
  /\ IF Gone(PipeOf[c])
     THEN Steps(c, "refused") /\ UNCHANGED <<pipes, default>>
     ELSE /\ Steps(c, "done")
          /\ pipes' = pipes \cup {PipeOf[c]}
          /\ default' = IF c \in Plain THEN default \ {PipeOf[c]} ELSE default \cup {PipeOf[c]}
  /\ UNCHANGED <<old, raced, rows>>

\* delete: the default pipeline, as it was found, is not deleted.
LookBeforeDelete(c) ==
  /\ c \in Deleters /\ step[c] = "look"
  /\ Steps(c, IF DeletedBy[c] \in pipes \ default THEN "found" ELSE "refused")
  /\ UNCHANGED <<pipes, default, old, raced, rows>>

DeletePipeline(c) ==
  /\ c \in Deleters /\ step[c] = "found" /\ Steps(c, "done")
  /\ pipes' = pipes \ {DeletedBy[c]} /\ default' = default \ {DeletedBy[c]}
  /\ UNCHANGED <<old, raced, rows>>

\* A query fails: what has been written stays.
FlagCallFails(c) ==
  /\ c \in Busy /\ Steps(c, "failed")
  /\ UNCHANGED <<pipes, default, old, raced, rows>>
-----------------------------------------------------------------------------
(* The stages.                                                             *)

\* createStage and updateStage, which waits for a transaction that has the row.
PlaceStage(s, i) ==
  /\ standing[s] \in {"planned", "there"} /\ lock[s] = Free
  /\ standing' = [standing EXCEPT ![s] = "there"]
  /\ position' = [position EXCEPT ![s] = i] /\ placedBy' = [placedBy EXCEPT ![s] = Free]
  /\ UNCHANGED <<flags, written, draft, lock, order>>

DeleteStage(s) ==
  /\ standing[s] = "there" /\ lock[s] = Free
  /\ standing' = [standing EXCEPT ![s] = "deleted"]
  /\ position' = [position EXCEPT ![s] = 0] /\ placedBy' = [placedBy EXCEPT ![s] = Free]
  /\ UNCHANGED <<flags, written, draft, lock, order>>

NextRow(r) == ListOf[r][written[r] + 1]

\* A list with a stage that is not there is refused.
Open(r) ==
  /\ order[r] = "none"
  /\ order' = [order EXCEPT ![r] =
       IF \A s \in Listed(r) : standing[s] = "there" THEN "open" ELSE "aborted"]
  /\ UNCHANGED <<flags, standing, position, placedBy, written, draft, lock>>

\* Injected fault: the rows are updated outside a transaction.
UpdateRowAtOnce(r) ==
  /\ order[r] = "open" /\ written[r] < Len(ListOf[r])
  /\ position' = [position EXCEPT ![NextRow(r)] = written[r]]
  /\ placedBy' = [placedBy EXCEPT ![NextRow(r)] = r]
  /\ written' = [written EXCEPT ![r] = @ + 1]
  /\ UNCHANGED <<flags, standing, draft, lock, order>>

UpdateRow(r) ==
  /\ order[r] = "open" /\ written[r] < Len(ListOf[r])
  /\ standing[NextRow(r)] = "there" /\ lock[NextRow(r)] \in {Free, r}
  /\ lock' = [lock EXCEPT ![NextRow(r)] = r]
  /\ draft' = [draft EXCEPT ![r][NextRow(r)] = written[r]]
  /\ written' = [written EXCEPT ![r] = @ + 1]
  /\ UNCHANGED <<flags, standing, position, placedBy, order>>

Ends(r, how) ==
  /\ order' = [order EXCEPT ![r] = how]
  /\ lock' = [s \in Stages |-> IF lock[s] = r THEN Free ELSE lock[s]]

\* Injected fault: positions are counted from one.
CommitOrderFromOne(r) ==
  /\ order[r] = "open" /\ written[r] = Len(ListOf[r])
  /\ position' = [s \in Stages |-> IF s \in Listed(r) THEN draft[r][s] + 1 ELSE position[s]]
  /\ placedBy' = [s \in Stages |-> IF s \in Listed(r) THEN r ELSE placedBy[s]]
  /\ Ends(r, "committed")
  /\ UNCHANGED <<flags, standing, written, draft>>

CommitOrder(r) ==
  /\ order[r] = "open" /\ written[r] = Len(ListOf[r])
  /\ position' = [s \in Stages |-> IF s \in Listed(r) THEN draft[r][s] ELSE position[s]]
  /\ placedBy' = [s \in Stages |-> IF s \in Listed(r) THEN r ELSE placedBy[s]]
  /\ Ends(r, "committed")
  /\ UNCHANGED <<flags, standing, written, draft>>

\* A query of the transaction fails, for one: the row is gone, or two transactions wait
\* for each other's rows and the database ends one. Nothing of it stays.
Abort(r) ==
  /\ order[r] = "open" /\ Ends(r, "aborted")
  /\ UNCHANGED <<flags, standing, position, placedBy, written, draft>>

FlagNext == \E c \in FlagCalls :
  \/ Begin(c) \/ LeaveDefault(c) \/ FindDefault(c) \/ ClearFlag(c) \/ SetFlag(c)
  \/ LookBeforeDelete(c) \/ DeletePipeline(c) \/ FlagCallFails(c)

RowNext ==
  \/ \E s \in Stages : DeleteStage(s) \/ \E i \in 0 .. MaxPlace : PlaceStage(s, i)
  \/ \E r \in Reorders : Open(r) \/ UpdateRow(r) \/ CommitOrder(r) \/ Abort(r)

Next == FlagNext \/ RowNext

Spec == Init /\ [][Next]_vars
-----------------------------------------------------------------------------
\* Calls that do not overlap never leave the tenant two default pipelines, and none only
\* if an update took the flag away or a call failed half-way.
AloneKeepsOneDefault == ~raced =>
  /\ Cardinality(default) <= 1
  /\ Busy = {} /\ default = {} =>
       \E c \in FlagCalls : step[c] = "failed" \/ (c \in Plain /\ step[c] = "done")

\* Where the list of a reordering has the stage, the last time if it has it twice.
IsPlaceIn(r, s, place) ==
  /\ place + 1 \in DOMAIN ListOf[r] /\ ListOf[r][place + 1] = s
  /\ \A j \in DOMAIN ListOf[r] : ListOf[r][j] = s => j <= place + 1

\* A position that a reordering wrote is that of its list, the reordering committed, and
\* stages that two reorderings both list are never in a mixture of the two.
OrderIsOneCalls ==
  /\ \A s \in Stages, r \in Reorders :
       placedBy[s] = r => order[r] = "committed" /\ IsPlaceIn(r, s, position[s])
  /\ \A r, q \in Reorders : \A s, t \in Listed(r) \cap Listed(q) :
       placedBy[s] = r /\ placedBy[t] = q => r = q
=============================================================================
