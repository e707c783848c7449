------------------------------ MODULE Insights ------------------------------
(***************************************************************************)
(* What is computed from the records and kept in Redis for a while: the    *)
(* summaries, searches and answers of the AI services, the dashboard, and  *)
(* the score of a lead.  A call looks in the cache, reads the records,     *)
(* asks the model and stores the result, in that order and with nothing    *)
(* locked; an entry lives for a number of ticks from when it was stored.   *)
(* One query, one contact and one lead stand for all.                      *)
(***************************************************************************)
EXTENDS Naturals

CONSTANTS
  Calls,
  Mixes,      \* functions [Calls -> Operations]: what the calls of a behaviour are
  Life,       \* [Keys -> Nat], the time to live of an entry
  Patience,   \* the most ticks a call takes: the HTTP clients give up
  MaxAge,     \* a bound for the type of ages
  MaxVersion,
  Absent

Timelines == {"timeline_contact", "timeline_lead"}
Charts == {"sales", "sources", "funnel"}
Scorings == {"get_score", "recompute"}
Operations ==
  {"summarize_contact", "search", "rag", "follow_up", "email_reply", "dashboard", "revenue"}
    \cup Timelines \cup Charts \cup Scorings

\* A method of the services: the key it keeps its answer under, if any, what it does
\* when that is not cached, and what it does with what it has read.
Method(key, first, next) == [key |-> key, first |-> first, next |-> next, gives_up |-> FALSE]

\* A summary of nothing is a fixed answer that is not cached.
GivesUp(method) == [method EXCEPT !.gives_up = TRUE]

SummarizeContactHistory == GivesUp(Method("contact_summary", "reading", "completing"))

\* Injected fault: the key of a timeline without the type of its record.
TimelineWithoutType(type) == GivesUp(Method("contact_summary", "reading", "completing"))

\* A contact's timeline is kept under the key of its history.
SummarizeActivityTimeline(type) ==
  GivesUp(Method(IF type = "contact" THEN "contact_summary" ELSE "timeline_lead",
                 "reading", "completing"))
GenerateEmailReply == Method("none", "reading", "completing")
SuggestFollowUp == Method("none", "reading", "completing")
Search == Method("search", "embedding", "keeping")
Query == Method("rag", "searching", "keeping")
GetDashboardMetrics == Method("dashboard", "reading", "storing")
GetRevenueChart == Method("revenue", "reading", "storing")
GetSalesPerformance == Method("none", "reading", "answering")
GetLeadSourceBreakdown == Method("none", "reading", "answering")
GetPipelineFunnel == Method("none", "reading", "answering")
GetScore == Method("score", "reading", "storing")

MethodOf == [o \in Operations |->
  CASE o = "summarize_contact" -> SummarizeContactHistory
    [] o = "timeline_contact" -> SummarizeActivityTimeline("contact")
    [] o = "timeline_lead" -> SummarizeActivityTimeline("lead")
    [] o = "email_reply" -> GenerateEmailReply [] o = "follow_up" -> SuggestFollowUp
    [] o = "search" -> Search [] o = "rag" -> Query
    [] o = "dashboard" -> GetDashboardMetrics [] o = "revenue" -> GetRevenueChart
    [] o = "sales" -> GetSalesPerformance [] o = "sources" -> GetLeadSourceBreakdown
    [] o = "funnel" -> GetPipelineFunnel [] OTHER -> GetScore]

KeyOf(o) == MethodOf[o].key
Uncached == {o \in Operations : KeyOf(o) = "none"}
Keys == {KeyOf(o) : o \in Operations \ Uncached}

\* How old the data of an answer can be: those of a cached answer were read by a
\* call that took up to Patience, and those of a RAG answer may come from a search
\* that was cached already, so two lives and two calls add up.
Bound(o) ==
  IF o \in Uncached THEN Patience
  ELSE IF o = "rag" THEN 2 * Patience + Life["search"] + Life["rag"] - 2
  ELSE Patience + Life[KeyOf(o)] - 1

InsightsAssumption ==
  /\ Mixes \subseteq [Calls -> Operations]
  /\ Keys \subseteq DOMAIN Life /\ \A k \in Keys : Life[k] \in Nat \ {0}
  /\ {Patience, MaxAge, MaxVersion} \subseteq Nat /\ Patience > 0
  /\ \A o \in Operations : Bound(o) <= MaxAge

VARIABLES
  op,         \* what each call asks, fixed
  at,         \* how far each call is
  spent,      \* the ticks it has taken
  value,      \* what it has: by which operation, how long ago read, of which version of the lead
  cache,      \* [Keys -> entries or Absent]
  recorded,   \* whether there is anything to tell, activity or vector
  version,    \* how often the lead was updated
  row,        \* the version the score on the lead's row was computed from
  writes,     \* score updates sent and not waited for, by their calls
  raced       \* whether two scorings overlapped or one was lost

vars == <<op, at, spent, value, cache, recorded, version, row, writes, raced>>

Value == [by : Operations \cup {"none"}, age : 0..MaxAge, version : 0..MaxVersion, found : BOOLEAN]
Nothing == [by |-> "none", age |-> 0, version |-> 0, found |-> FALSE]
Done == {"answered", "failed"}
Stages == {"waiting", "new", "searching", "embedding", "reading", "keeping", "completing", "storing"}

TypeOK ==
  /\ op \in Mixes
  /\ at \in [Calls -> Stages \cup Done] /\ spent \in [Calls -> 0..Patience]
  /\ value \in [Calls -> Value]
  /\ cache \in [Keys -> [value : Value, left : Nat \ {0}] \cup {Absent}]
  /\ recorded \in BOOLEAN /\ version \in 0..MaxVersion /\ row \in 0..MaxVersion
  /\ writes \subseteq Calls /\ raced \in BOOLEAN

\* A recomputation waits for the update of the lead that calls it.
Init ==
  /\ op \in Mixes
  /\ at = [c \in Calls |-> IF op[c] = "recompute" THEN "waiting" ELSE "new"]
  /\ spent = [c \in Calls |-> 0]
  /\ value = [c \in Calls |-> Nothing]
  /\ cache = [k \in Keys |-> Absent]
  /\ recorded = FALSE /\ version = 0 /\ row = 0 /\ writes = {} /\ raced = FALSE

UnderWay(c) == at[c] \in Stages \ {"new", "waiting"}
Live(k) == k \in Keys /\ cache[k] # Absent
Goes(c, next) == at' = [at EXCEPT ![c] = next] /\ UNCHANGED spent
Holds(c, v) == value' = [value EXCEPT ![c] = v]
Answer(c, v) ==
  /\ at' = [at EXCEPT ![c] = "answered"] /\ spent' = [spent EXCEPT ![c] = 0]
  /\ value' = [value EXCEPT ![c] = [v EXCEPT !.found = FALSE]]
Put(k, v) == cache' = [cache EXCEPT ![k] = [value |-> v, left |-> Life[k]]]

\* Time passes: what is held and kept gets older, and an entry whose time is over
\* is gone.
Older(v) == [v EXCEPT !.age = @ + 1]
Tick ==
  /\ \A c \in Calls : UnderWay(c) => spent[c] < Patience
  /\ spent' = [c \in Calls |-> IF UnderWay(c) THEN spent[c] + 1 ELSE spent[c]]
  /\ value' = [c \in Calls |->
       IF UnderWay(c) /\ value[c] # Nothing THEN Older(value[c]) ELSE value[c]]
  /\ cache' = [k \in Keys |->
       IF Live(k) /\ cache[k].left > 1
       THEN [value |-> Older(cache[k].value), left |-> cache[k].left - 1] ELSE Absent]
  /\ UNCHANGED <<op, at, recorded, version, row, writes, raced>>

\* The first activity, message or ticket is there and indexed; scorings have no use for it.
Record ==
  /\ ~recorded /\ (\E c \in Calls : op[c] \notin Scorings) /\ recorded' = TRUE
  /\ UNCHANGED <<op, at, spent, value, cache, version, row, writes, raced>>

\* Injected fault: a recomputation that is satisfied with what is cached.
UpdateLeadLooks(c) ==
  /\ at[c] = "waiting" /\ version < MaxVersion
  /\ version' = version + 1
  /\ IF Live("score") THEN Goes(c, "answered") ELSE Goes(c, "reading")
  /\ UNCHANGED <<op, value, cache, recorded, row, writes, raced>>

\* LeadsService.create and update write the lead and start a scoring without waiting.
UpdateLead(c) ==
  /\ at[c] = "waiting" /\ version < MaxVersion
  /\ version' = version + 1 /\ Goes(c, "reading")
  /\ UNCHANGED <<op, value, cache, recorded, row, writes, raced>>

\* Injected fault: a hit that gives the entry another life.
LookupRenews(c) ==
  /\ at[c] = "new" /\ Live(KeyOf(op[c]))
  /\ Answer(c, cache[KeyOf(op[c])].value)
  /\ Put(KeyOf(op[c]), cache[KeyOf(op[c])].value)
  /\ UNCHANGED <<op, recorded, version, row, writes, raced>>

\* The cache has it.
Lookup(c) ==
  /\ at[c] = "new" /\ Live(KeyOf(op[c]))
  /\ Answer(c, cache[KeyOf(op[c])].value)
  /\ UNCHANGED <<op, cache, recorded, version, row, writes, raced>>

\* The cache does not have it, or is not asked.
Miss(c) ==
  /\ at[c] = "new" /\ ~Live(KeyOf(op[c]))
  /\ Goes(c, MethodOf[op[c]].first)
  /\ UNCHANGED <<op, value, cache, recorded, version, row, writes, raced>>

\* RagService calls VectorSearchService.search, which has a cache of its own and
\* keeps what it finds, nothing included.
SearchCached(c) ==
  /\ at[c] = "searching"
  /\ IF Live("search")
     THEN Holds(c, cache["search"].value) /\ Goes(c, "completing")
     ELSE Goes(c, "embedding") /\ UNCHANGED value
  /\ UNCHANGED <<op, cache, recorded, version, row, writes, raced>>

Embed(c) ==
  /\ at[c] = "embedding" /\ Goes(c, "reading")
  /\ UNCHANGED <<op, value, cache, recorded, version, row, writes, raced>>

Scoring(c) == op[c] \in Scorings

\* The queries.
Read(c) ==
  /\ at[c] = "reading"
  /\ LET v == [by |-> IF op[c] = "rag" THEN "search" ELSE op[c], age |-> 0,
               version |-> IF Scoring(c) THEN version ELSE 0,
               found |-> MethodOf[op[c]].next = "keeping" /\ recorded]
         next == MethodOf[op[c]].next
     IN  IF next = "answering" \/ (MethodOf[op[c]].gives_up /\ ~recorded)
         THEN Answer(c, v) ELSE Holds(c, v) /\ Goes(c, next)
  /\ IF Scoring(c)
     THEN /\ writes' = writes \cup {c}
          /\ raced' = (raced \/ writes # {} \/
                       \E d \in Calls \ {c} : Scoring(d) /\ UnderWay(d))
     ELSE UNCHANGED <<writes, raced>>
  /\ UNCHANGED <<op, cache, recorded, version, row>>

\* The search's own entry.
Keep(c) ==
  /\ at[c] = "keeping" /\ Put("search", value[c])
  /\ IF op[c] = "search" THEN Answer(c, value[c])
     ELSE Goes(c, "completing") /\ UNCHANGED value
  /\ UNCHANGED <<op, recorded, version, row, writes, raced>>

\* The model answers.  With no chunks it is not asked, and nothing is cached.
Complete(c) ==
  /\ at[c] = "completing"
  /\ LET v == [value[c] EXCEPT !.by = op[c]]
     IN  IF op[c] \in Uncached \/ (op[c] = "rag" /\ ~value[c].found)
         THEN Answer(c, v)
         ELSE Goes(c, "storing") /\ Holds(c, v)
  /\ UNCHANGED <<op, cache, recorded, version, row, writes, raced>>

Store(c) ==
  /\ at[c] = "storing"
  /\ Put(KeyOf(op[c]), value[c]) /\ Answer(c, value[c])
  /\ UNCHANGED <<op, recorded, version, row, writes, raced>>

\* OpenAI, the database or Redis fails, or the completion is not JSON.
Fail(c) ==
  /\ UnderWay(c)
  /\ at' = [at EXCEPT ![c] = "failed"] /\ spent' = [spent EXCEPT ![c] = 0]
  /\ raced' = (raced \/ Scoring(c))
  /\ UNCHANGED <<op, value, cache, recorded, version, row, writes>>

\* The update of lead.score that nobody awaits is made or fails.
PersistScore(c) ==
  /\ c \in writes /\ writes' = writes \ {c}
  /\ \/ row' = value[c].version /\ UNCHANGED raced
     \/ raced' = TRUE /\ UNCHANGED row
  /\ UNCHANGED <<op, at, spent, value, cache, recorded, version>>

Next ==
  \/ Tick \/ Record
  \/ \E c \in Calls :
       UpdateLead(c) \/ Lookup(c) \/ Miss(c) \/ SearchCached(c) \/ Embed(c) \/ Read(c)
         \/ Keep(c) \/ Complete(c) \/ Store(c) \/ Fail(c) \/ PersistScore(c)

Spec == Init /\ [][Next]_vars

-----------------------------------------------------------------------------
\* No answer is from data older than its cache entries explain.
RecentEnough == \A c \in Calls : at[c] = "answered" => value[c].age <= Bound(op[c])

\* An answer has the shape the caller expects, but for the two of a contact.
AnswersInKind ==
  \A c \in Calls : at[c] = "answered" =>
    \/ value[c].by = op[c]
    \/ {value[c].by, op[c]} = {"summarize_contact", "timeline_contact"}
    \/ {value[c].by, op[c]} = Scorings

\* Once every scoring is over, the score on the row is the one of the last update
\* of the lead, unless scorings overlapped or one was lost.
ScoreFollowsUpdates ==
  writes = {} /\ ~raced /\ (\A c \in Calls : Scoring(c) => ~UnderWay(c)) => row = version
=============================================================================
