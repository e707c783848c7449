------------------------------- MODULE Pages -------------------------------
(***************************************************************************)
(* The query cache behind the pages.  A page that opens loads a query it   *)
(* has no recent answer of; a call that succeeds marks the queries it      *)
(* tells, and those on the page load again.  Answers are as of the moment  *)
(* the server reads, and may come in late.  Queries do not influence each  *)
(* other: a behaviour is about one query, a call made several times, the   *)
(* page it is made from, and another page the user goes to.                *)
(***************************************************************************)
EXTENDS Naturals

CONSTANTS
  Stories,    \* the queries, calls and pages (Screens)
  Slots,      \* the calls that can be under way
  MaxCalls,   \* and how many are carried out
  Unloaded, Idle, Sent

VARIABLES
  story,      \* the query, the call, its page and the other page, fixed
  page,       \* where the user is
  applied,    \* how many of the calls the server has carried out
  data,       \* how many of them the answer in the cache has seen
  mark,       \* whether that answer is recent, old or invalidated
  load,       \* what is under way: nothing, a request, or an answer
  call,       \* of each slot: nothing, or how far the call is
  due         \* what the query must have seen: the calls it was told of

vars == <<story, page, applied, data, mark, load, call, due>>

PagesAssumption ==
  /\ MaxCalls \in Nat \ {0} /\ Idle # Sent /\ {Unloaded, Idle, Sent} \cap Nat = {}
  /\ \A s \in Stories : s.told \in BOOLEAN /\ s.then \in {"here", s.other}

OnPage(p) == p \in story.on
Free == [at |-> "free", here |-> FALSE, saw |-> 0]

TypeOK ==
  /\ page \in {story.from, story.other}
  /\ applied \in 0..MaxCalls /\ due \in 0..MaxCalls
  /\ data \in (0..MaxCalls) \cup {Unloaded}
  /\ mark \in {"recent", "old", "invalid"}
  /\ load \in (0..MaxCalls) \cup {Idle, Sent}
  /\ call \in [Slots -> [at : {"free", "sent", "done"}, here : BOOLEAN, saw : 0..MaxCalls]]

\* A query that is mounted is loaded if it has no recent answer and is not on its way.
OnMount(p, m, l) ==
  IF OnPage(p) /\ l = Idle /\ (data = Unloaded \/ m # "recent") THEN Sent ELSE l

Init ==
  /\ story \in Stories /\ page = story.from /\ applied = 0
  /\ data = Unloaded /\ mark = "old" /\ load = OnMount(page, mark, Idle)
  /\ call = [s \in Slots |-> Free] /\ due = 0

\* Buttons know the calls of the page they are on, not of an earlier visit.
Leave(c) == [s \in Slots |-> [c[s] EXCEPT !.here = FALSE]]
Visit(p) ==
  /\ p # page /\ page' = p
  /\ load' = OnMount(p, mark, load)
  /\ call' = Leave(call)
  /\ UNCHANGED <<story, applied, data, mark, due>>

\* The server reads, and the answer arrives: it is recent, whatever was marked meanwhile.
Read ==
  /\ load = Sent /\ load' = applied
  /\ UNCHANGED <<story, page, applied, data, mark, call, due>>
Receive ==
  /\ load \notin {Idle, Sent}
  /\ data' = load /\ mark' = "recent" /\ load' = Idle
  /\ UNCHANGED <<story, page, applied, call, due>>
\* The request and its retry fail.
LoadFails ==
  /\ load # Idle /\ load' = Idle
  /\ UNCHANGED <<story, page, applied, data, mark, call, due>>

\* The staleTime of an answer is over.
GrowsOld ==
  /\ data # Unloaded /\ mark = "recent" /\ mark' = "old"
  /\ UNCHANGED <<story, page, applied, data, load, call, due>>

\* The count of the header is loaded every half minute.
Poll ==
  /\ story.polled /\ load = Idle /\ load' = Sent
  /\ UNCHANGED <<story, page, applied, data, mark, call, due>>

\* The user makes the call.
Ask(s) ==
  /\ page = story.from /\ call[s] = Free
  /\ story.once => \A o \in Slots : ~call[o].here
  /\ call' = [call EXCEPT ![s] = [at |-> "sent", here |-> TRUE, saw |-> 0]]
  /\ UNCHANGED <<story, page, applied, data, mark, load, due>>

\* The server carries it out, or nothing comes of it.
Apply(s) ==
  /\ call[s].at = "sent" /\ applied < MaxCalls
  /\ applied' = applied + 1
  /\ call' = [call EXCEPT ![s].at = "done", ![s].saw = applied + 1]
  /\ UNCHANGED <<story, page, data, mark, load, due>>
Refuse(s) ==
  /\ call[s].at = "sent" /\ call' = [call EXCEPT ![s] = Free]
  /\ UNCHANGED <<story, page, applied, data, mark, load, due>>
AnswerIsLost(s) ==
  /\ call[s].at = "done" /\ call' = [call EXCEPT ![s] = Free]
  /\ UNCHANGED <<story, page, applied, data, mark, load, due>>

\* Injected fault: what is under way is left to arrive.
RestartsIdle == OnPage(page) /\ load = Idle

\* An invalidated query of the page is loaded again, its request given up; a first
\* load is not given up, and neither is one the user has left.
Restarts == OnPage(page) /\ ~(data = Unloaded /\ load # Idle)

\* What was told is due, unless an older load is under way that nothing stops.
Due(saw) ==
  /\ story.told \/ ~story.forgetful
  /\ load # Idle => story.told /\ OnPage(page) /\ data # Unloaded
  /\ saw > due

\* onSuccess: the queries are invalidated, then the page may change.
Answer(s) ==
  /\ call[s].at = "done"
  /\ mark' = IF story.told THEN "invalid" ELSE mark
  /\ LET next == IF story.then = "here" THEN page ELSE story.then
         again == IF story.told /\ Restarts THEN Sent ELSE load
     IN  /\ page' = next
         /\ load' = IF next = page THEN again ELSE OnMount(next, mark', again)
         /\ call' = [IF next = page THEN call ELSE Leave(call) EXCEPT ![s] = Free]
  /\ due' = IF Due(call[s].saw) THEN call[s].saw ELSE due
  /\ UNCHANGED <<story, applied, data>>

Next ==
  \/ \E p \in {story.from, story.other} : Visit(p)
  \/ Read \/ Receive \/ LoadFails \/ GrowsOld \/ Poll
  \/ \E s \in Slots : Ask(s) \/ Apply(s) \/ Refuse(s) \/ AnswerIsLost(s) \/ Answer(s)

Spec == Init /\ [][Next]_vars

-----------------------------------------------------------------------------
\* Once a call was answered, a query it touches has seen it, or is invalidated or on
\* its way; but for what the forgetful calls and Due leave out.
KeepsUp == data # Unloaded /\ mark # "invalid" /\ load = Idle => data >= due
=============================================================================
