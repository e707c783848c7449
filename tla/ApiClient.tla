------------------------------ MODULE ApiClient ------------------------------
(***************************************************************************)
(* The API client of one browser page: a request that is answered with 401 *)
(* renews the access token, the others that are meanwhile wait for it in   *)
(* failedQueue, and all are sent again with the new token. The server is   *)
(* the one of Sessions, reduced to which tokens it accepts.                *)
(***************************************************************************)
EXTENDS FiniteSets, Naturals

CONSTANTS
  Calls,
  MaxTokens,     \* bound on the access tokens of the session
  NoToken,
  SendsRefresh   \* whether the refresh call carries the refresh token, which the
                 \* server reads from the body; in the source there is no body

ClientAssumption ==
  /\ MaxTokens \in Nat /\ MaxTokens > 0 /\ NoToken \notin Nat
  /\ SendsRefresh \in BOOLEAN

VARIABLES
  token,         \* the store's access token
  valid,         \* tokens the server accepts: all from this one on
  session,       \* does the server have the session's refresh token?
  unreachable,   \* has a call of refresh been lost?
  isRefreshing,
  at,            \* where each request is
  with,          \* the token it was last sent with
  retried        \* _retry

vars == <<token, valid, session, unreachable, isRefreshing, at, with, retried>>
server == <<valid, session>>

failedQueue == {c \in Calls : at[c] = "queued"}
Refreshing == {c \in Calls : at[c] = "refreshing"}

TypeOK ==
  /\ token \in 1 .. MaxTokens \cup {NoToken} /\ valid \in 1 .. MaxTokens + 1
  /\ session \in BOOLEAN /\ unreachable \in BOOLEAN /\ isRefreshing \in BOOLEAN
  /\ at \in [Calls -> {"none", "sent", "queued", "refreshing", "answered", "rejected"}]
  /\ with \in [Calls -> 1 .. MaxTokens \cup {NoToken}] /\ retried \in [Calls -> BOOLEAN]

\* The page has just logged in.
Init ==
  /\ token = 1 /\ valid = 1 /\ session = TRUE /\ unreachable = FALSE
  /\ isRefreshing = FALSE
  /\ at = [c \in Calls |-> "none"]
  /\ with = [c \in Calls |-> NoToken]
  /\ retried = [c \in Calls |-> FALSE]

Gets(c, next) == at' = [at EXCEPT ![c] = next]

\* The request interceptor attaches the token that the store has.
Send(c) ==
  /\ at[c] = "none" /\ Gets(c, "sent")
  /\ with' = [with EXCEPT ![c] = token]
  /\ UNCHANGED <<token, server, unreachable, isRefreshing, retried>>

\* On the server the last token expires, or the session ends.
Expire ==
  /\ token # NoToken /\ valid = token
  /\ valid' = valid + 1
  /\ UNCHANGED <<token, session, unreachable, isRefreshing, at, with, retried>>
SessionEnds ==
  /\ session /\ session' = FALSE
  /\ UNCHANGED <<token, valid, unreachable, isRefreshing, at, with, retried>>

Accepts(t) == t # NoToken /\ t >= valid

\* The answer of the route, whatever its status is, or a timeout.
Answered(c) ==
  /\ at[c] = "sent"
  /\ \/ Gets(c, "answered") /\ Accepts(with[c])
     \/ Gets(c, "rejected")
  /\ UNCHANGED <<token, server, unreachable, isRefreshing, with, retried>>

\* Injected fault: every 401 refreshes.
UnauthorizedAlone(c) ==
  /\ at[c] = "sent" /\ ~Accepts(with[c])
  /\ IF retried[c]
     THEN Gets(c, "rejected") /\ UNCHANGED <<isRefreshing, retried>>
     ELSE /\ Gets(c, "refreshing")
          /\ isRefreshing' = TRUE
          /\ retried' = [retried EXCEPT ![c] = TRUE]
  /\ UNCHANGED <<token, server, unreachable, with>>

\* 401: the first request refreshes, the others wait, one that has is rejected.
Unauthorized(c) ==
  /\ at[c] = "sent" /\ ~Accepts(with[c])
  /\ \/ /\ retried[c]
        /\ Gets(c, "rejected") /\ UNCHANGED <<isRefreshing, retried>>
     \/ /\ ~retried[c] /\ isRefreshing
        /\ Gets(c, "queued") /\ UNCHANGED <<isRefreshing, retried>>
     \/ /\ ~retried[c] /\ ~isRefreshing
        /\ Gets(c, "refreshing")
        /\ isRefreshing' = TRUE
        /\ retried' = [retried EXCEPT ![c] = TRUE]
  /\ UNCHANGED <<token, server, unreachable, with>>

\* Injected fault: a token is stored that the server has not issued.
RefreshedAhead(c) ==
  /\ at[c] = "refreshing" /\ session /\ SendsRefresh /\ valid <= MaxTokens
  /\ token' = valid + 1
  /\ at' = [at EXCEPT ![c] = "sent"] /\ with' = [with EXCEPT ![c] = valid]
  /\ isRefreshing' = FALSE
  /\ UNCHANGED <<server, unreachable, retried>>

\* processQueue(null, newToken): the store has the new token, and whoever waited
\* is sent again with it.
Refreshed(c) ==
  /\ at[c] = "refreshing" /\ session /\ SendsRefresh /\ valid <= MaxTokens
  /\ token' = valid
  /\ LET again == failedQueue \cup {c} IN
     /\ at' = [d \in Calls |-> IF d \in again THEN "sent" ELSE at[d]]
     /\ with' = [d \in Calls |-> IF d \in again THEN token' ELSE with[d]]
  /\ isRefreshing' = FALSE
  /\ UNCHANGED <<server, unreachable, retried>>

\* Injected fault: a failed refresh leaves the queue.
FailAlone(c) ==
  /\ Gets(c, "rejected")
  /\ token' = NoToken /\ isRefreshing' = FALSE

\* processQueue(refreshError): all are rejected, and the page logs out.
Fail(c) ==
  /\ at' = [d \in Calls |-> IF d \in failedQueue \cup {c} THEN "rejected" ELSE at[d]]
  /\ token' = NoToken /\ isRefreshing' = FALSE

RefreshRefused(c) ==
  /\ at[c] = "refreshing" /\ ~(session /\ SendsRefresh)
  /\ Fail(c)
  /\ UNCHANGED <<server, unreachable, with, retried>>

\* The refresh call, or its answer, is lost; it is treated like a refusal.
RefreshLost(c) ==
  /\ at[c] = "refreshing"
  /\ Fail(c)
  /\ unreachable' = TRUE
  /\ UNCHANGED <<server, with, retried>>

Network(c) ==
  Answered(c) \/ Unauthorized(c) \/ Refreshed(c) \/ RefreshRefused(c) \/ RefreshLost(c)

Next == Expire \/ SessionEnds \/ \E c \in Calls : Send(c) \/ Network(c)

\* Every call of axios ends, by its timeout if nothing else.
Spec == Init /\ [][Next]_vars
FairSpec == Spec /\ WF_vars(\E c \in Calls : Network(c))
-----------------------------------------------------------------------------
\* "Track if a token refresh is in progress to avoid multiple simultaneous
\* refreshes": the flag stands for one call, and nobody waits when it is down.
OneRefresh ==
  /\ Cardinality(Refreshing) = IF isRefreshing THEN 1 ELSE 0
  /\ failedQueue # {} => isRefreshing

\* Every request of the page is answered or rejected, whichever others it waits for.
RequestsEnd == []<>(\A c \in Calls : at[c] \in {"none", "answered", "rejected"})

\* A page whose session goes on is not logged out, unless the server is not reached.
KeepsSession == token = NoToken => ~session \/ unreachable
=============================================================================
