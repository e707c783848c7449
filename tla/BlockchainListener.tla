-------------------------- MODULE BlockchainListener --------------------------
(***************************************************************************)
(* BlockchainListenerService for one chain with a WebSocket endpoint: the  *)
(* subscription to USDC Transfer logs, its loss and the reconnects, and    *)
(* the enqueue of a process_transfer job for each log it hears. Chains do  *)
(* not share state. The delay of a reconnect, and with it the attempt      *)
(* number, is left out: a timer fires at some time.                        *)
(***************************************************************************)
EXTENDS Integers, FiniteSets

CONSTANTS
  Connections,  \* WebSocket connections that exist at a time
  NoConnection,
  Logs,         \* Transfer logs of the chain
  MaxConnects   \* connections and pending reconnects there may be at a time

ListenerAssumption ==
  /\ NoConnection \notin Connections
  /\ IsFiniteSet(Connections)
  /\ MaxConnects \in Nat /\ MaxConnects > 0

VARIABLES
  conn,     \* "free" before startListening, "connecting" during getBlockNumber
  socket,   \* the WebSocket of each connection
  hears,    \* the Transfer listener of each contract instance is attached
  current,  \* the connection in the maps contracts and providers
  timers,   \* setTimeouts of scheduleReconnect that have not fired
  mined,    \* the logs on chain
  arriving, \* the connections that have still to emit each mined log
  jobs      \* process_transfer jobs created for each log

vars == <<conn, socket, hears, current, timers, mined, arriving, jobs>>
chainVars == <<mined, arriving, jobs>>

TypeOK ==
  /\ conn \in [Connections -> {"free", "connecting", "live"}]
  /\ socket \in [Connections -> {"open", "broken", "closed"}]
  /\ hears \in [Connections -> BOOLEAN]
  /\ current \in Connections \cup {NoConnection}
  /\ timers \in 0 .. MaxConnects
  /\ mined \subseteq Logs
  /\ arriving \in [Logs -> SUBSET Connections]
  /\ jobs \in [Logs -> Nat]

\* onApplicationBootstrap has begun to listen.
Init ==
  /\ \E c \in Connections :
       conn = [d \in Connections |-> IF d = c THEN "connecting" ELSE "free"]
  /\ socket = [c \in Connections |-> "closed"]
  /\ hears = [c \in Connections |-> FALSE]
  /\ current = NoConnection
  /\ timers = 0
  /\ mined = {}
  /\ arriving = [l \in Logs |-> {}]
  /\ jobs = [l \in Logs |-> 0]
-----------------------------------------------------------------------------
\* The listener and the provider in the maps are dropped, whichever connection
\* they are; destroying the provider closes an open socket, whose own 'close'
\* event is still to come.
DropCurrent(sockets) ==
  /\ hears' = [c \in Connections |-> hears[c] /\ c # current]
  /\ socket' = [c \in Connections |->
                  IF c = current /\ sockets[c] = "open" THEN "broken" ELSE sockets[c]]
  /\ current' = NoConnection

\* Injected fault: two timers for one call.
ScheduleReconnectTwice(sockets) ==
  /\ DropCurrent(sockets)
  /\ timers' = timers + 2

ScheduleReconnect(sockets) ==
  /\ DropCurrent(sockets)
  /\ timers' = timers + 1

\* A timer of scheduleReconnect fires: startListening makes a new connection.
TimerFires(c) ==
  /\ timers > 0
  /\ conn[c] = "free"
  /\ conn' = [conn EXCEPT ![c] = "connecting"]
  /\ timers' = timers - 1
  /\ UNCHANGED <<socket, hears, current, chainVars>>

\* getBlockNumber answers: listener and handlers are attached, and the maps
\* are overwritten, without a look at what they held.
Connected(c) ==
  /\ conn[c] = "connecting"
  /\ conn' = [conn EXCEPT ![c] = "live"]
  /\ socket' = [socket EXCEPT ![c] = "open"]
  /\ hears' = [hears EXCEPT ![c] = TRUE]
  /\ current' = c
  /\ UNCHANGED <<timers, chainVars>>

\* Injected fault: a failed start is logged and forgotten.
ConnectFailsQuietly(c) ==
  /\ conn[c] = "connecting"
  /\ conn' = [conn EXCEPT ![c] = "free"]
  /\ UNCHANGED <<socket, hears, current, timers, chainVars>>

\* getBlockNumber throws.
ConnectFails(c) ==
  /\ conn[c] = "connecting"
  /\ conn' = [conn EXCEPT ![c] = "free"]
  /\ ScheduleReconnect(socket)
  /\ UNCHANGED chainVars

\* The handler of 'error'. A 'close' follows, with a reconnect of its own, so an
\* error is what makes one connection two: it waits below the model's bound.
SocketError(c) ==
  /\ timers + Cardinality({d \in Connections : conn[d] # "free"}) < MaxConnects
  /\ conn[c] = "live" /\ socket[c] = "open"
  /\ ScheduleReconnect([socket EXCEPT ![c] = "broken"])
  /\ UNCHANGED <<conn, chainVars>>

\* The handler of 'close'; what the connection had still to emit is gone.
SocketClose(c) ==
  /\ conn[c] = "live" /\ socket[c] \in {"open", "broken"}
  /\ ScheduleReconnect([socket EXCEPT ![c] = "closed"])
  /\ conn' = [conn EXCEPT ![c] = "free"]
  /\ arriving' = [l \in Logs |-> arriving[l] \ {c}]
  /\ UNCHANGED <<mined, jobs>>

\* A Transfer gets into a block; the node sends it to whoever is subscribed.
Mine(l) ==
  /\ l \notin mined
  /\ mined' = mined \cup {l}
  /\ arriving' = [arriving EXCEPT ![l] =
                    {c \in Connections : hears[c] /\ socket[c] = "open"}]
  /\ UNCHANGED <<conn, socket, hears, current, timers, jobs>>

\* Injected fault: the job gets an id of its own.
AddTransferJobAlways(l) == jobs' = [jobs EXCEPT ![l] = @ + 1]

\* Queue.add with jobId transfer:<chain>:<tx>:<index>, dropped while a job of
\* that id is kept; that so many others end in between that it is not kept any
\* more is left out.
AddTransferJob(l) == jobs' = [jobs EXCEPT ![l] = IF @ = 0 THEN 1 ELSE @]

\* handleTransferEvent; an enqueue that fails is logged.
HandleTransferEvent(c, l) ==
  /\ c \in arriving[l] /\ hears[c]
  /\ arriving' = [arriving EXCEPT ![l] = @ \ {c}]
  /\ AddTransferJob(l) \/ UNCHANGED jobs
  /\ UNCHANGED <<conn, socket, hears, current, timers, mined>>

Next ==
  \/ \E c \in Connections :
       \/ TimerFires(c) \/ Connected(c) \/ ConnectFails(c)
       \/ SocketError(c) \/ SocketClose(c)
       \/ \E l \in Logs : HandleTransferEvent(c, l)
  \/ \E l \in Logs : Mine(l)

Spec == Init /\ [][Next]_vars

\* Timers fire, events are handled, a broken socket is closed.
Turn ==
  \E c \in Connections :
    \/ TimerFires(c)
    \/ socket[c] = "broken" /\ SocketClose(c)
    \/ \E l \in Logs : HandleTransferEvent(c, l)

\* An endpoint that is tried again and again answers in the end. Nothing obliges a
\* socket to break or a log to be mined.
FairSpec == Spec /\ WF_vars(Turn) /\ SF_vars(\E c \in Connections : Connected(c))
-----------------------------------------------------------------------------
Listening(c) == hears[c] /\ socket[c] = "open"

\* "reconnects automatically on provider failure": while nobody listens, a new
\* connection is being made or a timer will make one, although every reconnect
\* drops whatever connection is in the maps at that moment.
NeverDeaf ==
  \/ \E c \in Connections : Listening(c) \/ conn[c] = "connecting"
  \/ timers > 0

\* A log is queued once, by however many connections it is heard.
QueuedOnce == \A l \in Logs : jobs[l] <= 1

\* A listener that has lost its subscription gets one again.
Reconnects == (\A c \in Connections : ~Listening(c)) ~> \E c \in Connections : Listening(c)
=============================================================================
