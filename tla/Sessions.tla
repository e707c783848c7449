------------------------------- MODULE Sessions -------------------------------
(***************************************************************************)
(* The sessions of one user: AuthService with its repository and the       *)
(* blacklist of access tokens, and the operations of UsersService that     *)
(* change who may sign in.                                                 *)
(*                                                                         *)
(* A token is the second it was signed in: a JWT says nothing else that    *)
(* differs between two tokens of a user, so two of one second are one      *)
(* string, with one hash. Each query of a request is a step of its own.    *)
(* Abstracted: names, roles, mail.                                         *)
(***************************************************************************)
EXTENDS Naturals, FiniteSets

CONSTANTS
  Requests,
  KindOf,       \* [Requests -> Kinds]
  AccessLife,   \* JWT_EXPIRES_IN, in seconds of the model
  RefreshLife,  \* JWT_REFRESH_EXPIRES_IN
  MaxSecond,    \* bound of the clock
  MaxPassword   \* bound of the changes of password

Kinds == {"login", "refresh", "logout", "reset"}

SessionAssumption ==
  /\ KindOf \in [Requests -> Kinds]
  /\ AccessLife \in Nat /\ RefreshLife \in Nat /\ MaxSecond \in Nat /\ MaxPassword \in Nat

Seconds == 0 .. MaxSecond

VARIABLES
  now,
  status,      \* users.status
  password,    \* which of the user's passwords users.passwordHash is of
  resetLink,   \* is the hash of a reset link in users.settings?
  sessions,    \* refresh_sessions, with the login and the password each goes back to
  blacklist,   \* when the Redis entry of each revoked access token expires
  held,        \* the tokens that clients were given
  stage,       \* how far each request is
  token,       \* the token each request presents, or has signed
  line,        \* the login each request carries on
  dates,       \* the password each request's session goes back to
  cleared,     \* the password of the last reset that has deleted the sessions
  escaped,     \* the lines that were between two rows then
  unlisted     \* the logouts whose entry Redis did not take

users == <<status, password, resetLink>>
request == <<token, line, dates>>
ghosts == <<cleared, escaped, unlisted>>
vars == <<now, users, sessions, blacklist, held, stage, request, ghosts>>

Session == [token : Seconds, line : Requests, dates : Nat]

\* A login or a refresh on the way to storing its session.
InFlight(r) == stage[r] \in {"checked", "signed"}

Stages == {"idle", "checked", "signed", "stored", "found", "replayed",
           "deleting", "answered", "refused", "conflict", "failed"}

TypeOK ==
  /\ now \in Seconds
  /\ status \in {"ACTIVE", "INACTIVE"}
  /\ password \in Nat
  /\ resetLink \in BOOLEAN
  /\ sessions \subseteq Session
  /\ blacklist \in [Seconds -> Nat]
  /\ held \subseteq Seconds
  /\ stage \in [Requests -> Stages]
  /\ token \in [Requests -> Seconds]
  /\ line \in [Requests -> Requests]
  /\ dates \in [Requests -> Nat]
  /\ cleared \in Nat
  /\ escaped \subseteq Requests
  /\ unlisted \subseteq Requests

Init ==
  /\ now = 0
  /\ status = "ACTIVE"
  /\ password = 1
  /\ resetLink = FALSE
  /\ sessions = {}
  /\ blacklist = [t \in Seconds |-> 0]
  /\ held = {}
  /\ stage = [r \in Requests |-> "idle"]
  /\ token = [r \in Requests |-> 0]
  /\ line = [r \in Requests |-> r]
  /\ dates = [r \in Requests |-> 0]
  /\ cleared = 0
  /\ escaped = {}
  /\ unlisted = {}

Goes(r, next) == stage' = [stage EXCEPT ![r] = next]
Carries(r, l, d) ==
  /\ line' = [line EXCEPT ![r] = l]
  /\ dates' = [dates EXCEPT ![r] = d]
\* The request ends, and what it carried with it.
Ends(r, outcome) ==
  /\ Goes(r, outcome)
  /\ token' = [token EXCEPT ![r] = 0]
  /\ Carries(r, r, 0)
Rows(t) == {s \in sessions : s.token = t}

\* JwtStrategy: not expired, and not blacklisted (an entry lives until its TTL ends).
Accepts(t) == t \in held /\ now < t + AccessLife /\ ~ now < blacklist[t]

\* login: the user and the password are checked (bcrypt takes its time).
CheckLogin(r) ==
  /\ KindOf[r] = "login" /\ stage[r] = "idle"
  /\ IF status = "ACTIVE"
     THEN Goes(r, "checked") /\ Carries(r, r, password)
     ELSE Goes(r, "refused") /\ UNCHANGED <<line, dates>>
  /\ UNCHANGED <<now, users, sessions, blacklist, held, token, ghosts>>

\* Injected fault: the token is known by its expiry.
SignWithExpiry(r) ==
  /\ stage[r] = "checked"
  /\ token' = [token EXCEPT ![r] = now + RefreshLife]
  /\ Goes(r, "signed")
  /\ UNCHANGED <<now, users, sessions, blacklist, held, line, dates, ghosts>>

\* generateTokens, first half: both tokens are signed, with the second as iat.
Sign(r) ==
  /\ stage[r] = "checked"
  /\ token' = [token EXCEPT ![r] = now]
  /\ Goes(r, "signed")
  /\ UNCHANGED <<now, users, sessions, blacklist, held, line, dates, ghosts>>

\* Second half: createRefreshSession; refresh_sessions.tokenHash is unique.
Store(r) ==
  /\ stage[r] = "signed"
  /\ IF Rows(token[r]) = {}
     THEN /\ sessions' = sessions \cup {[token |-> token[r], line |-> line[r], dates |-> dates[r]]}
          /\ Goes(r, "stored")
          /\ UNCHANGED request
     ELSE Ends(r, "conflict") /\ UNCHANGED sessions
  /\ UNCHANGED <<now, users, blacklist, held, ghosts>>

\* A login also writes lastLoginAt before it answers.
Answer(r) ==
  /\ stage[r] = "stored"
  /\ held' = held \cup {token[r]}
  /\ Ends(r, "answered")
  /\ UNCHANGED <<now, users, sessions, blacklist, ghosts>>

\* consumeRefreshSession, first half: the token is looked up by its hash.
FindSession(r) ==
  /\ KindOf[r] = "refresh" /\ stage[r] = "idle"
  /\ \E t \in held :
       /\ now < t + RefreshLife
       /\ token' = [token EXCEPT ![r] = t]
       /\ Goes(r, IF Rows(t) = {} THEN "replayed" ELSE "found")
  /\ UNCHANGED <<now, users, sessions, blacklist, held, line, dates, ghosts>>

\* Injected fault: deleteMany does not mind that the row is gone.
ConsumeAny(r) ==
  /\ stage[r] = "found"
  /\ \/ \E s \in Rows(token[r]) : Carries(r, s.line, s.dates)
     \/ Rows(token[r]) = {} /\ \E l \in Requests : KindOf[l] = "login" /\ Carries(r, l, 1)
  /\ sessions' = sessions \ Rows(token[r])
  /\ Goes(r, "checked")
  /\ UNCHANGED <<now, users, blacklist, held, token, ghosts>>

\* Second half: the delete throws when another request has deleted the row.
ConsumeSession(r) ==
  /\ stage[r] = "found"
  /\ \/ \E s \in Rows(token[r]) :
          /\ sessions' = sessions \ {s}
          /\ Carries(r, s.line, s.dates)
          /\ Goes(r, "checked")
          /\ UNCHANGED token
     \/ Rows(token[r]) = {} /\ Ends(r, "refused") /\ UNCHANGED sessions
  /\ UNCHANGED <<now, users, blacklist, held, ghosts>>

\* No row of the token: it is taken for a replay.
DeleteReplayed(r) ==
  /\ stage[r] = "replayed"
  /\ sessions' = {}
  /\ Ends(r, "refused")
  /\ UNCHANGED <<now, users, blacklist, held, ghosts>>

\* Injected fault: the entry ends a second before the token does.
BlacklistBriefly(t) == blacklist' = [blacklist EXCEPT ![t] = t + AccessLife - 1]

\* TokenBlacklistService.add: setex with the seconds the token has left.
Blacklist(t) ==
  LET ttl == (t + AccessLife) - now IN
  blacklist' = [blacklist EXCEPT ![t] = IF ttl > 0 THEN now + ttl ELSE @]

\* logout: add catches whatever Redis throws, so that without the entry too the
\* logout goes on, to delete the sessions and to answer.
Logout(r) ==
  /\ KindOf[r] = "logout" /\ stage[r] = "idle"
  /\ \E t \in Seconds :
       /\ Accepts(t)
       /\ token' = [token EXCEPT ![r] = t]
       /\ \/ Blacklist(t) /\ UNCHANGED unlisted
          \/ unlisted' = unlisted \cup {r} /\ UNCHANGED blacklist
  /\ Goes(r, "deleting")
  /\ UNCHANGED <<now, users, sessions, held, line, dates, cleared, escaped>>

\* createPasswordResetToken: a new link replaces the one before it.
ForgotPassword ==
  /\ ~ resetLink /\ resetLink' = TRUE
  /\ UNCHANGED <<now, status, password, sessions, blacklist, held, stage, request, ghosts>>

\* Injected fault: the sessions are not deleted.
ResetKeepsSessions(r) ==
  /\ KindOf[r] = "reset" /\ stage[r] = "idle"
  /\ resetLink
  /\ password' = password + 1 /\ resetLink' = FALSE
  /\ dates' = [dates EXCEPT ![r] = password']
  /\ cleared' = password'
  /\ Goes(r, "answered")
  /\ UNCHANGED <<now, status, sessions, blacklist, held, token, line, escaped, unlisted>>

\* resetPasswordAtomic: one UPDATE checks the link and takes it; a request whose
\* link was used, replaced or has expired is refused.
ResetPassword(r) ==
  /\ KindOf[r] = "reset" /\ stage[r] = "idle"
  /\ \/ /\ resetLink
        /\ password' = password + 1 /\ resetLink' = FALSE
        /\ dates' = [dates EXCEPT ![r] = password']
        /\ Goes(r, "deleting")
     \/ Goes(r, "refused") /\ UNCHANGED <<password, resetLink, dates>>
  /\ UNCHANGED <<now, status, sessions, blacklist, held, token, line, ghosts>>

\* deleteAllRefreshSessions, the end of a logout and of a reset.
DeleteAll(r) ==
  /\ stage[r] = "deleting"
  /\ sessions' = {}
  /\ IF KindOf[r] = "reset" /\ dates[r] > cleared
     THEN /\ cleared' = dates[r] /\ escaped' = {line[q] : q \in {q \in Requests : InFlight(q)}}
          /\ UNCHANGED unlisted
     ELSE UNCHANGED ghosts
  /\ Goes(r, "answered")
  /\ UNCHANGED <<now, users, blacklist, held, request>>

\* changePassword: whoever knows the password stores another one, also when a
\* reset falls between the comparison and the update; sessions are left alone.
ChangePassword ==
  /\ password < MaxPassword /\ password' = password + 1
  /\ UNCHANGED <<now, status, resetLink, sessions, blacklist, held, stage, request, ghosts>>

\* UsersService.deactivate and activate; sessions are left alone.
SetStatus ==
  /\ status' = IF status = "ACTIVE" THEN "INACTIVE" ELSE "ACTIVE"
  /\ UNCHANGED <<now, password, resetLink, sessions, blacklist, held, stage, request, ghosts>>

\* The hour of a reset link, and the seconds of the tokens.
LinkExpires ==
  /\ resetLink /\ resetLink' = FALSE
  /\ UNCHANGED <<now, status, password, sessions, blacklist, held, stage, request, ghosts>>
Tick ==
  /\ now < MaxSecond /\ now' = now + 1
  /\ UNCHANGED <<users, sessions, blacklist, held, stage, request, ghosts>>

\* A query fails, or the server dies, before the session is stored; at any other
\* point that is a request that takes no further step.
Fault(r) ==
  /\ InFlight(r)
  /\ Ends(r, "failed")
  /\ UNCHANGED <<now, users, sessions, blacklist, held, ghosts>>

Step(r) ==
  \/ CheckLogin(r) \/ Sign(r) \/ Store(r) \/ Answer(r)
  \/ FindSession(r) \/ ConsumeSession(r) \/ DeleteReplayed(r)
  \/ Logout(r) \/ ResetPassword(r) \/ DeleteAll(r)
  \/ Fault(r)

Next ==
  \/ SetStatus \/ ForgotPassword \/ ChangePassword \/ LinkExpires \/ Tick
  \/ \E r \in Requests : Step(r)

Spec == Init /\ [][Next]_vars
-----------------------------------------------------------------------------
\* The requests and rows that carry on a login.
RowsOf(l) == {s \in sessions : s.line = l}
CarriersOf(l) == {r \in Requests : InFlight(r) /\ line[r] = l}

\* However many clients present a token at once, a login has one successor: one
\* row, or one request that is about to store it, never both and never two.
OneLinePerLogin ==
  \A l \in Requests : Cardinality(RowsOf(l)) + Cardinality(CarriersOf(l)) <= 1

\* An access token whose revocation Redis has taken is not accepted again, although
\* the entry expires while the clock goes on.
RevokedStaysOut ==
  \A r \in Requests :
    KindOf[r] = "logout" /\ stage[r] # "idle" /\ r \notin unlisted => ~ Accepts(token[r])

\* A session of a password older than the last reset's is one whose login or
\* refresh was between two rows when the reset deleted the sessions.
ResetEndsSessions ==
  \A s \in sessions : s.dates < cleared => s.line \in escaped

\* A line of sessions that has ended (by logout, reset, a replay or an error)
\* never comes back.
Lines == INSTANCE SessionLines
  WITH opened <- {l \in Requests : KindOf[l] = "login" /\ stage[l] \notin {"idle", "refused"}},
       live <- {l \in Requests : RowsOf(l) # {} \/ CarriersOf(l) # {}}
EndedStaysEnded == Lines!Spec
=============================================================================
