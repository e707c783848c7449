---------------------------- MODULE SessionsProofs ----------------------------
(***************************************************************************)
(* Theorems about the Sessions of Desk, for any requests and lifetimes:    *)
(* however the logins, refreshes, logouts and resets of a user interleave. *)
(***************************************************************************)
EXTENDS Desk, FiniteSetTheorems, TLAPS

\* Where the requests of each kind can be.
Ways ==
  \A r \in SessionRequests :
    /\ SessionKind[r] = "login" =>
         stage[r] \in {"idle", "checked", "signed", "stored", "answered", "refused", "conflict",
                       "failed"}
    /\ SessionKind[r] = "logout" => stage[r] \in {"idle", "deleting", "answered"}
    /\ SessionKind[r] = "reset" => stage[r] \in {"idle", "deleting", "answered", "refused"}

\* A session goes back to a login that has begun, and so does what is about to become one.
Began(l) == SessionKind[l] = "login" /\ stage[l] \notin {"idle", "refused"}
FromLogins ==
  /\ \A s \in sessions : s.line \in SessionRequests /\ Began(s.line)
  /\ \A r \in SessionRequests : S!InFlight(r) => Began(line[r])

\* OneLinePerLogin without counting: of the rows and carriers of a login there is one.
OneRow == \A s, t \in sessions : s.line = t.line => s = t
OneCarrier == \A q, r \in SessionRequests : S!InFlight(q) /\ S!InFlight(r) /\ line[q] = line[r] => q = r
RowOrCarrier == \A s \in sessions, r \in SessionRequests : S!InFlight(r) => s.line # line[r]

\* A logout whose entry Redis took has set it to the token's end.
Blacklisted ==
  \A r \in SessionRequests : SessionKind[r] = "logout" /\ stage[r] # "idle" /\ r \notin unlisted =>
    blacklist[token[r]] = token[r] + AccessLife

\* Passwords only get newer than the last reset, and what is about to become a
\* session of an older one was already on its way then.
Outdated ==
  /\ cleared <= password
  /\ \A r \in SessionRequests : dates[r] <= password
  /\ \A s \in sessions : s.dates <= password
  /\ \A r \in SessionRequests : S!InFlight(r) /\ dates[r] < cleared => line[r] \in escaped

SessionInv ==
  /\ S!TypeOK /\ Ways /\ FromLogins /\ OneRow /\ OneCarrier /\ RowOrCarrier
  /\ Blacklisted /\ Outdated /\ S!ResetEndsSessions

-----------------------------------------------------------------------------
\* Sessions counts its rows as this module does.
LEMMA SameCardinality == \A rows : S!Cardinality(rows) = Cardinality(rows)
  BY DEF S!Cardinality, Cardinality

\* The clock starts at a second there is.
LEMMA FirstSecond == S!SessionAssumption => 0 \in S!Seconds /\ S!Seconds \subseteq Nat
  BY DEF S!SessionAssumption, S!Seconds

LEMMA SessionInvInit == S!SessionAssumption /\ S!Init => SessionInv
<1> SUFFICES ASSUME S!SessionAssumption, S!Init PROVE SessionInv
  OBVIOUS
<1>1. S!TypeOK
  BY FirstSecond DEF S!Init, S!TypeOK, S!Stages
<1> QED
  BY <1>1 DEF S!Init, SessionInv, Ways, FromLogins, OneRow, OneCarrier, RowOrCarrier, Blacklisted,
              Outdated, S!ResetEndsSessions, S!InFlight

\* What every request's step does to its place, and to what it carries.
LEMMA StageTyped ==
  ASSUME S!TypeOK, NEW r \in SessionRequests, NEW next \in S!Stages, S!Goes(r, next)
  PROVE  stage' \in [SessionRequests -> S!Stages] /\ stage'[r] = next
         /\ \A q \in SessionRequests \ {r} : stage'[q] = stage[q]
  BY DEF S!TypeOK, S!Goes

LEMMA CarryTyped ==
  ASSUME S!TypeOK, NEW r \in SessionRequests, NEW l \in SessionRequests, NEW d \in Nat, S!Carries(r, l, d)
  PROVE  /\ line' \in [SessionRequests -> SessionRequests] /\ line'[r] = l
         /\ dates' \in [SessionRequests -> Nat] /\ dates'[r] = d
         /\ \A q \in SessionRequests \ {r} : line'[q] = line[q] /\ dates'[q] = dates[q]
  BY DEF S!TypeOK, S!Carries

LEMMA EndTyped ==
  ASSUME S!SessionAssumption, S!TypeOK, NEW r \in SessionRequests, NEW outcome \in S!Stages, S!Ends(r, outcome)
  PROVE  /\ stage' \in [SessionRequests -> S!Stages] /\ stage'[r] = outcome
         /\ token' \in [SessionRequests -> S!Seconds]
         /\ line' \in [SessionRequests -> SessionRequests] /\ dates' \in [SessionRequests -> Nat] /\ dates'[r] = 0
         /\ \A q \in SessionRequests \ {r} :
              stage'[q] = stage[q] /\ token'[q] = token[q] /\ line'[q] = line[q] /\ dates'[q] = dates[q]
<1>1. stage' \in [SessionRequests -> S!Stages] /\ stage'[r] = outcome
      /\ \A q \in SessionRequests \ {r} : stage'[q] = stage[q]
  BY StageTyped DEF S!Ends
<1>2. token' \in [SessionRequests -> S!Seconds] /\ \A q \in SessionRequests \ {r} : token'[q] = token[q]
  BY FirstSecond DEF S!Ends, S!TypeOK
<1>3. /\ line' \in [SessionRequests -> SessionRequests] /\ dates' \in [SessionRequests -> Nat] /\ dates'[r] = 0
      /\ \A q \in SessionRequests \ {r} : line'[q] = line[q] /\ dates'[q] = dates[q]
  BY CarryTyped DEF S!Ends
<1> QED
  BY <1>1, <1>2, <1>3

LEMMA SessionTypeStep == S!SessionAssumption /\ SessionInv /\ S!Next => S!TypeOK'
<1> SUFFICES ASSUME S!SessionAssumption, SessionInv, S!Next PROVE S!TypeOK'
  OBVIOUS
<1>0. S!TypeOK
  BY DEF SessionInv
<1> USE <1>0 DEF S!users, S!request, S!ghosts
<1>1. ASSUME NEW r \in SessionRequests, S!CheckLogin(r) PROVE S!TypeOK'
  <2>1. CASE S!Goes(r, "checked") /\ S!Carries(r, r, password)
    BY <1>1, <2>1, StageTyped, CarryTyped DEF S!CheckLogin, S!TypeOK, S!Stages
  <2>2. CASE S!Goes(r, "refused") /\ UNCHANGED <<line, dates>>
    BY <1>1, <2>2, StageTyped DEF S!CheckLogin, S!TypeOK, S!Stages
  <2> QED
    BY <1>1, <2>1, <2>2 DEF S!CheckLogin
<1>2. ASSUME NEW r \in SessionRequests, S!Sign(r) PROVE S!TypeOK'
  BY <1>2, StageTyped DEF S!Sign, S!TypeOK, S!Stages
<1>3. ASSUME NEW r \in SessionRequests, S!Store(r) PROVE S!TypeOK'
  <2>1. CASE /\ sessions' = sessions \cup {[token |-> token[r], line |-> line[r], dates |-> dates[r]]}
             /\ S!Goes(r, "stored") /\ UNCHANGED S!request
    <3>1. [token |-> token[r], line |-> line[r], dates |-> dates[r]] \in S!Session
      BY DEF S!TypeOK, S!Session
    <3> QED
      BY <1>3, <2>1, <3>1, StageTyped DEF S!Store, S!TypeOK, S!Stages
  <2>2. CASE S!Ends(r, "conflict") /\ UNCHANGED sessions
    BY <1>3, <2>2, EndTyped DEF S!Store, S!TypeOK, S!Stages
  <2> QED
    BY <1>3, <2>1, <2>2 DEF S!Store
<1>4. ASSUME NEW r \in SessionRequests, S!Answer(r) PROVE S!TypeOK'
  BY <1>4, EndTyped DEF S!Answer, S!TypeOK, S!Stages
<1>5. ASSUME NEW r \in SessionRequests, S!FindSession(r) PROVE S!TypeOK'
  <2>1. PICK t \in held : /\ token' = [token EXCEPT ![r] = t]
                          /\ S!Goes(r, IF S!Rows(t) = {} THEN "replayed" ELSE "found")
    BY <1>5 DEF S!FindSession
  <2>2. stage' \in [SessionRequests -> S!Stages]
    BY <2>1, StageTyped DEF S!Stages
  <2> QED
    BY <1>5, <2>1, <2>2 DEF S!FindSession, S!TypeOK
<1>6. ASSUME NEW r \in SessionRequests, S!ConsumeSession(r) PROVE S!TypeOK'
  <2>1. ASSUME NEW s \in S!Rows(token[r]), sessions' = sessions \ {s},
               S!Carries(r, s.line, s.dates), S!Goes(r, "checked"), UNCHANGED token
        PROVE  S!TypeOK'
    <3>1. s \in sessions /\ s.line \in SessionRequests /\ s.dates \in Nat
      BY DEF S!Rows, S!TypeOK, S!Session
    <3> QED
      BY <1>6, <2>1, <3>1, StageTyped, CarryTyped DEF S!ConsumeSession, S!TypeOK, S!Stages
  <2>2. CASE S!Ends(r, "refused") /\ UNCHANGED sessions
    BY <1>6, <2>2, EndTyped DEF S!ConsumeSession, S!TypeOK, S!Stages
  <2> QED
    BY <1>6, <2>1, <2>2 DEF S!ConsumeSession
<1>7. ASSUME NEW r \in SessionRequests, S!DeleteReplayed(r) PROVE S!TypeOK'
  BY <1>7, EndTyped DEF S!DeleteReplayed, S!TypeOK, S!Stages
<1>8. ASSUME NEW r \in SessionRequests, S!Logout(r) PROVE S!TypeOK'
  <2>1. PICK t \in S!Seconds : /\ token' = [token EXCEPT ![r] = t]
                               /\ \/ S!Blacklist(t) /\ UNCHANGED unlisted
                                  \/ unlisted' = unlisted \cup {r} /\ UNCHANGED blacklist
    BY <1>8 DEF S!Logout
  <2>2. blacklist' \in [S!Seconds -> Nat] /\ unlisted' \subseteq SessionRequests
    BY <2>1, FirstSecond DEF S!Blacklist, S!TypeOK, S!SessionAssumption
  <2>3. stage' \in [SessionRequests -> S!Stages]
    BY <1>8, StageTyped DEF S!Logout, S!Stages
  <2> QED
    BY <1>8, <2>1, <2>2, <2>3 DEF S!Logout, S!TypeOK
<1>9. ASSUME NEW r \in SessionRequests, S!ResetPassword(r) PROVE S!TypeOK'
  <2>1. CASE /\ password' = password + 1 /\ resetLink' = FALSE
             /\ dates' = [dates EXCEPT ![r] = password'] /\ S!Goes(r, "deleting")
    <3>1. password' \in Nat /\ dates' \in [SessionRequests -> Nat]
      BY <2>1 DEF S!TypeOK
    <3>2. stage' \in [SessionRequests -> S!Stages]
      BY <2>1, StageTyped DEF S!Stages
    <3> QED
      BY <1>9, <2>1, <3>1, <3>2 DEF S!ResetPassword, S!TypeOK
  <2>2. CASE S!Goes(r, "refused") /\ UNCHANGED <<password, resetLink, dates>>
    BY <1>9, <2>2, StageTyped DEF S!ResetPassword, S!TypeOK, S!Stages
  <2> QED
    BY <1>9, <2>1, <2>2 DEF S!ResetPassword
<1>10. ASSUME NEW r \in SessionRequests, S!DeleteAll(r) PROVE S!TypeOK'
  BY <1>10, StageTyped DEF S!DeleteAll, S!TypeOK, S!Stages
<1>11. ASSUME NEW r \in SessionRequests, S!Fault(r) PROVE S!TypeOK'
  BY <1>11, EndTyped DEF S!Fault, S!TypeOK, S!Stages
<1>12. CASE S!SetStatus
  BY <1>12 DEF S!SetStatus, S!TypeOK
<1>13. CASE S!ForgotPassword
  BY <1>13 DEF S!ForgotPassword, S!TypeOK
<1>14. CASE S!ChangePassword
  BY <1>14 DEF S!ChangePassword, S!TypeOK
<1>15. CASE S!LinkExpires
  BY <1>15 DEF S!LinkExpires, S!TypeOK
<1>16. CASE S!Tick
  <2>1. now' \in S!Seconds
    BY <1>16 DEF S!Tick, S!TypeOK, S!Seconds, S!SessionAssumption
  <2> QED
    BY <1>16, <2>1 DEF S!Tick, S!TypeOK
<1> QED
  BY <1>1, <1>2, <1>3, <1>4, <1>5, <1>6, <1>7, <1>8, <1>9, <1>10, <1>11, <1>12, <1>13, <1>14, <1>15,
     <1>16 DEF S!Next, S!Step

-----------------------------------------------------------------------------
\* No row is added, no login begins and no request takes up a line.
Fewer ==
  /\ \A l \in SessionRequests : Began(l)' => Began(l)
  /\ sessions' \subseteq sessions
  /\ \A q \in SessionRequests :
       S!InFlight(q)' => S!InFlight(q) /\ line'[q] = line[q] /\ dates'[q] = dates[q]

\* The other requests of a step of r.
Others(r) ==
  \A q \in SessionRequests \ {r} :
    /\ stage'[q] = stage[q] /\ S!InFlight(q)' = S!InFlight(q)
    /\ line'[q] = line[q] /\ dates'[q] = dates[q]

\* A login begins a line, a row takes over from its request, a refresh from its row.
Opens(r) ==
  /\ ~ Began(r) /\ Began(r)' /\ ~ S!InFlight(r) /\ S!InFlight(r)'
  /\ line'[r] = r /\ dates'[r] = password
  /\ sessions' = sessions /\ Others(r)
Stores(r) ==
  /\ S!InFlight(r) /\ ~ S!InFlight(r)' /\ (Began(r)' => Began(r))
  /\ sessions' = sessions \cup {[token |-> token[r], line |-> line[r], dates |-> dates[r]]}
  /\ Others(r)
Consumes(r, s) ==
  /\ s \in sessions /\ sessions' = sessions \ {s}
  /\ ~ S!InFlight(r) /\ line'[r] = s.line /\ dates'[r] = s.dates /\ (Began(r)' => Began(r))
  /\ Others(r)

\* Every step does one of the four to the lines.
Moves ==
  \/ Fewer
  \/ \E r \in SessionRequests : Opens(r) \/ Stores(r) \/ \E s \in sessions : Consumes(r, s)

LEMMA StepMoves == S!SessionAssumption /\ SessionInv /\ S!Next => Moves
<1> SUFFICES ASSUME S!SessionAssumption, SessionInv, S!Next PROVE Moves
  OBVIOUS
<1>0. S!TypeOK /\ Ways
  BY DEF SessionInv
<1> USE <1>0 DEF S!users, S!request, S!ghosts, S!InFlight, Began, Ways
<1>1. ASSUME NEW r \in SessionRequests, S!CheckLogin(r) PROVE Moves
  <2>1. CASE S!Goes(r, "checked") /\ S!Carries(r, r, password)
    <3>1. Opens(r)
      BY <1>1, <2>1, StageTyped, CarryTyped DEF S!CheckLogin, S!TypeOK, S!Stages, Opens, Others
    <3> QED
      BY <3>1 DEF Moves
  <2>2. CASE S!Goes(r, "refused") /\ UNCHANGED <<line, dates>>
    BY <1>1, <2>2, StageTyped DEF S!CheckLogin, S!Stages, Moves, Fewer
  <2> QED
    BY <1>1, <2>1, <2>2 DEF S!CheckLogin
<1>2. ASSUME NEW r \in SessionRequests, S!Sign(r) PROVE Moves
  BY <1>2, StageTyped DEF S!Sign, S!Stages, Moves, Fewer
<1>3. ASSUME NEW r \in SessionRequests, S!Store(r) PROVE Moves
  <2>1. CASE /\ sessions' = sessions \cup {[token |-> token[r], line |-> line[r], dates |-> dates[r]]}
             /\ S!Goes(r, "stored") /\ UNCHANGED S!request
    <3>1. Stores(r)
      BY <1>3, <2>1, StageTyped DEF S!Store, S!Stages, Stores, Others
    <3> QED
      BY <3>1 DEF Moves
  <2>2. CASE S!Ends(r, "conflict") /\ UNCHANGED sessions
    <3>1. stage[r] = "signed" /\ stage'[r] = "conflict"
      BY <1>3, <2>2, EndTyped DEF S!Store, S!Stages
    <3>2. \A q \in SessionRequests \ {r} :
            stage'[q] = stage[q] /\ line'[q] = line[q] /\ dates'[q] = dates[q]
      BY <2>2, EndTyped DEF S!Stages
    <3> QED
      BY <2>2, <3>1, <3>2 DEF Moves, Fewer
  <2> QED
    BY <1>3, <2>1, <2>2 DEF S!Store
<1>4. ASSUME NEW r \in SessionRequests, S!Answer(r) PROVE Moves
  BY <1>4, EndTyped DEF S!Answer, S!Stages, Moves, Fewer
<1>5. ASSUME NEW r \in SessionRequests, S!FindSession(r) PROVE Moves
  <2>1. PICK t \in held : S!Goes(r, IF S!Rows(t) = {} THEN "replayed" ELSE "found")
    BY <1>5 DEF S!FindSession
  <2>2. SessionKind[r] = "refresh"
    BY <1>5 DEF S!FindSession
  <2>3. stage'[r] \in {"replayed", "found"} /\ \A q \in SessionRequests \ {r} : stage'[q] = stage[q]
    BY <2>1, StageTyped DEF S!Stages
  <2> QED
    BY <1>5, <2>2, <2>3 DEF S!FindSession, Moves, Fewer
<1>6. ASSUME NEW r \in SessionRequests, S!ConsumeSession(r) PROVE Moves
  <2>1. ASSUME NEW s \in S!Rows(token[r]), sessions' = sessions \ {s},
               S!Carries(r, s.line, s.dates), S!Goes(r, "checked"), UNCHANGED token
        PROVE  Moves
    <3>1. s \in sessions /\ s.line \in SessionRequests /\ s.dates \in Nat
      BY DEF S!Rows, S!TypeOK, S!Session
    <3>2. Consumes(r, s)
      BY <1>6, <2>1, <3>1, StageTyped, CarryTyped DEF S!ConsumeSession, S!Stages, Consumes, Others
    <3> QED
      BY <3>1, <3>2 DEF Moves
  <2>2. CASE S!Ends(r, "refused") /\ UNCHANGED sessions
    BY <1>6, <2>2, EndTyped DEF S!Stages, Moves, Fewer
  <2> QED
    BY <1>6, <2>1, <2>2 DEF S!ConsumeSession
<1>7. ASSUME NEW r \in SessionRequests, S!DeleteReplayed(r) PROVE Moves
  BY <1>7, EndTyped DEF S!DeleteReplayed, S!Stages, Moves, Fewer
<1>8. ASSUME NEW r \in SessionRequests, S!Logout(r) PROVE Moves
  BY <1>8, StageTyped DEF S!Logout, S!Stages, Moves, Fewer
<1>9. ASSUME NEW r \in SessionRequests, S!ResetPassword(r) PROVE Moves
  <2>1. \E next \in {"deleting", "refused"} : S!Goes(r, next)
    BY <1>9 DEF S!ResetPassword
  <2>2. stage'[r] \in {"deleting", "refused"} /\ \A q \in SessionRequests \ {r} : stage'[q] = stage[q]
    BY <2>1, StageTyped DEF S!Stages
  <2>3. SessionKind[r] = "reset" /\ line' = line /\ sessions' = sessions
        /\ \A q \in SessionRequests \ {r} : dates'[q] = dates[q]
    BY <1>9 DEF S!ResetPassword, S!TypeOK
  <2> QED
    BY <2>2, <2>3 DEF Moves, Fewer
<1>10. ASSUME NEW r \in SessionRequests, S!DeleteAll(r) PROVE Moves
  BY <1>10, StageTyped DEF S!DeleteAll, S!Stages, Moves, Fewer
<1>11. ASSUME NEW r \in SessionRequests, S!Fault(r) PROVE Moves
  BY <1>11, EndTyped DEF S!Fault, S!Stages, Moves, Fewer
<1>12. CASE S!SetStatus \/ S!ForgotPassword \/ S!ChangePassword \/ S!LinkExpires \/ S!Tick
  BY <1>12 DEF S!SetStatus, S!ForgotPassword, S!ChangePassword, S!LinkExpires, S!Tick, Moves, Fewer
<1> QED
  BY <1>1, <1>2, <1>3, <1>4, <1>5, <1>6, <1>7, <1>8, <1>9, <1>10, <1>11, <1>12 DEF S!Next, S!Step

-----------------------------------------------------------------------------
\* No request goes somewhere its kind has no business, and a login that has begun
\* is not refused any more.
LEMMA WaysStep ==
  S!SessionAssumption /\ SessionInv /\ S!Next =>
    Ways' /\ \A l \in SessionRequests : Began(l) => Began(l)'
<1> SUFFICES ASSUME S!SessionAssumption, SessionInv, S!Next
             PROVE  Ways' /\ \A l \in SessionRequests : Began(l) => Began(l)'
  OBVIOUS
<1> DEFINE Goal == Ways' /\ \A l \in SessionRequests : Began(l) => Began(l)'
<1>0. S!TypeOK /\ Ways
  BY DEF SessionInv
<1> USE <1>0
<1>1. ASSUME NEW r \in SessionRequests, S!CheckLogin(r) PROVE Goal
  <2>1. SessionKind[r] = "login" /\ stage[r] = "idle" /\ \E next \in {"checked", "refused"} : S!Goes(r, next)
    BY <1>1 DEF S!CheckLogin
  <2> QED
    BY <2>1, StageTyped DEF S!Stages, Ways, Began, S!SessionAssumption
<1>2. ASSUME NEW r \in SessionRequests, S!Sign(r) PROVE Goal
  BY <1>2, StageTyped DEF S!Sign, S!Stages, Ways, Began
<1>3. ASSUME NEW r \in SessionRequests, S!Store(r) PROVE Goal
  <2>1. stage[r] = "signed" /\ \E next \in {"stored", "conflict"} : S!Goes(r, next)
    BY <1>3 DEF S!Store, S!Ends
  <2> QED
    BY <2>1, StageTyped DEF S!Stages, Ways, Began
<1>4. ASSUME NEW r \in SessionRequests, S!Answer(r) PROVE Goal
  BY <1>4, EndTyped DEF S!Answer, S!Stages, Ways, Began
<1>5. ASSUME NEW r \in SessionRequests, S!FindSession(r) PROVE Goal
  <2>1. SessionKind[r] = "refresh" /\ \E next \in {"replayed", "found"} : S!Goes(r, next)
    BY <1>5 DEF S!FindSession
  <2> QED
    BY <2>1, StageTyped DEF S!Stages, Ways, Began
<1>6. ASSUME NEW r \in SessionRequests, S!ConsumeSession(r) PROVE Goal
  <2>1. stage[r] = "found" /\ \E next \in {"checked", "refused"} : S!Goes(r, next)
    BY <1>6 DEF S!ConsumeSession, S!Ends
  <2> QED
    BY <2>1, StageTyped DEF S!Stages, Ways, Began
<1>7. ASSUME NEW r \in SessionRequests, S!DeleteReplayed(r) PROVE Goal
  BY <1>7, EndTyped DEF S!DeleteReplayed, S!Stages, Ways, Began
<1>8. ASSUME NEW r \in SessionRequests, S!Logout(r) PROVE Goal
  BY <1>8, StageTyped DEF S!Logout, S!Stages, Ways, Began
<1>9. ASSUME NEW r \in SessionRequests, S!ResetPassword(r) PROVE Goal
  <2>1. SessionKind[r] = "reset" /\ \E next \in {"deleting", "refused"} : S!Goes(r, next)
    BY <1>9 DEF S!ResetPassword
  <2> QED
    BY <2>1, StageTyped DEF S!Stages, Ways, Began
<1>10. ASSUME NEW r \in SessionRequests, S!DeleteAll(r) PROVE Goal
  BY <1>10, StageTyped DEF S!DeleteAll, S!Stages, Ways, Began
<1>11. ASSUME NEW r \in SessionRequests, S!Fault(r) PROVE Goal
  BY <1>11, EndTyped DEF S!Fault, S!Stages, Ways, Began, S!InFlight
<1>12. CASE S!SetStatus \/ S!ForgotPassword \/ S!ChangePassword \/ S!LinkExpires \/ S!Tick
  BY <1>12 DEF S!SetStatus, S!ForgotPassword, S!ChangePassword, S!LinkExpires, S!Tick, Ways, Began
<1> QED
  BY <1>1, <1>2, <1>3, <1>4, <1>5, <1>6, <1>7, <1>8, <1>9, <1>10, <1>11, <1>12 DEF S!Next, S!Step

\* Between the four kinds of move a login keeps its one line.
LineInv == FromLogins /\ OneRow /\ OneCarrier /\ RowOrCarrier

LEMMA LineStep == S!SessionAssumption /\ SessionInv /\ S!Next => LineInv'
<1> SUFFICES ASSUME S!SessionAssumption, SessionInv, S!Next PROVE LineInv'
  OBVIOUS
<1>0. S!TypeOK /\ LineInv
  BY DEF SessionInv, LineInv
<1>1. \A l \in SessionRequests : Began(l) => Began(l)'
  BY WaysStep
<1> USE <1>0
<1>2. CASE Fewer
  <2>1. FromLogins'
    BY <1>1, <1>2 DEF Fewer, LineInv, FromLogins, S!TypeOK
  <2>2. OneRow' /\ OneCarrier' /\ RowOrCarrier'
    BY <1>2 DEF Fewer, LineInv, OneRow, OneCarrier, RowOrCarrier
  <2> QED
    BY <2>1, <2>2 DEF LineInv
<1>3. ASSUME NEW r \in SessionRequests, Opens(r) PROVE LineInv'
  <2>1. \A s \in sessions : s.line # r
    BY <1>3 DEF Opens, LineInv, FromLogins
  <2>2. \A q \in SessionRequests : S!InFlight(q) => line[q] # r
    BY <1>3 DEF Opens, LineInv, FromLogins
  <2>3. FromLogins'
    BY <1>1, <1>3 DEF Opens, Others, LineInv, FromLogins, S!TypeOK
  <2>4. OneRow'
    BY <1>3 DEF Opens, LineInv, OneRow
  <2>5. OneCarrier'
    BY <1>3, <2>2 DEF Opens, Others, LineInv, OneCarrier
  <2>6. RowOrCarrier'
    BY <1>3, <2>1 DEF Opens, Others, LineInv, RowOrCarrier
  <2> QED
    BY <2>3, <2>4, <2>5, <2>6 DEF LineInv
<1>4. ASSUME NEW r \in SessionRequests, Stores(r) PROVE LineInv'
  <2> DEFINE x == [token |-> token[r], line |-> line[r], dates |-> dates[r]]
  <2>1. sessions' = sessions \cup {x} /\ x.line = line[r] /\ line[r] \in SessionRequests
    BY <1>4 DEF Stores, S!TypeOK
  <2> HIDE DEF x
  <2>2. \A s \in sessions : s.line # line[r]
    BY <1>4 DEF Stores, LineInv, RowOrCarrier
  <2>3. \A q \in SessionRequests : S!InFlight(q)' => q # r /\ S!InFlight(q) /\ line'[q] = line[q]
    BY <1>4 DEF Stores, Others
  <2>4. FromLogins'
    BY <1>1, <1>4, <2>1, <2>3 DEF Stores, LineInv, FromLogins, S!TypeOK
  <2>5. OneRow'
    BY <2>1, <2>2 DEF LineInv, OneRow
  <2>6. OneCarrier'
    BY <2>3 DEF LineInv, OneCarrier
  <2>7. RowOrCarrier'
    BY <1>4, <2>1, <2>3 DEF Stores, LineInv, OneCarrier, RowOrCarrier
  <2> QED
    BY <2>4, <2>5, <2>6, <2>7 DEF LineInv
<1>5. ASSUME NEW r \in SessionRequests, NEW s \in sessions, Consumes(r, s) PROVE LineInv'
  <2>1. \A q \in SessionRequests \ {r} : S!InFlight(q)' => S!InFlight(q) /\ line'[q] = line[q]
    BY <1>5 DEF Consumes, Others
  <2>2. \A t \in sessions' : t \in sessions /\ t # s
    BY <1>5 DEF Consumes
  <2>3. line'[r] = s.line /\ s.line \in SessionRequests /\ Began(s.line)
    BY <1>5 DEF Consumes, LineInv, FromLogins
  <2>4. FromLogins'
    BY <1>1, <2>1, <2>2, <2>3 DEF LineInv, FromLogins, S!TypeOK
  <2>5. OneRow'
    BY <2>2 DEF LineInv, OneRow
  <2>6. OneCarrier'
    BY <2>1, <2>3 DEF LineInv, OneCarrier, RowOrCarrier
  <2>7. RowOrCarrier'
    BY <2>1, <2>2, <2>3 DEF LineInv, OneRow, RowOrCarrier
  <2> QED
    BY <2>4, <2>5, <2>6, <2>7 DEF LineInv
<1> QED
  BY <1>2, <1>3, <1>4, <1>5, StepMoves DEF Moves

-----------------------------------------------------------------------------
\* Only a logout sets an entry, and it sets it to the end of the token.
LEMMA BlacklistStep == S!SessionAssumption /\ SessionInv /\ S!Next => Blacklisted'
<1> SUFFICES ASSUME S!SessionAssumption, SessionInv, S!Next PROVE Blacklisted'
  OBVIOUS
<1>0. S!TypeOK /\ Ways /\ Blacklisted
  BY DEF SessionInv
<1> USE <1>0 DEF S!users, S!request, S!ghosts
<1> DEFINE Kept(r) ==
      /\ SessionKind[r] # "logout" /\ blacklist' = blacklist /\ unlisted' = unlisted
      /\ \A q \in SessionRequests \ {r} : stage'[q] = stage[q] /\ token'[q] = token[q]
<1>1. ASSUME NEW r \in SessionRequests, S!CheckLogin(r) \/ S!Sign(r) PROVE Kept(r)
  <2>1. CASE S!CheckLogin(r)
    <3>1. \E next \in {"checked", "refused"} : S!Goes(r, next)
      BY <2>1 DEF S!CheckLogin
    <3> QED
      BY <2>1, <3>1, StageTyped DEF S!CheckLogin, S!Stages
  <2>2. CASE S!Sign(r)
    BY <2>2, StageTyped DEF S!Sign, S!Stages, Ways, S!TypeOK
  <2> QED
    BY <1>1, <2>1, <2>2
<1>2. ASSUME NEW r \in SessionRequests, S!Store(r) PROVE Kept(r)
  <2>1. CASE S!Goes(r, "stored") /\ UNCHANGED S!request
    BY <1>2, <2>1, StageTyped DEF S!Store, S!Stages, Ways
  <2>2. CASE S!Ends(r, "conflict")
    BY <1>2, <2>2, EndTyped DEF S!Store, S!Stages, Ways
  <2> QED
    BY <1>2, <2>1, <2>2 DEF S!Store
<1>3. ASSUME NEW r \in SessionRequests, S!FindSession(r) PROVE Kept(r)
  <2>1. PICK t \in held : /\ token' = [token EXCEPT ![r] = t]
                          /\ S!Goes(r, IF S!Rows(t) = {} THEN "replayed" ELSE "found")
    BY <1>3 DEF S!FindSession
  <2> QED
    BY <1>3, <2>1, StageTyped DEF S!FindSession, S!Stages, S!TypeOK
<1>4. ASSUME NEW r \in SessionRequests, S!ConsumeSession(r) PROVE Kept(r)
  <2>1. CASE S!Goes(r, "checked") /\ UNCHANGED token
    BY <1>4, <2>1, StageTyped DEF S!ConsumeSession, S!Stages, Ways
  <2>2. CASE S!Ends(r, "refused")
    BY <1>4, <2>2, EndTyped DEF S!ConsumeSession, S!Stages, Ways
  <2> QED
    BY <1>4, <2>1, <2>2 DEF S!ConsumeSession
<1>5. ASSUME NEW r \in SessionRequests, S!Answer(r) \/ S!DeleteReplayed(r) \/ S!Fault(r) PROVE Kept(r)
  BY <1>5, EndTyped DEF S!Answer, S!DeleteReplayed, S!Fault, S!InFlight, S!Stages, Ways
<1>6. ASSUME NEW r \in SessionRequests, S!ResetPassword(r) PROVE Kept(r)
  <2>1. \E next \in {"deleting", "refused"} : S!Goes(r, next)
    BY <1>6 DEF S!ResetPassword
  <2> QED
    BY <1>6, <2>1, StageTyped DEF S!ResetPassword, S!Stages
<1>7. ASSUME NEW r \in SessionRequests, Kept(r) PROVE Blacklisted'
  BY <1>7 DEF Blacklisted
<1>8. ASSUME NEW r \in SessionRequests, S!Logout(r) PROVE Blacklisted'
  <2>1. PICK t \in S!Seconds : /\ S!Accepts(t) /\ token' = [token EXCEPT ![r] = t]
                               /\ \/ S!Blacklist(t) /\ UNCHANGED unlisted
                                  \/ unlisted' = unlisted \cup {r} /\ UNCHANGED blacklist
    BY <1>8 DEF S!Logout
  <2>2. t \in Nat /\ now \in Nat /\ AccessLife \in Nat /\ now < t + AccessLife
    BY <2>1, FirstSecond DEF S!Accepts, S!SessionAssumption, S!TypeOK
  <2>3. now + ((t + AccessLife) - now) = t + AccessLife /\ (t + AccessLife) - now > 0
    BY <2>2
  <2>4. \A q \in SessionRequests \ {r} : stage'[q] = stage[q] /\ token'[q] = token[q]
    BY <1>8, <2>1, StageTyped DEF S!Logout, S!Stages, S!TypeOK
  <2>5. CASE S!Blacklist(t) /\ UNCHANGED unlisted
    <3>1. blacklist' = [blacklist EXCEPT ![t] = t + AccessLife]
      BY <2>3, <2>5 DEF S!Blacklist
    <3>2. token'[r] = t /\ blacklist'[t] = t + AccessLife
      BY <2>1, <3>1 DEF S!TypeOK
    <3>3. \A q \in SessionRequests \ {r} :
            SessionKind[q] = "logout" /\ stage'[q] # "idle" /\ q \notin unlisted' =>
              blacklist'[token'[q]] = token'[q] + AccessLife
      BY <2>4, <2>5, <3>1 DEF Blacklisted, S!TypeOK
    <3> QED
      BY <3>2, <3>3 DEF Blacklisted
  <2>6. CASE unlisted' = unlisted \cup {r} /\ UNCHANGED blacklist
    BY <2>4, <2>6 DEF Blacklisted
  <2> QED
    BY <2>1, <2>5, <2>6
<1>9. ASSUME NEW r \in SessionRequests, S!DeleteAll(r) PROVE Blacklisted'
  BY <1>9, StageTyped DEF S!DeleteAll, S!Stages, Blacklisted
<1>10. CASE S!SetStatus \/ S!ForgotPassword \/ S!ChangePassword \/ S!LinkExpires \/ S!Tick
  BY <1>10 DEF S!SetStatus, S!ForgotPassword, S!ChangePassword, S!LinkExpires, S!Tick, Blacklisted
<1> QED
  BY <1>1, <1>2, <1>3, <1>4, <1>5, <1>6, <1>7, <1>8, <1>9, <1>10 DEF S!Next, S!Step

\* A step that deletes no sessions for a reset lets nothing get newer than the password.
LEMMA DatesStep ==
  ASSUME S!SessionAssumption, SessionInv, S!Next, ~ \E r \in SessionRequests : S!DeleteAll(r)
  PROVE  /\ UNCHANGED <<cleared, escaped>> /\ password <= password'
         /\ \A q \in SessionRequests : dates'[q] <= password'
<1> DEFINE Goal == /\ UNCHANGED <<cleared, escaped>> /\ password <= password'
                   /\ \A q \in SessionRequests : dates'[q] <= password'
<1>0. S!TypeOK /\ Outdated
  BY DEF SessionInv
<1>a. password \in Nat /\ \A q \in SessionRequests : dates[q] \in Nat /\ dates[q] <= password
  BY <1>0 DEF S!TypeOK, Outdated
<1> USE DEF S!users, S!request, S!ghosts
<1>1. ASSUME NEW r \in SessionRequests, S!CheckLogin(r) PROVE Goal
  <2>1. CASE S!Carries(r, r, password)
    BY <1>0, <1>1, <1>a, <2>1, CarryTyped DEF S!CheckLogin
  <2>2. CASE UNCHANGED <<line, dates>>
    BY <1>1, <1>a, <2>2 DEF S!CheckLogin
  <2> QED
    BY <1>1, <2>1, <2>2 DEF S!CheckLogin
<1>2. ASSUME NEW r \in SessionRequests, S!Store(r) PROVE Goal
  <2>1. CASE UNCHANGED S!request
    BY <1>2, <1>a, <2>1 DEF S!Store
  <2>2. CASE S!Ends(r, "conflict")
    BY <1>0, <1>2, <1>a, <2>2, EndTyped DEF S!Store, S!Stages
  <2> QED
    BY <1>2, <2>1, <2>2 DEF S!Store
<1>3. ASSUME NEW r \in SessionRequests, S!ConsumeSession(r) PROVE Goal
  <2>1. ASSUME NEW s \in S!Rows(token[r]), S!Carries(r, s.line, s.dates) PROVE Goal
    <3>1. s.line \in SessionRequests /\ s.dates \in Nat /\ s.dates <= password
      BY <1>0 DEF S!Rows, S!TypeOK, S!Session, Outdated
    <3> QED
      BY <1>0, <1>3, <1>a, <2>1, <3>1, CarryTyped DEF S!ConsumeSession
  <2>2. CASE S!Ends(r, "refused")
    BY <1>0, <1>3, <1>a, <2>2, EndTyped DEF S!ConsumeSession, S!Stages
  <2> QED
    BY <1>3, <2>1, <2>2 DEF S!ConsumeSession
<1>4. ASSUME NEW r \in SessionRequests, S!Answer(r) \/ S!DeleteReplayed(r) \/ S!Fault(r) PROVE Goal
  BY <1>0, <1>4, <1>a, EndTyped DEF S!Answer, S!DeleteReplayed, S!Fault, S!Stages
<1>5. ASSUME NEW r \in SessionRequests, S!Sign(r) \/ S!FindSession(r) \/ S!Logout(r) PROVE Goal
  BY <1>5, <1>a DEF S!Sign, S!FindSession, S!Logout
<1>6. ASSUME NEW r \in SessionRequests, S!ResetPassword(r) PROVE Goal
  <2>1. CASE password' = password + 1 /\ dates' = [dates EXCEPT ![r] = password']
    BY <1>0, <1>6, <1>a, <2>1 DEF S!ResetPassword, S!TypeOK, S!ghosts
  <2>2. CASE UNCHANGED <<password, resetLink, dates>>
    BY <1>6, <1>a, <2>2 DEF S!ResetPassword
  <2> QED
    BY <1>6, <2>1, <2>2 DEF S!ResetPassword
<1>7. CASE S!SetStatus \/ S!ForgotPassword \/ S!ChangePassword \/ S!LinkExpires \/ S!Tick
  BY <1>7, <1>a DEF S!SetStatus, S!ForgotPassword, S!ChangePassword, S!LinkExpires, S!Tick
<1> QED
  BY <1>1, <1>2, <1>3, <1>4, <1>5, <1>6, <1>7 DEF S!Next, S!Step

\* What a reset finds on its way between two rows it notes, and everything else that
\* is on its way or stored since then is of the new password.
LEMMA OutdatedStep == S!SessionAssumption /\ SessionInv /\ S!Next => Outdated' /\ S!ResetEndsSessions'
<1> SUFFICES ASSUME S!SessionAssumption, SessionInv, S!Next PROVE Outdated' /\ S!ResetEndsSessions'
  OBVIOUS
<1>0. S!TypeOK /\ Outdated /\ S!ResetEndsSessions
  BY DEF SessionInv
<1>a. /\ password \in Nat /\ cleared \in Nat /\ cleared <= password
      /\ \A q \in SessionRequests : dates[q] \in Nat /\ dates[q] <= password
      /\ \A s \in sessions : s.dates \in Nat /\ s.dates <= password
  BY <1>0 DEF S!TypeOK, Outdated, S!Session
<1>b. password' \in Nat
  BY SessionTypeStep DEF S!TypeOK
<1>1. ASSUME NEW r \in SessionRequests, S!DeleteAll(r) PROVE Outdated' /\ S!ResetEndsSessions'
  <2>1. sessions' = {} /\ UNCHANGED <<password, line, dates>>
    BY <1>1 DEF S!DeleteAll, S!users, S!request
  <2>2. \A q \in SessionRequests : S!InFlight(q)' => S!InFlight(q)
    BY <1>0, <1>1, StageTyped DEF S!DeleteAll, S!Stages, S!InFlight
  <2>3. CASE cleared' = dates[r] /\ escaped' = {line[q] : q \in {q \in SessionRequests : S!InFlight(q)}}
    BY <1>a, <2>1, <2>2, <2>3 DEF Outdated, S!ResetEndsSessions
  <2>4. CASE UNCHANGED S!ghosts
    BY <1>0, <1>a, <2>1, <2>2, <2>4 DEF Outdated, S!ResetEndsSessions, S!ghosts
  <2> QED
    BY <1>1, <2>3, <2>4 DEF S!DeleteAll
<1>2. CASE ~ \E r \in SessionRequests : S!DeleteAll(r)
  <2>1. /\ UNCHANGED <<cleared, escaped>> /\ password <= password'
        /\ \A q \in SessionRequests : dates'[q] <= password'
    BY <1>2, DatesStep
  <2>2. ASSUME /\ \A s \in sessions' : s.dates <= password /\ (s.dates < cleared => s.line \in escaped)
               /\ \A s \in sessions' : s.dates \in Nat
               /\ \A q \in SessionRequests : S!InFlight(q)' /\ dates'[q] < cleared => line'[q] \in escaped
        PROVE  Outdated' /\ S!ResetEndsSessions'
    <3>1. \A s \in sessions' : s.dates <= password'
      BY <1>a, <1>b, <2>1, <2>2
    <3> QED
      BY <1>a, <1>b, <2>1, <2>2, <3>1 DEF Outdated, S!ResetEndsSessions, S!ghosts
  <2>3. CASE Fewer
    BY <1>0, <1>a, <2>2, <2>3 DEF Fewer, Outdated, S!ResetEndsSessions
  <2>4. ASSUME NEW r \in SessionRequests, Opens(r) PROVE Outdated' /\ S!ResetEndsSessions'
    BY <1>0, <1>a, <2>2, <2>4 DEF Opens, Others, Outdated, S!ResetEndsSessions
  <2>5. ASSUME NEW r \in SessionRequests, Stores(r) PROVE Outdated' /\ S!ResetEndsSessions'
    BY <1>0, <1>a, <2>2, <2>5 DEF Stores, Others, Outdated, S!ResetEndsSessions
  <2>6. ASSUME NEW r \in SessionRequests, NEW s \in sessions, Consumes(r, s)
        PROVE  Outdated' /\ S!ResetEndsSessions'
    BY <1>0, <1>a, <2>2, <2>6 DEF Consumes, Others, Outdated, S!ResetEndsSessions
  <2> QED
    BY <2>3, <2>4, <2>5, <2>6, StepMoves DEF Moves
<1> QED
  BY <1>1, <1>2

-----------------------------------------------------------------------------
\* SessionInv is an invariant: what the requests, the rows and the entries of the
\* blacklist are to each other in every reachable state.
THEOREM SessionInvariant == ASSUME S!SessionAssumption PROVE S!Spec => []SessionInv
<1>1. S!Init => SessionInv
  BY SessionInvInit
<1>2. SessionInv /\ [S!Next]_(S!vars) => SessionInv'
  <2>1. ASSUME SessionInv, S!Next PROVE SessionInv'
    <3>1. S!TypeOK'
      BY <2>1, SessionTypeStep
    <3>2. Ways'
      BY <2>1, WaysStep
    <3>3. FromLogins' /\ OneRow' /\ OneCarrier' /\ RowOrCarrier'
      BY <2>1, LineStep DEF LineInv
    <3>4. Blacklisted'
      BY <2>1, BlacklistStep
    <3>5. Outdated' /\ S!ResetEndsSessions'
      BY <2>1, OutdatedStep
    <3> QED
      BY <3>1, <3>2, <3>3, <3>4, <3>5 DEF SessionInv
  <2>2. ASSUME SessionInv, UNCHANGED S!vars PROVE SessionInv'
    BY <2>2 DEF S!vars, S!users, S!request, S!ghosts, SessionInv, S!TypeOK, Ways, FromLogins, Began, S!InFlight,
                OneRow, OneCarrier, RowOrCarrier, Blacklisted, Outdated, S!ResetEndsSessions
  <2> QED
    BY <2>1, <2>2
<1> QED
  BY <1>1, <1>2, PTL DEF S!Spec

\* The user's row, the sessions and the requests keep their types.
THEOREM SessionsTypeCorrect == ASSUME S!SessionAssumption PROVE S!Spec => []S!TypeOK
<1>1. SessionInv => S!TypeOK
  BY DEF SessionInv
<1> QED
  BY <1>1, SessionInvariant, PTL

\* With one row and no carrier, or one carrier and no row, there is at most one successor.
LEMMA Successors == SessionInv => S!OneLinePerLogin
<1> SUFFICES ASSUME SessionInv, NEW l \in SessionRequests
             PROVE  Cardinality(S!RowsOf(l)) + Cardinality(S!CarriersOf(l)) <= 1
  BY SameCardinality DEF S!OneLinePerLogin
<1>0. OneRow /\ OneCarrier /\ RowOrCarrier
  BY DEF SessionInv
<1>1. \A s, t \in S!RowsOf(l) : s = t
  BY <1>0 DEF OneRow, S!RowsOf
<1>2. \A q, r \in S!CarriersOf(l) : q = r
  BY <1>0 DEF OneCarrier, S!CarriersOf
<1>3. S!RowsOf(l) = {} \/ S!CarriersOf(l) = {}
  BY <1>0 DEF RowOrCarrier, S!RowsOf, S!CarriersOf
<1>4. S!RowsOf(l) = {} \/ \E s : S!RowsOf(l) = {s}
  BY <1>1
<1>5. S!CarriersOf(l) = {} \/ \E r : S!CarriersOf(l) = {r}
  BY <1>2
<1>6. Cardinality(S!RowsOf(l)) \in {0, 1} /\ (S!RowsOf(l) = {} => Cardinality(S!RowsOf(l)) = 0)
  BY <1>4, FS_EmptySet, FS_Singleton
<1>7. Cardinality(S!CarriersOf(l)) \in {0, 1} /\ (S!CarriersOf(l) = {} => Cardinality(S!CarriersOf(l)) = 0)
  BY <1>5, FS_EmptySet, FS_Singleton
<1> QED
  BY <1>3, <1>6, <1>7

\* However many clients present a refresh token at once, a login has one successor.
THEOREM OneSuccessor == ASSUME S!SessionAssumption PROVE S!Spec => []S!OneLinePerLogin
<1> QED
  BY SessionInvariant, Successors, PTL

\* An access token whose revocation Redis has taken is never accepted again.
THEOREM RevokedForGood == ASSUME S!SessionAssumption PROVE S!Spec => []S!RevokedStaysOut
<1>1. SessionInv => S!RevokedStaysOut
  <2> SUFFICES ASSUME SessionInv, NEW r \in SessionRequests, SessionKind[r] = "logout", stage[r] # "idle",
                      r \notin unlisted,
                      S!Accepts(token[r])
               PROVE  FALSE
    BY DEF S!RevokedStaysOut
  <2>1. blacklist[token[r]] = token[r] + AccessLife
    BY DEF SessionInv, Blacklisted
  <2> QED
    BY <2>1 DEF S!Accepts
<1> QED
  BY <1>1, SessionInvariant, PTL

\* A reset of the password ends every session but those on their way between two rows.
THEOREM ResetEnds == ASSUME S!SessionAssumption PROVE S!Spec => []S!ResetEndsSessions
<1>1. SessionInv => S!ResetEndsSessions
  BY DEF SessionInv
<1> QED
  BY <1>1, SessionInvariant, PTL

\* Sessions implements SessionLines: a login opens its line once, and every other step
\* carries the lines on or ends some; none comes back.
THEOREM EndedStay == ASSUME S!SessionAssumption PROVE S!Spec => S!EndedStaysEnded
<1> DEFINE Opened == {l \in SessionRequests : SessionKind[l] = "login" /\ stage[l] \notin {"idle", "refused"}}
           Live == {l \in SessionRequests : S!RowsOf(l) # {} \/ S!CarriersOf(l) # {}}
<1>1. S!Init => S!Lines!Init
  BY DEF S!Init, S!Lines!Init, S!RowsOf, S!CarriersOf, S!InFlight
<1>2. SessionInv /\ [S!Next]_(S!vars) => [S!Lines!Next]_<<Opened, Live>>
  <2>1. CASE UNCHANGED S!vars
    BY <2>1 DEF S!vars, S!users, S!request, S!ghosts, S!RowsOf, S!CarriersOf, S!InFlight
  <2>2. ASSUME SessionInv, S!Next PROVE S!Lines!Next
    <3>a. \A l : l \in Opened <=> l \in SessionRequests /\ Began(l)
      BY DEF Began
    <3>b. \A l : l \in Opened' <=> l \in SessionRequests /\ Began(l)'
      BY DEF Began
    <3>c. \A l \in SessionRequests : Began(l) => Began(l)'
      BY <2>2, WaysStep
    <3>d. \A l : l \in Live <=> /\ l \in SessionRequests
                               /\ \/ \E s \in sessions : s.line = l
                                  \/ \E q \in SessionRequests : S!InFlight(q) /\ line[q] = l
      BY DEF S!RowsOf, S!CarriersOf
    <3>e. \A l : l \in Live' <=> /\ l \in SessionRequests
                                /\ \/ \E s \in sessions' : s.line = l
                                   \/ \E q \in SessionRequests : S!InFlight(q)' /\ line'[q] = l
      BY DEF S!RowsOf, S!CarriersOf
    <3> HIDE DEF Opened, Live
    <3>1. CASE Fewer
      <4>1. Live' \subseteq Live
        BY <3>1, <3>d, <3>e DEF Fewer
      <4>2. Opened' = Opened
        BY <3>1, <3>a, <3>b, <3>c DEF Fewer
      <4> QED
        BY <4>1, <4>2 DEF S!Lines!Next, S!Lines!End, Opened, Live
    <3>2. ASSUME NEW r \in SessionRequests, Opens(r) PROVE S!Lines!Next
      <4>1. Opened' = Opened \cup {r} /\ r \notin Opened
        BY <3>2, <3>a, <3>b, <3>c DEF Opens, Others, Began
      <4>2. Live' = Live \cup {r}
        BY <3>2, <3>d, <3>e DEF Opens, Others
      <4> QED
        BY <4>1, <4>2 DEF S!Lines!Next, S!Lines!Open, Opened, Live
    <3>3. ASSUME NEW r \in SessionRequests, Stores(r) PROVE S!Lines!Next
      <4>1. Live' \subseteq Live
        BY <3>3, <3>d, <3>e DEF Stores, Others
      <4>2. Opened' = Opened
        BY <3>3, <3>a, <3>b, <3>c DEF Stores, Others, Began
      <4> QED
        BY <4>1, <4>2 DEF S!Lines!Next, S!Lines!End, Opened, Live
    <3>4. ASSUME NEW r \in SessionRequests, NEW s \in sessions, Consumes(r, s) PROVE S!Lines!Next
      <4>1. Live' \subseteq Live
        BY <3>4, <3>d, <3>e DEF Consumes, Others
      <4>2. Opened' = Opened
        BY <3>4, <3>a, <3>b, <3>c DEF Consumes, Others, Began
      <4> QED
        BY <4>1, <4>2 DEF S!Lines!Next, S!Lines!End, Opened, Live
    <3> QED
      BY <2>2, <3>1, <3>2, <3>3, <3>4, StepMoves DEF Moves
  <2> QED
    BY <2>1, <2>2
<1> QED
  BY <1>1, <1>2, SessionInvariant, PTL DEF S!Spec, S!EndedStaysEnded, S!Lines!Spec
=============================================================================
