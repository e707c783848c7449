-------------------------------- MODULE Team --------------------------------
(***************************************************************************)
(* UsersService on the users of one tenant, and the guards in front of the *)
(* API.  A request is judged by the role in its access token, which is the *)
(* role of the user when the login or refresh read them; roles and         *)
(* accounts change while it compares the password and signs, and while     *)
(* tokens are out.  Of each person one token is followed, and the login or *)
(* refresh that makes it.                                                  *)
(***************************************************************************)
EXTENDS Access

CONSTANTS
  People,
  AtFirst,      \* [People -> Roles \cup {"none"}], the users there are at first
  Given,        \* the roles that are assigned in a behaviour
  LowerCase,    \* the people whose address is written in lower case
  AccessLife,   \* ticks an access token lives
  MaxWait       \* bound of the ticks a login or refresh is under way

\* InviteUserSchema and UpdateRoleSchema.
Assignable == Roles \ {"SUPER_ADMIN"}

TeamAssumption ==
  /\ AtFirst \in [People -> Roles \cup {"none"}]
  /\ Given \subseteq Assignable /\ LowerCase \subseteq People
  /\ AccessLife \in Nat \ {0} /\ MaxWait \in Nat

VARIABLES
  user,       \* role and status of each account
  mailed,     \* who an invitation was queued for
  signing,    \* the role a login or refresh has read, and for how long it is under way
  token,      \* the role in everybody's access token, and how long it lives
  session,    \* who has a refresh session
  since       \* ticks since somebody's role was changed, as long as it matters

vars == <<user, mailed, signing, token, session, since>>

Ages == AccessLife + MaxWait
NotSigning == [role |-> "none", waited |-> 0]
NoToken == [role |-> "none", left |-> 0]

TypeOK ==
  /\ user \in [People -> [role : Roles \cup {"none"},
                          status : {"none", "INVITED", "ACTIVE", "INACTIVE"}]]
  /\ mailed \subseteq People /\ session \subseteq People
  /\ signing \in [People -> [role : Roles \cup {"none"}, waited : 0..MaxWait]]
  /\ token \in [People -> [role : Roles \cup {"none"}, left : 0..AccessLife]]
  /\ since \in [People -> 0..Ages]

Init ==
  /\ user = [p \in People |-> [role |-> AtFirst[p],
                               status |-> IF AtFirst[p] = "none" THEN "none" ELSE "ACTIVE"]]
  /\ mailed = {} /\ session = {}
  /\ signing = [p \in People |-> NotSigning]
  /\ token = [p \in People |-> NoToken]
  /\ since = [p \in People |-> Ages]

Exists(p) == user[p].status # "none"

\* A request that carries an access token and passes the guard of its route.
Passes(a, of, at) ==
  /\ token[a] # NoToken
  /\ <<of, at>> \in OpenTo[token[a].role]

\* Some token, or login or refresh, of theirs says another role.
Outdated(p) ==
  \/ token[p] # NoToken /\ token[p].role # user[p].role
  \/ signing[p] # NotSigning /\ signing[p].role # user[p].role

Tick ==
  /\ \A p \in People : signing[p] # NotSigning => signing[p].waited < MaxWait
  /\ signing' = [p \in People |-> IF signing[p] = NotSigning THEN NotSigning
                                  ELSE [signing[p] EXCEPT !.waited = @ + 1]]
  /\ token' = [p \in People |-> IF token[p].left > 1
                                THEN [token[p] EXCEPT !.left = @ - 1] ELSE NoToken]
  /\ since' = [p \in People |-> IF Outdated(p) /\ since[p] < Ages THEN since[p] + 1 ELSE Ages]
  /\ UNCHANGED <<user, mailed, session>>

Reads(p, r) ==
  /\ signing[p] = NotSigning
  /\ signing' = [signing EXCEPT ![p] = [role |-> r, waited |-> 0]]

\* Injected fault: only a deactivated account is refused.
LoginInvited(p) ==
  /\ p \in LowerCase /\ user[p].status \in {"ACTIVE", "INVITED"}
  /\ Reads(p, user[p].role)
  /\ UNCHANGED <<user, mailed, token, session, since>>

\* The user is looked up, by the address in lower case, which is stored as it was
\* written; then the password is compared, with the user as they were.
Login(p) ==
  /\ p \in LowerCase /\ user[p].status = "ACTIVE"
  /\ Reads(p, user[p].role)
  /\ UNCHANGED <<user, mailed, token, session, since>>

\* Injected fault: the new access token says what the old one said.
RefreshCopies(p) ==
  /\ p \in session /\ token[p] # NoToken /\ Reads(p, token[p].role)
  /\ session' = session \ {p}
  /\ UNCHANGED <<user, mailed, token, since>>

\* The session is consumed, which reads its user; it may not be the only one. The
\* status of the account is not looked at.
Refresh(p) ==
  /\ p \in session /\ Reads(p, user[p].role)
  /\ session' \in {session, session \ {p}}
  /\ UNCHANGED <<user, mailed, token, since>>

\* The tokens are signed with what was read, and the session is written; or that fails.
GenerateTokens(p) ==
  /\ signing[p] # NotSigning /\ signing' = [signing EXCEPT ![p] = NotSigning]
  /\ \/ /\ token' = [token EXCEPT ![p] = [role |-> signing[p].role, left |-> AccessLife]]
        /\ session' = session \cup {p}
     \/ UNCHANGED <<token, session>>
  /\ UNCHANGED <<user, mailed, since>>

\* The account, then the invitation on the queue, which fails on its own; a second
\* attempt is refused because the address is taken.
Invite(a, p, r) ==
  /\ Passes(a, "users", "invite") /\ ~Exists(p)
  /\ user' = [user EXCEPT ![p] = [role |-> r, status |-> "INVITED"]]
  /\ mailed' \in {mailed, mailed \cup {p}}
  /\ UNCHANGED <<signing, token, session, since>>

\* Only a role below one's own is given, unless one is SUPER_ADMIN; what the other
\* is now does not matter.
UpdateRole(a, p, r) ==
  /\ Passes(a, "users", "role") /\ Exists(p)
  /\ token[a].role \in Admins
  /\ token[a].role = "SUPER_ADMIN" \/ Level[r] < Level[token[a].role]
  /\ user' = [user EXCEPT ![p].role = r]
  /\ since' = [since EXCEPT ![p] = IF user[p].role = r THEN @ ELSE 0]
  /\ UNCHANGED <<mailed, signing, token, session>>

Deactivate(a, p) ==
  /\ Passes(a, "users", "deactivate") /\ Exists(p) /\ a # p
  /\ user' = [user EXCEPT ![p].status = "INACTIVE"]
  /\ UNCHANGED <<mailed, signing, token, session, since>>

Activate(a, p) ==
  /\ Passes(a, "users", "activate") /\ Exists(p)
  /\ user' = [user EXCEPT ![p].status = "ACTIVE"]
  /\ UNCHANGED <<mailed, signing, token, session, since>>

Next ==
  \/ Tick
  \/ \E p \in People : Login(p) \/ Refresh(p) \/ GenerateTokens(p)
  \/ \E a, p \in People :
       \/ Deactivate(a, p) \/ Activate(a, p)
       \/ \E r \in Given : Invite(a, p, r) \/ UpdateRole(a, p, r)

Spec == Init /\ [][Next]_vars

-----------------------------------------------------------------------------
\* A token that says another role than the user has now comes from a login or refresh
\* that read the user before the change, though it may have signed after it. So the old
\* role is of no use after one life of an access token and the longest that takes.
StaleRoleEnds ==
  \A p \in People :
    token[p] # NoToken /\ token[p].role # user[p].role =>
      since[p] + token[p].left <= Ages

\* What the permission map promises and the guards refuse all the same.
Withheld ==
  {<<"SALES_MANAGER", "users", "role">>, <<"SALES_MANAGER", "users", "deactivate">>,
   <<"SALES_MANAGER", "users", "activate">>, <<"SALES_REP", "leads", "one">>,
   <<"SALES_REP", "contacts", "one">>}

\* Nothing else that the map promises to a role is refused to its tokens.
PromisesAreGranted ==
  \A r \in Roles, e \in Api :
    HasPermission(r, e.of, e.does) /\ <<r, e.of, e.at>> \notin Withheld => CanActivate(r, e)

\* Who was invited is not in before an administrator activates the account.
InvitedWait == \A p \in People : user[p].status = "INVITED" => p \notin session
=============================================================================
