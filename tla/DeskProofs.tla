------------------------------ MODULE DeskProofs ------------------------------
(***************************************************************************)
(* Theorems about Desk and its parts: Team, for any people and routes;     *)
(* Leads, Pipelines, Insights and Pages, for any calls, users, pipelines,  *)
(* stages, lives of an entry and stories; and, with those of Sessions,     *)
(* Wallets and Billing, what Desk promises.                                *)
(***************************************************************************)
EXTENDS SessionsProofs, PurchasesProofs

\* Who has no account has no token, session, login or refresh either.
NobodyIsOut == \A p \in People :
  ~T!Exists(p) => access[p] = T!NoToken /\ signing[p] = T!NotSigning /\ p \notin refresh

\* Who was invited is not about to get in.
InvitedStay == \A p \in People : user[p].status = "INVITED" => signing[p] = T!NotSigning

\* Whoever is signed in with a role that was taken had read it before.
ReadBefore == \A p \in People :
  signing[p] # T!NotSigning /\ signing[p].role # user[p].role => since[p] <= signing[p].waited

TeamInv ==
  T!TypeOK /\ NobodyIsOut /\ InvitedStay /\ ReadBefore /\ T!StaleRoleEnds /\ T!InvitedWait

Accounts == [role : T!Roles \cup {"none"}, status : {"none", "INVITED", "ACTIVE", "INACTIVE"}]
Tokens == [role : T!Roles \cup {"none"}, left : 0..AccessLife]
Signings == [role : T!Roles \cup {"none"}, waited : 0..MaxWait]

-----------------------------------------------------------------------------
LEMMA TeamInvInit == T!TeamAssumption /\ T!Init => TeamInv
<1> SUFFICES ASSUME T!TeamAssumption, T!Init PROVE TeamInv
  OBVIOUS
<1>1. \A p \in People : AtFirst[p] \in T!Roles \cup {"none"}
  BY DEF T!TeamAssumption
<1>2. T!NoToken \in Tokens /\ T!NotSigning \in Signings /\ T!Ages \in 0..T!Ages
  BY DEF T!NoToken, Tokens, T!NotSigning, Signings, T!Ages, T!TeamAssumption
<1>3. \A p \in People : user[p] \in Accounts /\ user[p].status \in {"none", "ACTIVE"}
  BY <1>1 DEF T!Init, Accounts
<1>4. T!TypeOK
  BY <1>2, <1>3 DEF T!Init, T!TypeOK, Accounts, Tokens, Signings
<1> QED
  BY <1>3, <1>4
  DEF T!Init, TeamInv, NobodyIsOut, InvitedStay, ReadBefore, T!StaleRoleEnds, T!InvitedWait

\* A tick takes a tick from every token and gives it to every login or refresh that is
\* under way, and to a change as long as a role from before it is of use.
LEMMA Ticked ==
  ASSUME T!TeamAssumption, T!TypeOK, T!Tick, NEW p \in People
  PROVE  /\ access'[p] \in Tokens /\ signing'[p] \in Signings /\ since'[p] \in 0..T!Ages
         /\ \/ access'[p] = T!NoToken
            \/ /\ access[p].left > 1 /\ access'[p].left = access[p].left - 1
               /\ access'[p].role = access[p].role
         /\ \/ signing[p] = T!NotSigning /\ signing'[p] = T!NotSigning
            \/ /\ signing[p] # T!NotSigning /\ signing'[p].waited = signing[p].waited + 1
               /\ signing'[p].role = signing[p].role
         /\ T!Outdated(p) /\ since[p] < T!Ages => since'[p] = since[p] + 1
<1>0. AccessLife \in Nat /\ MaxWait \in Nat /\ T!Ages \in Nat
  BY DEF T!TeamAssumption, T!Ages
<1>1. access[p] \in Tokens /\ signing[p] \in Signings /\ since[p] \in 0..T!Ages
  BY DEF T!TypeOK, Tokens, Signings
<1>2. /\ access'[p] = IF access[p].left > 1 THEN [access[p] EXCEPT !.left = access[p].left - 1]
                      ELSE T!NoToken
      /\ signing'[p] = IF signing[p] = T!NotSigning THEN T!NotSigning
                       ELSE [signing[p] EXCEPT !.waited = signing[p].waited + 1]
      /\ since'[p] = IF T!Outdated(p) /\ since[p] < T!Ages THEN since[p] + 1 ELSE T!Ages
      /\ signing[p] # T!NotSigning => signing[p].waited < MaxWait
  BY DEF T!Tick
<1>3. /\ access'[p] \in Tokens
      /\ \/ access'[p] = T!NoToken
         \/ /\ access[p].left > 1 /\ access'[p].left = access[p].left - 1
            /\ access'[p].role = access[p].role
  <2>1. CASE access[p].left > 1
    <3>1. access'[p] = [role |-> access[p].role, left |-> access[p].left - 1]
      BY <1>1, <1>2, <2>1 DEF Tokens
    <3>2. access[p].left \in 0..AccessLife /\ access[p].left - 1 \in 0..AccessLife
      BY <1>0, <1>1, <2>1 DEF Tokens
    <3> QED
      BY <1>1, <2>1, <3>1, <3>2 DEF Tokens
  <2>2. CASE ~ access[p].left > 1
    BY <1>0, <1>2, <2>2 DEF T!NoToken, Tokens
  <2> QED
    BY <2>1, <2>2
<1>4. /\ signing'[p] \in Signings
      /\ \/ signing[p] = T!NotSigning /\ signing'[p] = T!NotSigning
         \/ /\ signing[p] # T!NotSigning /\ signing'[p].waited = signing[p].waited + 1
            /\ signing'[p].role = signing[p].role
  <2>1. CASE signing[p] = T!NotSigning
    BY <1>1, <1>2, <2>1
  <2>2. CASE signing[p] # T!NotSigning
    <3>1. signing'[p] = [role |-> signing[p].role, waited |-> signing[p].waited + 1]
      BY <1>1, <1>2, <2>2 DEF Signings
    <3>2. signing[p].waited \in 0..MaxWait /\ signing[p].waited + 1 \in 0..MaxWait
      BY <1>0, <1>1, <1>2, <2>2 DEF Signings
    <3> QED
      BY <1>1, <2>2, <3>1, <3>2 DEF Signings
  <2> QED
    BY <2>1, <2>2
<1>5. since'[p] \in 0..T!Ages
  BY <1>0, <1>1, <1>2
<1> QED
  BY <1>2, <1>3, <1>4, <1>5

\* What a change of one account's role or status keeps.
LEMMA AccountTyped ==
  ASSUME T!TypeOK, NEW p \in People, NEW account \in Accounts, user' = [user EXCEPT ![p] = account]
  PROVE  user' \in [People -> Accounts] /\ user'[p] = account
         /\ \A q \in People \ {p} : user'[q] = user[q]
  BY DEF T!TypeOK, Accounts

\* Who reads the user is signed in with the role the user has.
LEMMA WasRead ==
  ASSUME T!TeamAssumption, T!TypeOK, NEW p \in People, T!Reads(p, user[p].role)
  PROVE  /\ signing' \in [People -> Signings] /\ signing'[p].role = user[p].role
         /\ \A q \in People \ {p} : signing'[q] = signing[q]
<1>1. [role |-> user[p].role, waited |-> 0] \in Signings
  BY DEF T!TypeOK, Signings, T!TeamAssumption
<1> QED
  BY <1>1 DEF T!Reads, T!TypeOK, Signings

-----------------------------------------------------------------------------
\* Every step keeps the accounts, tokens and sessions in step with each other.
LEMMA TeamInvNext == T!TeamAssumption /\ TeamInv /\ T!Next => TeamInv'
<1> SUFFICES ASSUME T!TeamAssumption, TeamInv, T!Next PROVE TeamInv'
  OBVIOUS
<1>0. T!TypeOK /\ NobodyIsOut /\ InvitedStay /\ ReadBefore /\ T!StaleRoleEnds /\ T!InvitedWait
  BY DEF TeamInv
<1>a. /\ AccessLife \in Nat \ {0} /\ MaxWait \in Nat /\ T!Ages \in Nat
      /\ T!Ages = AccessLife + MaxWait
      /\ \A p \in People : /\ user[p] \in Accounts /\ access[p] \in Tokens /\ since[p] \in 0..T!Ages
                           /\ access[p].left \in 0..AccessLife
                           /\ signing[p] \in Signings /\ signing[p].waited \in 0..MaxWait
  BY <1>0 DEF T!TypeOK, Accounts, Tokens, Signings, T!TeamAssumption, T!Ages
<1> USE <1>0
<1>1. CASE T!Tick
  <2>1. T!TypeOK'
    BY <1>1, Ticked DEF T!Tick, T!TypeOK, Tokens, Signings
  <2>2. NobodyIsOut' /\ InvitedStay' /\ T!InvitedWait'
    <3>1. UNCHANGED <<user, refresh>>
      BY <1>1 DEF T!Tick
    <3>2. \A p \in People : signing[p] = T!NotSigning => signing'[p] = T!NotSigning
      BY <1>1, Ticked
    <3>3. \A p \in People : access[p] = T!NoToken => access'[p] = T!NoToken
      BY <1>1, Ticked DEF T!NoToken
    <3> QED
      BY <3>1, <3>2, <3>3 DEF NobodyIsOut, InvitedStay, T!InvitedWait, T!Exists
  <2>3. T!StaleRoleEnds'
    <3> SUFFICES ASSUME NEW p \in People, access'[p] # T!NoToken, access'[p].role # user'[p].role
                 PROVE  since'[p] + access'[p].left <= T!Ages
      BY DEF T!StaleRoleEnds
    <3>1. /\ access[p].left > 1 /\ access'[p].left = access[p].left - 1
          /\ access'[p].role = access[p].role
      BY <1>1, Ticked
    <3>2. access[p] # T!NoToken /\ access[p].role # user[p].role
      BY <1>1, <3>1 DEF T!NoToken, T!Tick
    <3>3. since[p] + access[p].left <= T!Ages
      BY <3>2 DEF T!StaleRoleEnds
    <3>4. T!Outdated(p) /\ since[p] < T!Ages
      BY <1>a, <3>1, <3>2, <3>3 DEF T!Outdated
    <3>5. since'[p] = since[p] + 1
      BY <1>1, <3>4, Ticked
    <3> QED
      BY <1>a, <3>1, <3>3, <3>5
  <2>4. ReadBefore'
    <3> SUFFICES ASSUME NEW p \in People, signing'[p] # T!NotSigning,
                        signing'[p].role # user'[p].role
                 PROVE  since'[p] <= signing'[p].waited
      BY DEF ReadBefore
    <3>1. /\ signing[p] # T!NotSigning /\ signing'[p].waited = signing[p].waited + 1
          /\ signing'[p].role = signing[p].role
      BY <1>1, Ticked
    <3>2. signing[p].role # user[p].role /\ signing[p].waited < MaxWait
      BY <1>1, <3>1 DEF T!Tick
    <3>3. since[p] <= signing[p].waited
      BY <3>1, <3>2 DEF ReadBefore
    <3>4. T!Outdated(p) /\ since[p] < T!Ages
      BY <1>a, <3>1, <3>2, <3>3 DEF T!Outdated
    <3>5. since'[p] = since[p] + 1
      BY <1>1, <3>4, Ticked
    <3> QED
      BY <1>a, <3>1, <3>3, <3>5
  <2> QED
    BY <2>1, <2>2, <2>3, <2>4 DEF TeamInv
<1>2. ASSUME NEW p \in People, T!Login(p) \/ T!Refresh(p) PROVE TeamInv'
  <2>1. /\ T!Reads(p, user[p].role) /\ UNCHANGED <<user, mailed, access, since>>
        /\ refresh' \subseteq refresh
    BY <1>2 DEF T!Login, T!Refresh
  <2>2. T!Exists(p) /\ user[p].status # "INVITED"
    BY <1>2 DEF T!Login, T!Refresh, T!Exists, NobodyIsOut, T!InvitedWait
  <2>3. /\ signing' \in [People -> Signings] /\ signing'[p].role = user[p].role
        /\ \A q \in People \ {p} : signing'[q] = signing[q]
    BY <2>1, WasRead
  <2>4. T!TypeOK'
    BY <2>1, <2>3 DEF T!TypeOK, Signings
  <2>5. NobodyIsOut' /\ InvitedStay' /\ T!InvitedWait'
    BY <2>1, <2>2, <2>3 DEF NobodyIsOut, InvitedStay, T!InvitedWait, T!Exists
  <2>6. ReadBefore' /\ T!StaleRoleEnds'
    BY <2>1, <2>3 DEF ReadBefore, T!StaleRoleEnds
  <2> QED
    BY <2>4, <2>5, <2>6 DEF TeamInv
<1>6. ASSUME NEW p \in People, T!GenerateTokens(p) PROVE TeamInv'
  <2> DEFINE new == [role |-> signing[p].role, left |-> AccessLife]
  <2>1. /\ signing[p] # T!NotSigning /\ signing' = [signing EXCEPT ![p] = T!NotSigning]
        /\ \/ access' = [access EXCEPT ![p] = new] /\ refresh' = refresh \cup {p}
           \/ UNCHANGED <<access, refresh>>
        /\ UNCHANGED <<user, mailed, since>>
    BY <1>6 DEF T!GenerateTokens
  <2>2. T!NotSigning \in Signings /\ new \in Tokens
    BY <1>a DEF T!NotSigning, Signings, Tokens
  <2>3. /\ signing' \in [People -> Signings] /\ signing'[p] = T!NotSigning
        /\ \A q \in People \ {p} : signing'[q] = signing[q]
    BY <2>1, <2>2 DEF T!TypeOK, Signings
  <2>4. /\ access' \in [People -> Tokens] /\ access'[p] \in {access[p], new}
        /\ \A q \in People \ {p} : access'[q] = access[q]
    <3> HIDE DEF new
    <3>1. access \in [People -> Tokens]
      BY DEF T!TypeOK, Tokens
    <3> QED
      BY <2>1, <2>2, <3>1
  <2>5. T!TypeOK'
    BY <2>1, <2>3, <2>4 DEF T!TypeOK, Tokens, Signings
  <2>6. T!Exists(p) /\ user[p].status # "INVITED"
    BY <2>1 DEF NobodyIsOut, InvitedStay
  <2>7. NobodyIsOut' /\ InvitedStay' /\ T!InvitedWait'
    BY <2>1, <2>3, <2>4, <2>6 DEF NobodyIsOut, InvitedStay, T!InvitedWait, T!Exists
  <2>8. ReadBefore'
    BY <2>1, <2>3 DEF ReadBefore
  <2>9. T!StaleRoleEnds'
    <3> SUFFICES ASSUME NEW q \in People, access'[q] # T!NoToken, access'[q].role # user'[q].role
                 PROVE  since'[q] + access'[q].left <= T!Ages
      BY DEF T!StaleRoleEnds
    <3>1. CASE access'[q] = access[q]
      BY <2>1, <3>1 DEF T!StaleRoleEnds
    <3>2. CASE q = p /\ access'[q] = new
      <4>1. since[p] <= signing[p].waited
        BY <2>1, <3>2 DEF ReadBefore
      <4> QED
        BY <1>a, <2>1, <3>2, <4>1
    <3> QED
      BY <2>4, <3>1, <3>2
  <2> QED
    BY <2>5, <2>7, <2>8, <2>9 DEF TeamInv
<1>3. ASSUME NEW a \in People, NEW p \in People, T!Deactivate(a, p) \/ T!Activate(a, p) PROVE TeamInv'
  <2>1. T!Exists(p) /\ UNCHANGED <<mailed, signing, access, refresh, since>>
    BY <1>3 DEF T!Deactivate, T!Activate
  <2>2. PICK s \in {"ACTIVE", "INACTIVE"} : user' = [user EXCEPT ![p].status = s]
    BY <1>3 DEF T!Deactivate, T!Activate
  <2>3. /\ user' \in [People -> Accounts] /\ user'[p].status = s /\ user'[p].role = user[p].role
        /\ \A q \in People \ {p} : user'[q] = user[q]
    <3>1. [user[p] EXCEPT !.status = s] = [role |-> user[p].role, status |-> s]
      BY <1>a DEF Accounts
    <3>2. [role |-> user[p].role, status |-> s] \in Accounts
      BY <1>a DEF Accounts
    <3>3. user' = [user EXCEPT ![p] = [role |-> user[p].role, status |-> s]]
      BY <2>2, <3>1
    <3> QED
      BY <3>2, <3>3, AccountTyped
  <2>4. T!TypeOK'
    BY <2>1, <2>3 DEF T!TypeOK, Accounts
  <2>5. NobodyIsOut' /\ InvitedStay' /\ T!InvitedWait'
    BY <2>1, <2>3 DEF NobodyIsOut, InvitedStay, T!InvitedWait, T!Exists
  <2>6. ReadBefore' /\ T!StaleRoleEnds'
    BY <2>1, <2>3 DEF ReadBefore, T!StaleRoleEnds
  <2> QED
    BY <2>4, <2>5, <2>6 DEF TeamInv
<1>4. ASSUME NEW a \in People, NEW p \in People, NEW r \in Given, T!Invite(a, p, r) PROVE TeamInv'
  <2>1. /\ ~T!Exists(p) /\ user' = [user EXCEPT ![p] = [role |-> r, status |-> "INVITED"]]
        /\ mailed' \in {mailed, mailed \cup {p}} /\ UNCHANGED <<signing, access, refresh, since>>
    BY <1>4 DEF T!Invite
  <2>2. [role |-> r, status |-> "INVITED"] \in Accounts
    BY DEF Accounts, T!TeamAssumption, T!Assignable
  <2>3. /\ user' \in [People -> Accounts] /\ user'[p].status = "INVITED"
        /\ \A q \in People \ {p} : user'[q] = user[q]
    BY <2>1, <2>2, AccountTyped
  <2>4. access[p] = T!NoToken /\ signing[p] = T!NotSigning /\ p \notin refresh
    BY <2>1 DEF NobodyIsOut
  <2>5. T!TypeOK'
    BY <2>1, <2>3 DEF T!TypeOK, Accounts
  <2>6. NobodyIsOut' /\ InvitedStay' /\ T!InvitedWait'
    BY <2>1, <2>3, <2>4 DEF NobodyIsOut, InvitedStay, T!InvitedWait, T!Exists
  <2>7. ReadBefore' /\ T!StaleRoleEnds'
    BY <2>1, <2>3, <2>4 DEF ReadBefore, T!StaleRoleEnds
  <2> QED
    BY <2>5, <2>6, <2>7 DEF TeamInv
<1>5. ASSUME NEW a \in People, NEW p \in People, NEW r \in Given, T!UpdateRole(a, p, r) PROVE TeamInv'
  <2>1. /\ T!Exists(p) /\ user' = [user EXCEPT ![p].role = r]
        /\ since' = [since EXCEPT ![p] = IF user[p].role = r THEN @ ELSE 0]
        /\ UNCHANGED <<mailed, signing, access, refresh>>
    BY <1>5 DEF T!UpdateRole
  <2>2. /\ user' \in [People -> Accounts] /\ user'[p].role = r /\ user'[p].status = user[p].status
        /\ \A q \in People \ {p} : user'[q] = user[q]
    <3>1. [user[p] EXCEPT !.role = r] = [role |-> r, status |-> user[p].status]
      BY <1>a DEF Accounts
    <3>2. [role |-> r, status |-> user[p].status] \in Accounts
      BY <1>a DEF Accounts, T!TeamAssumption, T!Assignable
    <3>3. user' = [user EXCEPT ![p] = [role |-> r, status |-> user[p].status]]
      BY <2>1, <3>1
    <3> QED
      BY <3>2, <3>3, AccountTyped
  <2>3. /\ since' \in [People -> 0..T!Ages]
        /\ since'[p] = IF user[p].role = r THEN since[p] ELSE 0
        /\ \A q \in People \ {p} : since'[q] = since[q]
    BY <1>a, <2>1 DEF T!TypeOK
  <2>4. T!TypeOK'
    BY <2>1, <2>2, <2>3 DEF T!TypeOK, Accounts
  <2>5. NobodyIsOut' /\ InvitedStay' /\ T!InvitedWait'
    BY <2>1, <2>2 DEF NobodyIsOut, InvitedStay, T!InvitedWait, T!Exists
  <2>6. ReadBefore'
    BY <1>a, <2>1, <2>2, <2>3 DEF ReadBefore
  <2>7. T!StaleRoleEnds'
    BY <1>a, <2>1, <2>2, <2>3 DEF T!StaleRoleEnds
  <2> QED
    BY <2>4, <2>5, <2>6, <2>7 DEF TeamInv
<1> QED
  BY <1>1, <1>2, <1>3, <1>4, <1>5, <1>6 DEF T!Next

\* Accounts, tokens, sessions and changes of role are in step in every reachable state.
THEOREM TeamInvariant == ASSUME T!TeamAssumption PROVE T!Spec => []TeamInv
<1>1. T!Init => TeamInv
  BY TeamInvInit
<1>2. TeamInv /\ [T!Next]_(T!vars) => TeamInv'
  <2>1. TeamInv /\ UNCHANGED T!vars => TeamInv'
    BY DEF T!vars, TeamInv, T!TypeOK, NobodyIsOut, InvitedStay, ReadBefore, T!StaleRoleEnds,
           T!InvitedWait, T!Exists
  <2> QED
    BY <2>1, TeamInvNext
<1> QED
  BY <1>1, <1>2, PTL DEF T!Spec

\* A role that was taken from a user is of no use after one life of an access token and
\* the longest that a login or refresh is under way, although no guard ever looks at the
\* account and the token may be signed after the change.
THEOREM StaleRolesEnd == ASSUME T!TeamAssumption PROVE T!Spec => []T!StaleRoleEnds
<1>1. TeamInv => T!StaleRoleEnds
  BY DEF TeamInv
<1> QED
  BY <1>1, TeamInvariant, PTL

\* Who was invited has no session before an administrator activates the account,
\* although refresh does not look at the status.
THEOREM InvitedStayOut == ASSUME T!TeamAssumption PROVE T!Spec => []T!InvitedWait
<1>1. TeamInv => T!InvitedWait
  BY DEF TeamInv
<1> QED
  BY <1>1, TeamInvariant, PTL

-----------------------------------------------------------------------------

\* The permission map, role by role.
LEMMA PermissionTable ==
  /\ T!Permissions["ADMIN"] =
       T!May(T!CrmRecords \cup {"users", "integrations", "webhooks", "tickets", "tasks",
                "activities", "analytics", "automation", "pipelines"}, T!All)
         \cup T!May({"billing", "rbac"}, {"read"}) \cup T!May({"tenant"}, {"read", "update"})
  /\ T!Permissions["SALES_MANAGER"] =
       T!May(T!CrmRecords \cup {"tasks", "activities"}, T!All)
         \cup T!May({"tickets", "analytics", "automation"}, {"read"})
         \cup T!May({"users", "pipelines"}, {"read", "update"})
  /\ T!Permissions["SALES_REP"] =
       T!May({"leads", "contacts", "deals", "tasks"}, T!All)
         \cup T!May({"companies", "activities"}, {"create", "read", "update"})
         \cup T!May({"tickets", "analytics", "pipelines"}, {"read"})
  /\ T!Permissions["SUPPORT_AGENT"] =
       T!May({"tickets"}, T!All) \cup T!May({"contacts"}, {"read", "update"})
         \cup T!May({"activities"}, {"create", "read"})
         \cup T!May({"tasks"}, {"create", "read", "update"})
         \cup T!May({"leads", "deals", "companies"}, {"read"})
  /\ T!Permissions["VIEWER"] =
       T!May(T!CrmRecords \cup {"tickets", "tasks", "activities", "analytics", "pipelines"}, {"read"})
  BY Zenon DEF T!Permissions, T!Roles

\* What is behind a guard is not promised to the roles it stops, but to the sales
\* people, as far as it is withheld.
LEMMA NotPromised ==
  ASSUME NEW x, NEW a
  PROVE  /\ x \in {"users", "integrations", "webhooks", "billing", "rbac", "tenant", "ai", "blockchain"} =>
              \A r \in {"SALES_REP", "SUPPORT_AGENT", "VIEWER"} : ~T!HasPermission(r, x, a)
         /\ x \in {"integrations", "webhooks", "billing", "rbac", "tenant", "ai", "blockchain"} =>
              ~T!HasPermission("SALES_MANAGER", x, a)
         /\ x = "users" /\ a = "create" => ~T!HasPermission("SALES_MANAGER", x, a)
         /\ x = "billing" /\ a = "create" => ~T!HasPermission("ADMIN", x, a)
         /\ x = "pipelines" /\ a # "read" =>
              \A r \in {"SALES_REP", "SUPPORT_AGENT", "VIEWER"} : ~T!HasPermission(r, x, a)
         /\ x = "pipelines" /\ a = "delete" => ~T!HasPermission("SALES_MANAGER", x, a)
         /\ x \in {"leads", "contacts", "companies", "activities"} /\ a = "delete" =>
              \A r \in {"SUPPORT_AGENT", "VIEWER"} : ~T!HasPermission(r, x, a)
         /\ x \in {"companies", "activities"} /\ a = "delete" => ~T!HasPermission("SALES_REP", x, a)
<1>1. T!HasPermission("ADMIN", x, a) => ~(x = "billing" /\ a = "create")
  BY PermissionTable DEF T!HasPermission, T!May, T!CrmRecords
<1>2. T!HasPermission("SALES_MANAGER", x, a) =>
        \/ x \in {"leads", "contacts", "deals", "companies", "tasks", "activities", "tickets",
                  "analytics", "automation"}
        \/ x \in {"users", "pipelines"} /\ a \in {"read", "update"}
  BY PermissionTable DEF T!HasPermission, T!May, T!CrmRecords
<1>3. T!HasPermission("SALES_REP", x, a) =>
        \/ x \in {"leads", "contacts", "deals", "tasks"}
        \/ x \in {"companies", "activities"} /\ a \in {"create", "read", "update"}
        \/ x \in {"tickets", "analytics", "pipelines"} /\ a = "read"
  BY PermissionTable DEF T!HasPermission, T!May
<1>4. T!HasPermission("SUPPORT_AGENT", x, a) =>
        \/ x \in {"tickets", "tasks"}
        \/ x \in {"contacts", "activities", "leads", "deals", "companies"}
           /\ a \in {"create", "read", "update"}
  BY PermissionTable DEF T!HasPermission, T!May
<1>5. T!HasPermission("VIEWER", x, a) =>
        /\ x \in {"leads", "contacts", "deals", "companies", "tickets", "tasks", "activities",
                  "analytics", "pipelines"}
        /\ a = "read"
  BY PermissionTable DEF T!HasPermission, T!May, T!CrmRecords
<1> QED
  BY <1>1, <1>2, <1>3, <1>4, <1>5

LEMMA RoutesAre ==
  ASSUME NEW x, NEW a, NEW names, NEW roles, NEW e \in T!Routes(x, a, names, roles)
  PROVE  e.of = x /\ e.does = a /\ e.at \in names /\ e.roles = roles
  BY DEF T!Routes

LEMMA OpenRoutes ==
  ASSUME NEW x, NEW n1, NEW n2, NEW n3, NEW n4, NEW e \in T!Open(x, n1, n2, n3, n4)
  PROVE  e.roles = T!Roles
  BY RoutesAre DEF T!Open

\* The routes that not every role may use.
Guarded(e) ==
  \/ /\ e.of \in {"leads", "contacts", "companies", "activities"} /\ e.does = "delete" /\ e.at = "one"
     /\ e.roles = T!Managers
  \/ e.of = "pipelines" /\ e.does # "read" /\ e.roles = T!Managers
  \/ e.of = "pipelines" /\ e.does = "delete" /\ e.roles = {"ADMIN"}
  \/ e.of = "users" /\ e.does = "read" /\ e.roles = T!Admins \cup {"SALES_MANAGER"}
  \/ e.of = "users" /\ e.does = "create" /\ e.roles = T!Admins
  \/ /\ e.of = "users" /\ e.does = "update" /\ e.at \in {"role", "deactivate", "activate"}
     /\ e.roles = T!Admins
  \/ e.of \in {"integrations", "webhooks", "billing", "rbac", "tenant"} /\ e.roles = T!Admins
  \/ e.of = "billing" /\ e.does = "create" /\ e.roles = {"SUPER_ADMIN"}
  \/ e.of \in {"ai", "blockchain"} /\ T!Admins \subseteq e.roles

LEMMA RoutesAreOpenOrGuarded ==
  ASSUME NEW e \in T!Api
  PROVE  e.roles = T!Roles \/ Guarded(e)
<1>1. CASE e \in T!LeadsController \cup T!ContactsController \cup T!CompaniesController
                 \cup T!ActivitiesController
  BY <1>1, RoutesAre, OpenRoutes DEF T!LeadsController, T!ContactsController,
    T!CompaniesController, T!ActivitiesController, Guarded
<1>2. CASE e \in T!DealsController \cup T!TasksController \cup T!TicketsController
                 \cup T!AnalyticsController \cup T!AutomationController
                 \cup T!CommunicationsController \cup T!EmailTemplatesController
                 \cup T!NotificationsController \cup T!WalletsController \cup T!PaymentsController
  BY <1>2, OpenRoutes DEF T!DealsController, T!TasksController, T!TicketsController,
    T!AnalyticsController, T!AutomationController, T!CommunicationsController,
    T!EmailTemplatesController, T!NotificationsController, T!WalletsController,
    T!PaymentsController
<1>3. CASE e \in T!PipelinesController
  BY <1>3, RoutesAre, OpenRoutes DEF T!PipelinesController, Guarded
<1>4. CASE e \in T!UsersController
  BY <1>4, RoutesAre DEF T!UsersController, Guarded
<1>5. CASE e \in T!RbacController \cup T!TenantController \cup T!IntegrationsController
                 \cup T!WebhooksController
  BY <1>5, RoutesAre DEF T!RbacController, T!TenantController, T!IntegrationsController,
    T!WebhooksController, Guarded
<1>6. CASE e \in T!BillingController
  BY <1>6, RoutesAre DEF T!BillingController, Guarded
<1>7. CASE e \in T!AiController \cup T!BlockchainController
  BY <1>7, RoutesAre DEF T!AiController, T!BlockchainController, Guarded
<1> QED
  BY <1>1, <1>2, <1>3, <1>4, <1>5, <1>6, <1>7 DEF T!Api

\* Nothing the permission map promises to a role is refused to it by the guard of a
\* route, but for the five routes of Withheld.
THEOREM GuardsKeepPromises == T!PromisesAreGranted
<1> SUFFICES ASSUME NEW r \in T!Roles, NEW e \in T!Api, T!HasPermission(r, e.of, e.does),
                    <<r, e.of, e.at>> \notin T!Withheld
             PROVE  T!CanActivate(r, e)
  BY DEF T!PromisesAreGranted
<1>1. r \in {"SUPER_ADMIN", "ADMIN", "SALES_MANAGER", "SALES_REP", "SUPPORT_AGENT", "VIEWER"}
  BY DEF T!Roles
<1>2. CASE e.roles = T!Roles
  BY <1>2 DEF T!CanActivate
<1>3. CASE Guarded(e)
  <2> SUFFICES ASSUME r # "SUPER_ADMIN" PROVE r \in e.roles
    BY DEF T!CanActivate
  <2>1. CASE /\ e.of \in {"leads", "contacts", "companies", "activities"} /\ e.does = "delete"
             /\ e.at = "one" /\ e.roles = T!Managers
    <3>1. r \notin {"SUPPORT_AGENT", "VIEWER"}
      BY <2>1, NotPromised
    <3>2. r = "SALES_REP" => e.of \in {"leads", "contacts"}
      BY <2>1, NotPromised
    <3>3. r # "SALES_REP"
      BY <2>1, <3>2 DEF T!Withheld
    <3> QED
      BY <1>1, <2>1, <3>1, <3>3 DEF T!Managers
  <2>2. CASE e.of = "pipelines" /\ e.does # "read" /\ e.roles = T!Managers
    BY <1>1, <2>2, NotPromised DEF T!Managers
  <2>3. CASE e.of = "pipelines" /\ e.does = "delete" /\ e.roles = {"ADMIN"}
    BY <1>1, <2>3, NotPromised
  <2>4. CASE e.of = "users" /\ e.does = "read" /\ e.roles = T!Admins \cup {"SALES_MANAGER"}
    BY <1>1, <2>4, NotPromised DEF T!Admins
  <2>5. CASE e.of = "users" /\ e.does = "create" /\ e.roles = T!Admins
    BY <1>1, <2>5, NotPromised DEF T!Admins
  <2>6. CASE /\ e.of = "users" /\ e.does = "update" /\ e.at \in {"role", "deactivate", "activate"}
             /\ e.roles = T!Admins
    <3>1. r # "SALES_MANAGER"
      BY <2>6 DEF T!Withheld
    <3> QED
      BY <1>1, <2>6, <3>1, NotPromised DEF T!Admins
  <2>7. CASE e.of \in {"integrations", "webhooks", "billing", "rbac", "tenant"} /\ e.roles = T!Admins
    BY <1>1, <2>7, NotPromised DEF T!Admins
  <2>8. CASE e.of = "billing" /\ e.does = "create" /\ e.roles = {"SUPER_ADMIN"}
    BY <1>1, <2>8, NotPromised
  <2>9. CASE e.of \in {"ai", "blockchain"} /\ T!Admins \subseteq e.roles
    BY <1>1, <2>9, NotPromised DEF T!Admins
  <2> QED
    BY <1>3, <2>1, <2>2, <2>3, <2>4, <2>5, <2>6, <2>7, <2>8, <2>9 DEF Guarded
<1> QED
  BY <1>2, <1>3, RoutesAreOpenOrGuarded

-----------------------------------------------------------------------------

\* What an assignment writes later, it has read.
SeenIsRead == \A c \in Assigns : at[c] # "none" => seen[c] \in L!Statuses

\* A conversion that may still write, or has, read the address that the lead came with
\* or one that an update brought.
AddressIsKnown ==
  ~L!Readdressed =>
    /\ lead.email = FirstEmail
    /\ \A c \in Converts : at[c] \in {"read", "answered"} => seen[c] = FirstEmail

\* A contact belongs to a conversion that was answered, and has an address of its own.
ContactsAreAnswered == \A c \in contacts : at[c] = "answered"
AddressesDiffer == \A c, d \in contacts : c = d \/ seen[c] = None \/ seen[c] # seen[d]

LeadInv ==
  /\ L!TypeOK /\ SeenIsRead /\ AddressIsKnown /\ ContactsAreAnswered /\ AddressesDiffer
  /\ L!ConversionIsWhole /\ L!AnsweredIsTold

LeadStages == {"none", "read", "written", "answered", "failed", "untold"}

-----------------------------------------------------------------------------

LEMMA LeadInvInit == L!LeadsAssumption /\ L!Init => LeadInv
<1> SUFFICES ASSUME L!LeadsAssumption, L!Init PROVE LeadInv
  OBVIOUS
<1>1. L!TypeOK
  BY DEF L!Init, L!TypeOK, L!LeadStatus, L!Statuses, L!LeadsAssumption
<1>2. SeenIsRead /\ AddressIsKnown /\ ContactsAreAnswered /\ AddressesDiffer
  BY DEF L!Init, SeenIsRead, AddressIsKnown, ContactsAreAnswered, AddressesDiffer, L!Calls
<1>3. L!ConversionIsWhole /\ L!AnsweredIsTold
  BY DEF L!Init, L!ConversionIsWhole, L!AnsweredIsTold, L!Calls
<1> QED
  BY <1>1, <1>2, <1>3 DEF LeadInv

\* The rows a lead is: what an update of some of its columns leaves of its type.
LeadRows == [status : L!Statuses, assignee : Users \cup {Nobody}, email : Emails \cup {None},
             convertedTo : Converts \cup {None}]

\* A step of one call: how far it gets, and what the other calls have.
LEMMA LeadGets ==
  ASSUME L!TypeOK, NEW c \in L!Calls, NEW next \in LeadStages, L!Gets(c, next)
  PROVE  /\ at' \in [L!Calls -> LeadStages]
         /\ at'[c] = next /\ \A d \in L!Calls \ {c} : at'[d] = at[d]
  BY DEF L!TypeOK, L!Gets, LeadStages

LEMMA CallsAre ==
  /\ Updates \subseteq L!Calls /\ Assigns \subseteq L!Calls /\ Converts \subseteq L!Calls
  /\ L!LeadsAssumption => /\ \A c \in Converts : c \notin Assigns /\ c \notin Updates /\ c # None
                          /\ \A c \in Assigns : c \notin Updates /\ c \notin Converts
  BY DEF L!Calls, L!LeadsAssumption

\* What a step keeps that makes no contact, and changes the address only as an update.
LEMMA LeadKeeps ==
  ASSUME L!LeadsAssumption, LeadInv, NEW c \in L!Calls, NEW next \in LeadStages, L!Gets(c, next),
         at[c] \notin {"none", "answered"}, UNCHANGED <<contacts, deals, seen>>,
         lead'.convertedTo = lead.convertedTo,
         c \in Converts => next \notin {"read", "answered"},
         c \in Updates /\ at[c] \in {"written", "untold"} => next \in {"written", "answered", "untold"},
         \/ lead'.email = lead.email
         \/ /\ c \in Updates /\ next = "written"
            /\ lead'.email = IF ChangeOf[c].email = None THEN lead.email ELSE ChangeOf[c].email
  PROVE  SeenIsRead' /\ AddressIsKnown' /\ ContactsAreAnswered' /\ AddressesDiffer'
         /\ L!ConversionIsWhole'
<1>0. /\ L!TypeOK /\ SeenIsRead /\ AddressIsKnown /\ ContactsAreAnswered /\ AddressesDiffer
      /\ L!ConversionIsWhole
  BY DEF LeadInv
<1>1. /\ at' \in [L!Calls -> LeadStages]
      /\ at'[c] = next /\ \A d \in L!Calls \ {c} : at'[d] = at[d]
  BY <1>0, LeadGets
<1>2. SeenIsRead'
  BY <1>0, <1>1, CallsAre DEF SeenIsRead
<1>3. AddressIsKnown'
  <2> SUFFICES ASSUME ~L!Readdressed'
               PROVE  /\ lead'.email = FirstEmail
                      /\ \A d \in Converts : at'[d] \in {"read", "answered"} => seen'[d] = FirstEmail
    BY DEF AddressIsKnown
  <2>1. ~L!Readdressed
    BY <1>1, CallsAre DEF L!Readdressed
  <2>2. lead.email = FirstEmail
        /\ \A d \in Converts : at[d] \in {"read", "answered"} => seen[d] = FirstEmail
    BY <1>0, <2>1 DEF AddressIsKnown
  <2>3. lead'.email = lead.email
    BY <1>1 DEF L!Readdressed
  <2> QED
    BY <1>1, <2>2, <2>3, CallsAre
<1>4. ContactsAreAnswered' /\ AddressesDiffer'
  <2>1. contacts \subseteq L!Calls
    BY <1>0, CallsAre DEF L!TypeOK
  <2> QED
    BY <1>0, <1>1, <2>1 DEF ContactsAreAnswered, AddressesDiffer
<1>5. L!ConversionIsWhole'
  BY <1>0 DEF L!ConversionIsWhole
<1> QED
  BY <1>2, <1>3, <1>4, <1>5

\* A call that reads uses what the row has then.
LEMMA LeadReads ==
  ASSUME L!LeadsAssumption, LeadInv, NEW c \in L!Calls, L!Read(c)
  PROVE  LeadInv'
<1>0. /\ L!TypeOK /\ SeenIsRead /\ AddressIsKnown /\ ContactsAreAnswered /\ AddressesDiffer
      /\ L!ConversionIsWhole /\ L!AnsweredIsTold
  BY DEF LeadInv
<1>1. /\ at[c] = "none" /\ seen' = [seen EXCEPT ![c] = L!Used(c)]
      /\ UNCHANGED <<lead, contacts, deals, changes, notices>>
  BY DEF L!Read
<1>2. PICK next \in {"read", "failed"} : L!Gets(c, next)
  BY DEF L!Read
<1>3. /\ at' \in [L!Calls -> LeadStages]
      /\ at'[c] = next /\ \A d \in L!Calls \ {c} : at'[d] = at[d]
  BY <1>0, <1>2, LeadGets DEF LeadStages
<1>4. L!Used(c) \in L!Statuses \cup Emails \cup {None}
  BY <1>0 DEF L!Used, L!TypeOK
<1>5. /\ seen' \in [L!Calls -> L!Statuses \cup Emails \cup {None}]
      /\ seen'[c] = L!Used(c) /\ \A d \in L!Calls \ {c} : seen'[d] = seen[d]
  BY <1>0, <1>1, <1>4 DEF L!TypeOK
<1>6. L!TypeOK'
  BY <1>0, <1>1, <1>3, <1>5 DEF L!TypeOK, LeadStages
<1>7. SeenIsRead'
  BY <1>0, <1>1, <1>3, <1>5, CallsAre DEF SeenIsRead, L!Used, L!TypeOK
<1>8. AddressIsKnown'
  <2> SUFFICES ASSUME ~L!Readdressed'
               PROVE  /\ lead'.email = FirstEmail
                      /\ \A d \in Converts : at'[d] \in {"read", "answered"} => seen'[d] = FirstEmail
    BY DEF AddressIsKnown
  <2>1. ~L!Readdressed
    BY <1>1, <1>3, CallsAre DEF L!Readdressed
  <2>2. lead.email = FirstEmail
        /\ \A d \in Converts : at[d] \in {"read", "answered"} => seen[d] = FirstEmail
    BY <1>0, <2>1 DEF AddressIsKnown
  <2>3. c \in Converts => seen'[c] = FirstEmail
    BY <1>5, <2>2, CallsAre DEF L!Used
  <2> QED
    BY <1>1, <1>3, <1>5, <2>2, <2>3, CallsAre
<1>9. ContactsAreAnswered' /\ AddressesDiffer'
  <2>1. contacts \subseteq L!Calls /\ c \notin contacts
    BY <1>0, <1>1, CallsAre DEF L!TypeOK, ContactsAreAnswered
  <2> QED
    BY <1>0, <1>1, <1>3, <1>5, <2>1 DEF ContactsAreAnswered, AddressesDiffer
<1>10. L!ConversionIsWhole' /\ L!AnsweredIsTold'
  BY <1>0, <1>1, <1>3, CallsAre DEF L!ConversionIsWhole, L!AnsweredIsTold
<1> QED
  BY <1>6, <1>7, <1>8, <1>9, <1>10 DEF LeadInv

\* What a conversion writes when no contact has the address that it read.
LEMMA LeadConverts ==
  ASSUME L!LeadsAssumption, LeadInv, NEW c \in Converts, at[c] = "read",
         ~L!Taken(seen[c]), L!Gets(c, "answered"),
         contacts' = contacts \cup {c},
         lead' = [lead EXCEPT !.status = "CONVERTED", !.convertedTo = c],
         deals' = deals \cup ({c} \cap WithDeal), UNCHANGED <<seen, changes, notices>>
  PROVE  LeadInv'
<1>0. /\ L!TypeOK /\ SeenIsRead /\ AddressIsKnown /\ ContactsAreAnswered /\ AddressesDiffer
      /\ L!ConversionIsWhole /\ L!AnsweredIsTold
  BY DEF LeadInv
<1>1. c \in L!Calls /\ c \notin Assigns /\ c \notin Updates /\ c # None
  BY CallsAre
<1>2. /\ at' \in [L!Calls -> LeadStages]
      /\ at'[c] = "answered" /\ \A d \in L!Calls \ {c} : at'[d] = at[d]
  BY <1>0, <1>1, LeadGets DEF LeadStages
<1>3. lead' \in LeadRows /\ lead'.convertedTo = c /\ lead'.email = lead.email
  BY <1>0 DEF LeadRows, L!TypeOK, L!Statuses
<1>4. L!TypeOK'
  BY <1>0, <1>2, <1>3 DEF L!TypeOK, LeadRows, LeadStages
<1>5. SeenIsRead' /\ L!AnsweredIsTold'
  BY <1>0, <1>1, <1>2, CallsAre DEF SeenIsRead, L!AnsweredIsTold
<1>6. AddressIsKnown'
  BY <1>0, <1>1, <1>2, <1>3, CallsAre DEF AddressIsKnown, L!Readdressed
<1>7. ContactsAreAnswered' /\ AddressesDiffer'
  <2>1. contacts \subseteq L!Calls
    BY <1>0, CallsAre DEF L!TypeOK
  <2> QED
    BY <1>0, <1>2, <2>1 DEF ContactsAreAnswered, AddressesDiffer, L!Taken
<1>8. L!ConversionIsWhole'
  BY <1>0, <1>1, <1>3 DEF L!ConversionIsWhole
<1> QED
  BY <1>4, <1>5, <1>6, <1>7, <1>8 DEF LeadInv

\* Every step of a call on the lead, and of a workflow, keeps contacts, lead, deals and
\* what is told together.
LEMMA LeadInvNext == L!LeadsAssumption /\ LeadInv /\ L!Next => LeadInv'
<1> SUFFICES ASSUME L!LeadsAssumption, LeadInv, L!Next PROVE LeadInv'
  OBVIOUS
<1>0. /\ L!TypeOK /\ SeenIsRead /\ AddressIsKnown /\ ContactsAreAnswered /\ AddressesDiffer
      /\ L!ConversionIsWhole /\ L!AnsweredIsTold
  BY DEF LeadInv
<1>2. lead \in LeadRows
  BY <1>0 DEF L!TypeOK, LeadRows
<1>3. ASSUME NEW c \in L!Calls, NEW next \in LeadStages, L!Gets(c, next),
             UNCHANGED <<contacts, deals, seen>>, lead' \in LeadRows,
             changes' \subseteq Updates, notices' \subseteq Assigns
      PROVE  L!TypeOK'
  <2>1. at' \in [L!Calls -> LeadStages]
    BY <1>0, <1>3, LeadGets
  <2> QED
    BY <1>0, <1>3, <2>1 DEF L!TypeOK, LeadRows, LeadStages
<1>4. ASSUME NEW c \in L!Calls, L!WriteUpdate(c) PROVE LeadInv'
  <2>1. /\ c \in Updates /\ at[c] = "read" /\ L!Gets(c, "written")
        /\ UNCHANGED <<seen, contacts, deals, changes, notices>>
    BY <1>4 DEF L!WriteUpdate
  <2>2. /\ lead' \in LeadRows /\ lead'.convertedTo = lead.convertedTo
        /\ lead'.email = IF ChangeOf[c].email = None THEN lead.email ELSE ChangeOf[c].email
    <3>1. ChangeOf[c] \in L!Changes
      BY <2>1 DEF L!LeadsAssumption
    <3> QED
      BY <1>2, <1>4, <3>1 DEF L!WriteUpdate, L!Or, L!Changes, LeadRows, L!Statuses
  <2>3. at' \in [L!Calls -> LeadStages] /\ at'[c] = "written" /\ \A d \in L!Calls \ {c} : at'[d] = at[d]
    BY <1>0, <2>1, LeadGets DEF LeadStages
  <2>4. L!TypeOK'
    BY <1>0, <1>3, <2>1, <2>2 DEF LeadStages, L!TypeOK
  <2>5. SeenIsRead' /\ AddressIsKnown' /\ ContactsAreAnswered' /\ AddressesDiffer'
        /\ L!ConversionIsWhole'
    BY <2>1, <2>2, LeadKeeps, CallsAre DEF LeadStages
  <2>6. L!AnsweredIsTold'
    BY <1>0, <2>1, <2>3, CallsAre DEF L!AnsweredIsTold
  <2> QED
    BY <2>4, <2>5, <2>6 DEF LeadInv
<1>5. ASSUME NEW c \in L!Calls, L!QueueChange(c) \/ L!Notify(c) PROVE LeadInv'
  <2>1. /\ at[c] = "written" /\ L!Gets(c, "answered") /\ c \in Updates \cup Assigns
        /\ UNCHANGED <<lead, seen, contacts, deals>>
    BY <1>5 DEF L!QueueChange, L!Notify
  <2>2. changes' \subseteq Updates /\ notices' \subseteq Assigns
    BY <1>0, <1>5 DEF L!QueueChange, L!Notify, L!TypeOK
  <2>3. at' \in [L!Calls -> LeadStages] /\ at'[c] = "answered" /\ \A d \in L!Calls \ {c} : at'[d] = at[d]
    BY <1>0, <2>1, LeadGets DEF LeadStages
  <2>4. L!TypeOK'
    BY <1>2, <1>3, <2>1, <2>2 DEF LeadStages
  <2>5. SeenIsRead' /\ AddressIsKnown' /\ ContactsAreAnswered' /\ AddressesDiffer'
        /\ L!ConversionIsWhole'
    <3>1. c \notin Converts
      BY <2>1, CallsAre
    <3>2. /\ lead'.email = lead.email /\ lead'.convertedTo = lead.convertedTo
          /\ at[c] \notin {"none", "answered"} /\ "answered" \in LeadStages
      BY <2>1 DEF LeadStages
    <3> QED
      BY <2>1, <3>1, <3>2, LeadKeeps
  <2>6. L!AnsweredIsTold'
    <3>1. CASE L!QueueChange(c)
      BY <1>0, <2>3, <3>1, CallsAre DEF L!QueueChange, L!AnsweredIsTold
    <3>2. CASE L!Notify(c)
      BY <1>0, <2>3, <3>2, CallsAre DEF L!Notify, L!AnsweredIsTold
    <3> QED
      BY <1>5, <3>1, <3>2
  <2> QED
    BY <2>4, <2>5, <2>6 DEF LeadInv
<1>6. ASSUME NEW c \in L!Calls, L!WriteAssignee(c) PROVE LeadInv'
  <2>1. /\ c \in Assigns /\ at[c] = "read" /\ L!Gets(c, "written")
        /\ UNCHANGED <<seen, contacts, deals, changes, notices>>
    BY <1>6 DEF L!WriteAssignee
  <2>2. (IF seen[c] = "NEW" THEN "CONTACTED" ELSE seen[c]) \in L!Statuses
    BY <1>0, <2>1 DEF SeenIsRead, L!Statuses, L!LeadStatus
  <2>3. lead' \in LeadRows /\ lead'.convertedTo = lead.convertedTo /\ lead'.email = lead.email
    BY <1>2, <1>6, <2>1, <2>2 DEF L!WriteAssignee, LeadRows, L!LeadsAssumption
  <2>4. at' \in [L!Calls -> LeadStages] /\ at'[c] = "written" /\ \A d \in L!Calls \ {c} : at'[d] = at[d]
    BY <1>0, <2>1, LeadGets DEF LeadStages
  <2>5. L!TypeOK'
    BY <1>0, <1>3, <2>1, <2>3 DEF LeadStages, L!TypeOK
  <2>6. SeenIsRead' /\ AddressIsKnown' /\ ContactsAreAnswered' /\ AddressesDiffer'
        /\ L!ConversionIsWhole'
    BY <2>1, <2>3, LeadKeeps, CallsAre DEF LeadStages
  <2>7. L!AnsweredIsTold'
    BY <1>0, <2>1, <2>4, CallsAre DEF L!AnsweredIsTold
  <2> QED
    BY <2>5, <2>6, <2>7 DEF LeadInv
<1>7. ASSUME NEW c \in L!Calls, NEW next \in {"failed", "untold"}, L!Gets(c, next),
             \/ at[c] = "read" /\ next = "failed"
             \/ at[c] = "written" /\ next = "untold",
             UNCHANGED <<lead, seen, contacts, deals, changes, notices>>
      PROVE  LeadInv'
  <2>1. at' \in [L!Calls -> LeadStages] /\ at'[c] = next /\ \A d \in L!Calls \ {c} : at'[d] = at[d]
    BY <1>0, <1>7, LeadGets DEF LeadStages
  <2>2. L!TypeOK'
    BY <1>0, <1>2, <1>3, <1>7 DEF LeadStages, L!TypeOK
  <2>3. SeenIsRead' /\ AddressIsKnown' /\ ContactsAreAnswered' /\ AddressesDiffer'
        /\ L!ConversionIsWhole'
    BY <1>2, <1>7, LeadKeeps, CallsAre DEF LeadStages
  <2>4. L!AnsweredIsTold'
    BY <1>0, <1>7, <2>1, CallsAre DEF L!AnsweredIsTold
  <2> QED
    BY <2>2, <2>3, <2>4 DEF LeadInv
<1>8. ASSUME NEW c \in L!Calls, L!Convert(c) PROVE LeadInv'
  <2>1. CASE L!Taken(seen[c])
    BY <1>7, <1>8, <2>1 DEF L!Convert
  <2>2. CASE ~L!Taken(seen[c])
    BY <1>8, <2>2, LeadConverts DEF L!Convert
  <2> QED
    BY <2>1, <2>2
<1>9. ASSUME NEW c \in L!Calls, L!CallFails(c) PROVE LeadInv'
  BY <1>7, <1>9 DEF L!CallFails
<1>10. CASE L!RunRule
  <2>1. /\ lead' \in LeadRows /\ lead'.convertedTo = lead.convertedTo /\ lead'.email = lead.email
        /\ UNCHANGED <<at, seen, contacts, deals, changes, notices>>
    BY <1>2, <1>10 DEF L!RunRule, LeadRows, L!LeadsAssumption
  <2>2. L!TypeOK'
    BY <1>0, <2>1 DEF L!TypeOK, LeadRows
  <2>3. SeenIsRead' /\ AddressIsKnown' /\ ContactsAreAnswered' /\ AddressesDiffer'
    BY <1>0, <2>1 DEF SeenIsRead, AddressIsKnown, L!Readdressed, ContactsAreAnswered, AddressesDiffer
  <2>4. L!ConversionIsWhole' /\ L!AnsweredIsTold'
    BY <1>0, <2>1 DEF L!ConversionIsWhole, L!AnsweredIsTold
  <2> QED
    BY <2>2, <2>3, <2>4 DEF LeadInv
<1> QED
  BY <1>4, <1>5, <1>6, <1>8, <1>9, <1>10, LeadReads DEF L!Next

\* The calls on a lead keep what they write together, in every reachable state.
THEOREM LeadInvariant == ASSUME L!LeadsAssumption PROVE L!Spec => []LeadInv
<1>1. L!Init => LeadInv
  BY LeadInvInit
<1>2. LeadInv /\ [L!Next]_(L!vars) => LeadInv'
  <2>1. LeadInv /\ UNCHANGED L!vars => LeadInv'
    BY DEF L!vars, LeadInv, L!TypeOK, SeenIsRead, AddressIsKnown, L!Readdressed, ContactsAreAnswered,
           AddressesDiffer, L!ConversionIsWhole, L!AnsweredIsTold
  <2> QED
    BY <2>1, LeadInvNext
<1> QED
  BY <1>1, <1>2, PTL DEF L!Spec

\* At most one contact goes with an address: of a lead that kept its own, one is counted.
LEMMA ContactsCount == L!LeadsAssumption /\ LeadInv => L!OneContactPerEmail
<1> SUFFICES ASSUME L!LeadsAssumption, LeadInv PROVE L!OneContactPerEmail
  OBVIOUS
<1>1. AddressesDiffer
  BY DEF LeadInv
<1>2. ASSUME FirstEmail # None, ~L!Readdressed PROVE L!Cardinality(contacts) <= 1
  <2>0. L!Cardinality(contacts) = Cardinality(contacts)
    BY DEF L!Cardinality, Cardinality
  <2>1. \A c \in contacts : seen[c] = FirstEmail
    BY <1>2 DEF LeadInv, AddressIsKnown, ContactsAreAnswered, L!TypeOK
  <2>2. CASE contacts = {}
    BY <2>0, <2>2, FS_EmptySet
  <2>3. ASSUME NEW c \in contacts PROVE Cardinality(contacts) = 1
    <3>1. contacts = {c}
      BY <1>1, <1>2, <2>1 DEF AddressesDiffer
    <3> QED
      BY <3>1, FS_Singleton
  <2> QED
    BY <2>0, <2>2, <2>3
<1> QED
  BY <1>1, <1>2 DEF AddressesDiffer, L!OneContactPerEmail

\* A conversion is whole: contact, reference and deal, however calls overlap and fail.
THEOREM ConversionsAreWhole == ASSUME L!LeadsAssumption PROVE L!Spec => []L!ConversionIsWhole
<1>1. LeadInv => L!ConversionIsWhole
  BY DEF LeadInv
<1> QED
  BY <1>1, LeadInvariant, PTL

\* A lead becomes one contact for each address it was converted with, although its status
\* is written back: one in all, if no update brought it another address.
THEOREM LeadsBecomeOneContact ==
  ASSUME L!LeadsAssumption PROVE L!Spec => []L!OneContactPerEmail
<1>1. LeadInv => L!OneContactPerEmail
  BY ContactsCount
<1> QED
  BY <1>1, LeadInvariant, PTL

-----------------------------------------------------------------------------

\* A call tells of the query it touches, but for the forgetful: of one story, and of all.
Tells(s) == s.told \/ s.forgetful
ToldOrForgetful == \A s \in PageStories : Tells(s)

\* What a call saw, and what is due, was carried out; if the call tells, an answer that
\* is on its way has seen what is due, and so has the one in the cache unless it is marked.
DueIsApplied == due <= applied /\ \A s \in Slots : pressed[s].saw <= applied
AnswerIsDue == Tells(story) /\ load \notin {NoLoad, Requested} => load >= due
CacheIsDue == Tells(story) /\ data # Unloaded /\ mark # "invalid" => data >= due

PageInv ==
  G!TypeOK /\ story \in PageStories /\ DueIsApplied /\ AnswerIsDue /\ CacheIsDue

-----------------------------------------------------------------------------

Pressed == [at : {"free", "sent", "done"}, here : BOOLEAN, saw : 0..MaxPressed]

\* A page that opens may ask for its query, and nothing else happens to what is under way.
LEMMA Mounted ==
  \A p, m, l : G!OnMount(p, m, l) \in {l, Requested} /\ (l # NoLoad => G!OnMount(p, m, l) = l)
  BY DEF G!OnMount

LEMMA PageInvInit == G!PagesAssumption /\ G!Init => PageInv
<1> SUFFICES ASSUME G!PagesAssumption, G!Init PROVE PageInv
  OBVIOUS
<1>1. 0 \in 0..MaxPressed /\ G!Free \in Pressed /\ G!Free.saw = 0
  BY DEF G!PagesAssumption, G!Free, Pressed
<1>2. load \in {NoLoad, Requested}
  BY Mounted DEF G!Init
<1>3. G!TypeOK
  BY <1>1, <1>2 DEF G!Init, G!TypeOK, Pressed
<1>4. DueIsApplied /\ AnswerIsDue /\ CacheIsDue
  BY <1>1, <1>2 DEF G!Init, DueIsApplied, AnswerIsDue, CacheIsDue, Tells
<1> QED
  BY <1>3, <1>4 DEF PageInv, G!Init

\* What leaving a page does to its buttons: what a call saw stays.
LEMMA Left ==
  ASSUME G!TypeOK
  PROVE  /\ G!Leave(pressed) \in [Slots -> Pressed]
         /\ \A s \in Slots : G!Leave(pressed)[s].saw = pressed[s].saw
<1>1. \A s \in Slots : pressed[s] \in Pressed
  BY DEF G!TypeOK, Pressed
<1>2. ASSUME NEW c \in Pressed
      PROVE  [c EXCEPT !.here = FALSE] \in Pressed /\ [c EXCEPT !.here = FALSE].saw = c.saw
  BY DEF Pressed
<1> QED
  BY <1>1, <1>2 DEF G!Leave

\* What a slot becomes, and what the others have.
LEMMA PressedTyped ==
  ASSUME G!TypeOK, NEW s \in Slots, NEW c \in Pressed, NEW slots \in [Slots -> Pressed],
         pressed' = [slots EXCEPT ![s] = c]
  PROVE  /\ pressed' \in [Slots -> Pressed] /\ pressed'[s] = c
         /\ \A o \in Slots \ {s} : pressed'[o] = slots[o]
  BY DEF G!TypeOK, Pressed

\* Loading, receiving and growing old.
LEMMA LoadStep ==
  ASSUME G!PagesAssumption, PageInv,
         G!Read \/ G!Receive \/ G!LoadFails \/ G!GrowsOld \/ G!Poll
  PROVE  PageInv'
<1>0. G!TypeOK /\ story \in PageStories /\ DueIsApplied /\ AnswerIsDue /\ CacheIsDue
  BY DEF PageInv
<1>1. UNCHANGED <<story, page, applied, pressed, due>>
  BY DEF G!Read, G!Receive, G!LoadFails, G!GrowsOld, G!Poll
<1>2. /\ load' \in 0..MaxPressed \cup {NoLoad, Requested}
      /\ data' \in 0..MaxPressed \cup {Unloaded} /\ mark' \in {"recent", "old", "invalid"}
  BY <1>0 DEF G!Read, G!Receive, G!LoadFails, G!GrowsOld, G!Poll, G!TypeOK
<1>3. G!TypeOK' /\ DueIsApplied' /\ (story \in PageStories)'
  BY <1>0, <1>1, <1>2 DEF G!TypeOK, DueIsApplied
<1>4. AnswerIsDue'
  BY <1>0, <1>1 DEF G!Read, G!Receive, G!LoadFails, G!GrowsOld, G!Poll, AnswerIsDue, DueIsApplied,
    G!TypeOK, Tells
<1>5. CacheIsDue'
  BY <1>0, <1>1 DEF G!Read, G!Receive, G!LoadFails, G!GrowsOld, G!Poll, AnswerIsDue, CacheIsDue, Tells
<1> QED
  BY <1>3, <1>4, <1>5 DEF PageInv

\* Going to a page, and what happens to a call before its answer.
LEMMA VisitStep ==
  ASSUME G!PagesAssumption, PageInv, NEW p \in {story.from, story.other}, G!Visit(p)
  PROVE  PageInv'
<1>0. G!TypeOK /\ story \in PageStories /\ DueIsApplied /\ AnswerIsDue /\ CacheIsDue
  BY DEF PageInv
<1>1. /\ page' = p /\ load' = G!OnMount(p, mark, load) /\ pressed' = G!Leave(pressed)
      /\ UNCHANGED <<story, applied, data, mark, due>>
  BY DEF G!Visit
<1>2. load' \in {load, Requested}
  BY <1>1, Mounted
<1>3. G!TypeOK' /\ DueIsApplied' /\ (story \in PageStories)'
  BY <1>0, <1>1, <1>2, Left DEF G!TypeOK, Pressed, DueIsApplied
<1>4. AnswerIsDue' /\ CacheIsDue'
  BY <1>0, <1>1, <1>2 DEF AnswerIsDue, CacheIsDue, Tells
<1> QED
  BY <1>3, <1>4 DEF PageInv

LEMMA PressStep ==
  ASSUME G!PagesAssumption, PageInv, NEW s \in Slots,
         G!Ask(s) \/ G!Apply(s) \/ G!Refuse(s) \/ G!AnswerIsLost(s)
  PROVE  PageInv'
<1>0. G!TypeOK /\ story \in PageStories /\ DueIsApplied /\ AnswerIsDue /\ CacheIsDue
  BY DEF PageInv
<1>a. /\ MaxPressed \in Nat /\ applied \in 0..MaxPressed /\ due \in 0..MaxPressed
      /\ pressed \in [Slots -> Pressed] /\ G!Free \in Pressed /\ G!Free.saw = 0
  BY <1>0 DEF G!TypeOK, Pressed, G!PagesAssumption, G!Free
<1> DEFINE Becomes(c) ==
      /\ pressed' = [pressed EXCEPT ![s] = c]
      /\ applied' \in {applied, applied + 1} /\ applied' <= MaxPressed /\ c.saw <= applied'
<1>1. UNCHANGED <<story, page, data, mark, load, due>> /\ \E c \in Pressed : Becomes(c)
  <2>1. CASE G!Ask(s)
    <3>1. [at |-> "sent", here |-> TRUE, saw |-> 0] \in Pressed
      BY <1>a DEF Pressed
    <3>2. Becomes([at |-> "sent", here |-> TRUE, saw |-> 0])
      BY <2>1, <1>a DEF G!Ask
    <3> QED
      BY <2>1, <3>1, <3>2 DEF G!Ask
  <2>2. CASE G!Apply(s)
    <3> DEFINE p == pressed[s]
    <3>1. p \in Pressed /\ applied' = applied + 1 /\ applied + 1 \in 0..MaxPressed
          /\ UNCHANGED <<story, page, data, mark, load, due>>
      BY <2>2, <1>a DEF G!Apply
    <3>2. pressed' = [pressed EXCEPT ![s] = [p EXCEPT !.at = "done", !.saw = applied + 1]]
      BY <2>2, <1>a DEF G!Apply
    <3> HIDE DEF p
    <3>3. /\ [p EXCEPT !.at = "done", !.saw = applied + 1] \in Pressed
          /\ [p EXCEPT !.at = "done", !.saw = applied + 1].saw = applied + 1
      BY <3>1 DEF Pressed
    <3>4. Becomes([p EXCEPT !.at = "done", !.saw = applied + 1])
      BY <1>a, <3>1, <3>2, <3>3
    <3> QED
      BY <3>1, <3>3, <3>4
  <2>3. CASE G!Refuse(s) \/ G!AnswerIsLost(s)
    <3>1. Becomes(G!Free)
      BY <2>3, <1>a DEF G!Refuse, G!AnswerIsLost
    <3> QED
      BY <2>3, <3>1, <1>a DEF G!Refuse, G!AnswerIsLost
  <2> QED
    BY <2>1, <2>2, <2>3
<1>2. PICK c \in Pressed :
        /\ pressed' = [pressed EXCEPT ![s] = c]
        /\ applied' \in {applied, applied + 1} /\ applied' <= MaxPressed /\ c.saw <= applied'
  BY <1>1
<1>3. /\ pressed' \in [Slots -> Pressed] /\ pressed'[s] = c
      /\ \A o \in Slots \ {s} : pressed'[o] = pressed[o]
  BY <1>a, <1>2
<1>4. G!TypeOK'
  BY <1>0, <1>a, <1>1, <1>2, <1>3 DEF G!TypeOK, Pressed
<1>5. DueIsApplied'
  <2>1. \A o \in Slots : pressed[o].saw \in 0..MaxPressed /\ pressed[o].saw <= applied
    BY <1>0, <1>a DEF Pressed, DueIsApplied
  <2>2. \A o \in Slots : pressed'[o].saw <= applied'
    BY <1>a, <1>2, <1>3, <2>1
  <2> QED
    BY <1>0, <1>a, <1>1, <1>2, <2>2 DEF DueIsApplied
<1>6. AnswerIsDue' /\ CacheIsDue' /\ (story \in PageStories)'
  BY <1>0, <1>1 DEF AnswerIsDue, CacheIsDue, Tells
<1> QED
  BY <1>4, <1>5, <1>6 DEF PageInv

\* The answer of a call: what it makes due is loaded again, or nothing old is under
\* way and the cache is marked.
LEMMA AnswerStep ==
  ASSUME G!PagesAssumption, PageInv, NEW s \in Slots, G!Answer(s)
  PROVE  PageInv'
<1>0. G!TypeOK /\ story \in PageStories /\ DueIsApplied /\ AnswerIsDue /\ CacheIsDue
  BY DEF PageInv
<1>a. /\ MaxPressed \in Nat /\ applied \in 0..MaxPressed /\ due \in 0..MaxPressed
      /\ pressed \in [Slots -> Pressed] /\ G!Free \in Pressed /\ G!Free.saw = 0
      /\ NoLoad # Requested /\ NoLoad \notin Nat /\ Requested \notin Nat
      /\ story.told \in BOOLEAN /\ story.then \in {"here", story.other}
  BY <1>0 DEF G!TypeOK, Pressed, G!PagesAssumption, G!Free
<1> DEFINE next == IF story.then = "here" THEN page ELSE story.then
           again == IF story.told /\ G!Restarts THEN Requested ELSE load
           slots == IF next = page THEN pressed ELSE G!Leave(pressed)
<1>1. /\ mark' = (IF story.told THEN "invalid" ELSE mark) /\ page' = next
      /\ load' = (IF next = page THEN again ELSE G!OnMount(next, mark', again))
      /\ pressed' = [slots EXCEPT ![s] = G!Free]
      /\ due' = (IF G!Due(pressed[s].saw) THEN pressed[s].saw ELSE due)
      /\ UNCHANGED <<story, applied, data>>
  BY DEF G!Answer
<1>2. slots \in [Slots -> Pressed] /\ \A o \in Slots : slots[o].saw = pressed[o].saw
  BY <1>0, <1>a, Left
<1>3. page' \in {story.from, story.other}
  BY <1>0, <1>a, <1>1 DEF G!TypeOK
<1>4. load' \in {again, Requested} /\ (again # NoLoad => load' = again)
  BY <1>1, Mounted
<1> HIDE DEF next, again, slots
<1>5. /\ pressed' \in [Slots -> Pressed] /\ pressed'[s] = G!Free
      /\ \A o \in Slots \ {s} : pressed'[o] = slots[o]
  BY <1>a, <1>1, <1>2
<1>6. pressed[s].saw \in 0..MaxPressed /\ pressed[s].saw <= applied
  BY <1>0, <1>a DEF Pressed, DueIsApplied
<1>7. due' \in 0..MaxPressed /\ due' <= applied
  BY <1>0, <1>a, <1>1, <1>6 DEF DueIsApplied
<1>8. load' \in {load, Requested}
  BY <1>4 DEF again
<1>9. G!TypeOK'
  BY <1>0, <1>1, <1>3, <1>5, <1>7, <1>8 DEF G!TypeOK, Pressed
<1>10. DueIsApplied'
  BY <1>0, <1>a, <1>1, <1>2, <1>5, <1>7 DEF DueIsApplied
<1>11. CASE ~G!Due(pressed[s].saw)
  <2>1. due' = due
    BY <1>1, <1>11
  <2>2. AnswerIsDue' /\ CacheIsDue'
    BY <1>0, <1>1, <1>8, <2>1 DEF AnswerIsDue, CacheIsDue, Tells
  <2> QED
    BY <1>0, <1>1, <1>9, <1>10, <2>2 DEF PageInv
<1>12. CASE G!Due(pressed[s].saw)
  <2>1. Tells(story) => story.told
    BY <1>0, <1>12 DEF G!Due, Tells
  <2>2. Tells(story) /\ load # NoLoad => load' = Requested
    <3>1. load # NoLoad => G!Restarts
      BY <1>12 DEF G!Due, G!Restarts
    <3>2. Tells(story) /\ load # NoLoad => again = Requested
      BY <2>1, <3>1 DEF again
    <3> QED
      BY <1>a, <1>4, <3>2
  <2>3. Tells(story) => load' \in {NoLoad, Requested}
    BY <1>8, <2>2
  <2>4. AnswerIsDue' /\ CacheIsDue'
    BY <1>1, <2>1, <2>3 DEF AnswerIsDue, CacheIsDue, Tells
  <2> QED
    BY <1>0, <1>1, <1>9, <1>10, <2>4 DEF PageInv
<1> QED
  BY <1>11, <1>12

\* Every step keeps what is due in the cache or on its way.
LEMMA PageInvNext == G!PagesAssumption /\ PageInv /\ G!Next => PageInv'
  BY LoadStep, VisitStep, PressStep, AnswerStep DEF G!Next

\* What a query must have seen is in the cache, or it is marked, in every reachable state.
THEOREM PageInvariant ==
  ASSUME G!PagesAssumption PROVE G!Spec => []PageInv
<1>1. G!Init => PageInv
  BY PageInvInit
<1>2. PageInv /\ [G!Next]_(G!vars) => PageInv'
  <2>1. PageInv /\ UNCHANGED G!vars => PageInv'
    BY DEF G!vars, PageInv, G!TypeOK, DueIsApplied, AnswerIsDue, CacheIsDue, Tells
  <2> QED
    BY <2>1, PageInvNext
<1> QED
  BY <1>1, <1>2, PTL DEF G!Spec

\* Once a call was answered, the query it tells of has seen it, or is loaded again: for
\* any pages and calls, of every story whose call tells or is one of the forgetful.
THEOREM QueriesKeepUp ==
  ASSUME G!PagesAssumption PROVE G!Spec => [](Tells(story) => G!KeepsUp)
<1>1. PageInv => (Tells(story) => G!KeepsUp)
  BY DEF PageInv, CacheIsDue, G!KeepsUp
<1> QED
  BY <1>1, PageInvariant, PTL

-----------------------------------------------------------------------------

\* How old what a call holds can be beyond the ticks the call has taken: what a RAG
\* answer is made from may come out of the cache of the search.
Extra(o, s) ==
  IF o = "rag" /\ s \in {"completing", "storing"} THEN Patience + Life["search"] - 1 ELSE 0

\* The answers that do for each other.
InKind(by, o) ==
  by = o \/ {by, o} = {"summarize_contact", "timeline_contact"} \/ {by, o} = I!Scorings

\* What holds of a call that asks o, has got as far as s in t ticks, and has v.
CallFits(o, s, t, v) ==
  /\ s = "waiting" => o = "recompute"
  /\ s \in {"new", "waiting"} => v = I!Nothing
  /\ s = "searching" => o = "rag"
  /\ s = "keeping" => o \in {"search", "rag"} /\ v.by = "search"
  /\ s = "storing" => o \notin I!Uncached /\ v.by = o
  /\ s \in I!Stages \ {"new", "waiting"} => v.age <= t + Extra(o, s)
  /\ s = "answered" => v.age <= I!Bound(o) /\ InKind(v.by, o)

\* What holds of an entry under a key: its answer ages as its life runs out.
EntryFits(k, e) ==
  /\ e.value.age + e.left <=
       Patience + Life[k] + (IF k = "rag" THEN Patience + Life["search"] - 1 ELSE 0)
  /\ e.value.by \in {o \in I!Operations : I!KeyOf(o) = k}

\* A score that is to be written is of the last update, unless one is being read.
ScoresAreLast ==
  /\ \A c \in writes : op[c] \in I!Scorings /\ asked[c] \in {"storing", "answered", "failed"}
  /\ ~overlapped =>
       /\ \A c, d \in writes : c = d
       /\ (\A c \in Questions : I!Scoring(c) => asked[c] # "reading") =>
            IF writes = {} THEN score = version ELSE \A c \in writes : value[c].version = version

InsightInv ==
  /\ I!TypeOK
  /\ \A c \in Questions : CallFits(op[c], asked[c], spent[c], value[c])
  /\ \A k \in I!Keys : kept[k] # Absent => EntryFits(k, kept[k])
  /\ ScoresAreLast

-----------------------------------------------------------------------------

\* The methods, written out: the key, the first step, the next one, and whether a call
\* gives up when there is nothing to tell.
MethodIs(method, key, first, next, gives_up) ==
  method.key = key /\ method.first = first /\ method.next = next /\ method.gives_up = gives_up

MethodRecords ==
  [key : {"none", "contact_summary", "timeline_lead", "search", "rag", "dashboard", "revenue", "score"},
   first : {"reading", "embedding", "searching"},
   next : {"completing", "keeping", "storing", "answering"}, gives_up : BOOLEAN]

LEMMA Constructed ==
  \A k, f, n : MethodIs(I!Method(k, f, n), k, f, n, FALSE)
  BY SMT DEF MethodIs, I!Method

LEMMA GivingUp ==
  ASSUME NEW m \in MethodRecords
  PROVE  MethodIs(I!GivesUp(m), m.key, m.first, m.next, TRUE)
  BY SMT DEF MethodRecords, MethodIs, I!GivesUp

LEMMA Tabulated ==
  /\ I!MethodOf["summarize_contact"] = I!GivesUp(I!Method("contact_summary", "reading", "completing"))
  /\ I!MethodOf["timeline_contact"] = I!GivesUp(I!Method("contact_summary", "reading", "completing"))
  /\ I!MethodOf["timeline_lead"] = I!GivesUp(I!Method("timeline_lead", "reading", "completing"))
  /\ I!MethodOf["email_reply"] = I!Method("none", "reading", "completing")
  /\ I!MethodOf["follow_up"] = I!Method("none", "reading", "completing")
  /\ I!MethodOf["search"] = I!Method("search", "embedding", "keeping")
  /\ I!MethodOf["rag"] = I!Method("rag", "searching", "keeping")
  /\ I!MethodOf["dashboard"] = I!Method("dashboard", "reading", "storing")
  /\ I!MethodOf["revenue"] = I!Method("revenue", "reading", "storing")
  /\ I!MethodOf["sales"] = I!Method("none", "reading", "answering")
  /\ I!MethodOf["sources"] = I!Method("none", "reading", "answering")
  /\ I!MethodOf["funnel"] = I!Method("none", "reading", "answering")
  /\ I!MethodOf["get_score"] = I!Method("score", "reading", "storing")
  /\ I!MethodOf["recompute"] = I!Method("score", "reading", "storing")
  BY Zenon DEF I!MethodOf, I!Operations, I!Timelines, I!Charts, I!Scorings,
    I!SummarizeContactHistory, I!SummarizeActivityTimeline, I!GenerateEmailReply, I!SuggestFollowUp,
    I!Search, I!Query, I!GetDashboardMetrics, I!GetRevenueChart, I!GetSalesPerformance,
    I!GetLeadSourceBreakdown, I!GetPipelineFunnel, I!GetScore

LEMMA MethodsAre ==
  /\ MethodIs(I!MethodOf["summarize_contact"], "contact_summary", "reading", "completing", TRUE)
  /\ MethodIs(I!MethodOf["timeline_contact"], "contact_summary", "reading", "completing", TRUE)
  /\ MethodIs(I!MethodOf["timeline_lead"], "timeline_lead", "reading", "completing", TRUE)
  /\ MethodIs(I!MethodOf["email_reply"], "none", "reading", "completing", FALSE)
  /\ MethodIs(I!MethodOf["follow_up"], "none", "reading", "completing", FALSE)
  /\ MethodIs(I!MethodOf["search"], "search", "embedding", "keeping", FALSE)
  /\ MethodIs(I!MethodOf["rag"], "rag", "searching", "keeping", FALSE)
  /\ MethodIs(I!MethodOf["dashboard"], "dashboard", "reading", "storing", FALSE)
  /\ MethodIs(I!MethodOf["revenue"], "revenue", "reading", "storing", FALSE)
  /\ MethodIs(I!MethodOf["sales"], "none", "reading", "answering", FALSE)
  /\ MethodIs(I!MethodOf["sources"], "none", "reading", "answering", FALSE)
  /\ MethodIs(I!MethodOf["funnel"], "none", "reading", "answering", FALSE)
  /\ MethodIs(I!MethodOf["get_score"], "score", "reading", "storing", FALSE)
  /\ MethodIs(I!MethodOf["recompute"], "score", "reading", "storing", FALSE)
<1>1. /\ I!Method("contact_summary", "reading", "completing") \in MethodRecords
      /\ I!Method("timeline_lead", "reading", "completing") \in MethodRecords
  BY SMT DEF I!Method, MethodRecords
<1>2. /\ MethodIs(I!GivesUp(I!Method("contact_summary", "reading", "completing")),
                  "contact_summary", "reading", "completing", TRUE)
      /\ MethodIs(I!GivesUp(I!Method("timeline_lead", "reading", "completing")),
                  "timeline_lead", "reading", "completing", TRUE)
  <2> DEFINE c == I!Method("contact_summary", "reading", "completing")
             t == I!Method("timeline_lead", "reading", "completing")
  <2>1. /\ c.key = "contact_summary" /\ c.first = "reading" /\ c.next = "completing"
        /\ t.key = "timeline_lead" /\ t.first = "reading" /\ t.next = "completing"
    BY Constructed DEF MethodIs
  <2>2. c \in MethodRecords /\ t \in MethodRecords
    BY <1>1
  <2> HIDE DEF c, t
  <2>3. MethodIs(I!GivesUp(c), c.key, c.first, c.next, TRUE)
        /\ MethodIs(I!GivesUp(t), t.key, t.first, t.next, TRUE)
    BY <2>2, GivingUp
  <2>4. MethodIs(I!GivesUp(c), "contact_summary", "reading", "completing", TRUE)
        /\ MethodIs(I!GivesUp(t), "timeline_lead", "reading", "completing", TRUE)
    BY <2>1, <2>3
  <2> QED
    BY <2>4 DEF c, t
<1> QED
  BY <1>2, Tabulated, Constructed

\* What the proofs below use of the methods.
LEMMA MethodFacts ==
  ASSUME NEW o \in I!Operations
  PROVE  /\ I!MethodOf[o].first \in {"reading", "embedding", "searching"}
         /\ I!MethodOf[o].first = "searching" => o = "rag"
         /\ I!MethodOf[o].next \in {"answering", "completing", "keeping", "storing"}
         /\ I!MethodOf[o].next = "keeping" <=> o \in {"search", "rag"}
         /\ I!MethodOf[o].next = "storing" => I!KeyOf(o) # "none"
         /\ o = "rag" => ~I!MethodOf[o].gives_up
         /\ o \in I!Scorings =>
              /\ I!MethodOf[o].first = "reading" /\ I!MethodOf[o].next = "storing"
              /\ ~I!MethodOf[o].gives_up
  BY MethodsAre
  DEF MethodIs, I!KeyOf, I!Operations, I!Timelines, I!Charts, I!Scorings

\* The keys, and the operations of one key: their answers do for each other.
LEMMA KeyFacts ==
  ASSUME NEW o \in I!Operations
  PROVE  /\ I!KeyOf(o) \in I!Keys <=> o \notin I!Uncached
         /\ I!KeyOf(o) = "rag" <=> o = "rag"
         /\ I!KeyOf(o) = "search" <=> o = "search"
<1>1. /\ I!KeyOf(o) = "rag" <=> o = "rag"
      /\ I!KeyOf(o) = "search" <=> o = "search"
  BY MethodsAre DEF MethodIs, I!KeyOf, I!Operations, I!Timelines, I!Charts, I!Scorings
<1> QED
  BY <1>1 DEF I!Keys, I!Uncached

LEMMA KeysInKind ==
  ASSUME NEW o \in I!Operations, NEW p \in I!Operations, I!KeyOf(o) = I!KeyOf(p),
         o \notin I!Uncached
  PROVE  InKind(p, o)
<1>1. I!KeyOf(o) # "none"
  BY DEF I!Uncached
<1>2. \/ o = p
      \/ {o, p} \subseteq {"summarize_contact", "timeline_contact"}
      \/ {o, p} \subseteq I!Scorings
  BY <1>1, MethodsAre DEF MethodIs, I!KeyOf, I!Operations, I!Timelines, I!Charts, I!Scorings
<1> QED
  BY <1>2 DEF InKind, I!Scorings

LEMMA TwoKeys == {"search", "rag"} \subseteq I!Keys /\ {"search", "rag"} \subseteq I!Operations
<1>1. {"search", "rag"} \subseteq I!Operations
  BY DEF I!Operations
<1>2. I!KeyOf("search") = "search" /\ I!KeyOf("rag") = "rag"
  BY MethodsAre DEF MethodIs, I!KeyOf
<1> QED
  BY <1>1, <1>2 DEF I!Keys, I!Uncached

\* The lives and bounds are numbers, and an answer has a bound of at least Patience.
LEMMA BoundFacts ==
  ASSUME I!InsightsAssumption
  PROVE  /\ Patience \in Nat /\ MaxAge \in Nat /\ MaxVersion \in Nat
         /\ \A k \in I!Keys : Life[k] \in Nat /\ Life[k] > 0
         /\ \A o \in I!Operations : I!Bound(o) \in Nat /\ Patience <= I!Bound(o) /\ I!Bound(o) <= MaxAge
         /\ \A o \in I!Operations \ (I!Uncached \cup {"rag"}) :
              I!Bound(o) = Patience + Life[I!KeyOf(o)] - 1
         /\ I!Bound("rag") = 2 * Patience + Life["search"] + Life["rag"] - 2
<1>1. /\ Patience \in Nat /\ MaxAge \in Nat /\ MaxVersion \in Nat
      /\ \A k \in I!Keys : Life[k] \in Nat /\ Life[k] > 0
      /\ \A o \in I!Operations : I!Bound(o) <= MaxAge
  BY DEF I!InsightsAssumption
<1>2. "rag" \notin I!Uncached
  BY TwoKeys, MethodsAre DEF I!Uncached, MethodIs, I!KeyOf
<1>3. I!Bound("rag") = 2 * Patience + Life["search"] + Life["rag"] - 2
  BY <1>2 DEF I!Bound
<1>4. \A o \in I!Operations \ (I!Uncached \cup {"rag"}) :
         I!Bound(o) = Patience + Life[I!KeyOf(o)] - 1
  BY DEF I!Bound
<1>5. \A o \in I!Uncached : I!Bound(o) = Patience
  BY DEF I!Bound
<1>6. ASSUME NEW o \in I!Operations PROVE I!Bound(o) \in Nat /\ Patience <= I!Bound(o)
  <2>1. CASE o = "rag"
    BY <1>1, <1>3, <2>1, TwoKeys
  <2>2. CASE o \in I!Uncached
    BY <1>1, <1>5, <2>2
  <2>3. CASE o # "rag" /\ o \notin I!Uncached
    <3>1. Life[I!KeyOf(o)] \in Nat /\ Life[I!KeyOf(o)] > 0
      BY <1>1, <2>3, KeyFacts
    <3> QED
      BY <1>1, <1>4, <2>3, <3>1
  <2> QED
    BY <2>1, <2>2, <2>3
<1> QED
  BY <1>1, <1>3, <1>4, <1>6

-----------------------------------------------------------------------------

\* What an answer, an older value and a value of another operation are.
LEMMA Shown ==
  ASSUME NEW v \in I!Value
  PROVE  /\ [v EXCEPT !.found = FALSE] \in I!Value
         /\ [v EXCEPT !.found = FALSE].by = v.by /\ [v EXCEPT !.found = FALSE].age = v.age
         /\ [v EXCEPT !.found = FALSE].version = v.version
  BY DEF I!Value

LEMMA Made ==
  ASSUME NEW v \in I!Value, NEW o \in I!Operations
  PROVE  /\ [v EXCEPT !.by = o] \in I!Value
         /\ [v EXCEPT !.by = o].by = o /\ [v EXCEPT !.by = o].age = v.age
         /\ [v EXCEPT !.by = o].version = v.version
  BY DEF I!Value

LEMMA Aged ==
  ASSUME MaxAge \in Nat, NEW v \in I!Value, v.age + 1 <= MaxAge
  PROVE  /\ I!Older(v) \in I!Value /\ I!Older(v).by = v.by /\ I!Older(v).age = v.age + 1
         /\ I!Older(v).version = v.version
<1>1. v.age + 1 \in 0..MaxAge
  BY DEF I!Value
<1>2. I!Older(v) = [v EXCEPT !.age = v.age + 1]
  BY DEF I!Older
<1> QED
  BY <1>1, <1>2 DEF I!Value

Entries == [value : I!Value, left : Nat \ {0}]

\* The parts of the type, as the proofs use them.
LEMMA InsightTyped ==
  ASSUME I!InsightsAssumption, InsightInv
  PROVE  /\ op \in [Questions -> I!Operations]
         /\ asked \in [Questions -> I!Stages \cup I!Done] /\ spent \in [Questions -> 0..Patience]
         /\ value \in [Questions -> I!Value]
         /\ kept \in [I!Keys -> Entries \cup {Absent}]
         /\ version \in 0..MaxVersion /\ score \in 0..MaxVersion
         /\ \A c \in Questions : CallFits(op[c], asked[c], spent[c], value[c])
         /\ \A k \in I!Keys : kept[k] # Absent => kept[k] \in Entries /\ EntryFits(k, kept[k])
  BY DEF I!InsightsAssumption, InsightInv, I!TypeOK, Entries

\* One call gets somewhere, and the others are as they were.
CallMoves(c, s, t, v) ==
  /\ asked' = [asked EXCEPT ![c] = s] /\ spent' = [spent EXCEPT ![c] = t]
  /\ value' = [value EXCEPT ![c] = v] /\ op' = op

LEMMA CallMoved ==
  ASSUME I!InsightsAssumption, InsightInv, NEW c \in Questions, NEW s \in I!Stages \cup I!Done,
         NEW t \in 0..Patience, NEW v \in I!Value, CallMoves(c, s, t, v), CallFits(op[c], s, t, v)
  PROVE  /\ op' \in Mixes /\ asked' \in [Questions -> I!Stages \cup I!Done]
         /\ spent' \in [Questions -> 0..Patience] /\ value' \in [Questions -> I!Value]
         /\ asked'[c] = s /\ value'[c] = v
         /\ \A d \in Questions \ {c} : asked'[d] = asked[d] /\ value'[d] = value[d]
         /\ \A d \in Questions : CallFits(op'[d], asked'[d], spent'[d], value'[d])
<1>1. /\ asked' \in [Questions -> I!Stages \cup I!Done]
      /\ spent' \in [Questions -> 0..Patience] /\ value' \in [Questions -> I!Value]
      /\ asked'[c] = s /\ spent'[c] = t /\ value'[c] = v /\ op' = op
      /\ \A d \in Questions \ {c} :
           asked'[d] = asked[d] /\ spent'[d] = spent[d] /\ value'[d] = value[d]
  BY InsightTyped DEF CallMoves
<1>2. op' \in Mixes
  BY <1>1 DEF InsightInv, I!TypeOK
<1>3. ASSUME NEW d \in Questions PROVE CallFits(op'[d], asked'[d], spent'[d], value'[d])
  <2>1. CASE d = c
    BY <1>1, <2>1
  <2>2. CASE d # c
    BY <1>1, <2>2, InsightTyped
  <2> QED
    BY <2>1, <2>2
<1> QED
  BY <1>1, <1>2, <1>3

\* An entry is stored, and the others are as they were.
LEMMA EntryPut ==
  ASSUME I!InsightsAssumption, InsightInv, NEW k \in I!Keys, NEW v \in I!Value, I!Put(k, v),
         EntryFits(k, [value |-> v, left |-> Life[k]])
  PROVE  /\ kept' \in [I!Keys -> Entries \cup {Absent}]
         /\ \A j \in I!Keys : kept'[j] # Absent => EntryFits(j, kept'[j])
<1>1. [value |-> v, left |-> Life[k]] \in Entries
  BY BoundFacts DEF Entries
<1>2. /\ kept' \in [I!Keys -> Entries \cup {Absent}] /\ kept'[k] = [value |-> v, left |-> Life[k]]
      /\ \A j \in I!Keys \ {k} : kept'[j] = kept[j]
  BY <1>1, InsightTyped DEF I!Put
<1>3. ASSUME NEW j \in I!Keys, kept'[j] # Absent PROVE EntryFits(j, kept'[j])
  <2>1. CASE j = k
    BY <1>2, <2>1
  <2>2. CASE j # k
    BY <1>2, <1>3, <2>2, InsightTyped
  <2> QED
    BY <2>1, <2>2
<1> QED
  BY <1>2, <1>3

\* What leaves the scores alone: no scoring starts to read or ends reading, and what is
\* to be written is the same.
LEMMA ScoresKept ==
  ASSUME ScoresAreLast, op' = op, UNCHANGED <<version, score, writes>>,
         overlapped \in BOOLEAN, overlapped' \in BOOLEAN, overlapped => overlapped',
         \A c \in writes : /\ asked'[c] \in {"storing", "answered", "failed"}
                           /\ value'[c].version = value[c].version,
         ~overlapped' => \A c \in Questions :
           I!Scoring(c) => (asked[c] = "reading" => asked'[c] = "reading")
  PROVE  ScoresAreLast'
<1>1. \A c \in writes' : op'[c] \in I!Scorings /\ asked'[c] \in {"storing", "answered", "failed"}
  BY DEF ScoresAreLast
<1>2. ASSUME ~overlapped'
      PROVE  /\ \A c, d \in writes' : c = d
             /\ (\A c \in Questions : I!Scoring(c)' => asked'[c] # "reading") =>
                  IF writes' = {} THEN score' = version'
                  ELSE \A c \in writes' : value'[c].version = version'
  <2>1. ~overlapped /\ \A c, d \in writes : c = d
    BY <1>2 DEF ScoresAreLast
  <2>2. ASSUME \A c \in Questions : I!Scoring(c)' => asked'[c] # "reading"
        PROVE  IF writes' = {} THEN score' = version'
               ELSE \A c \in writes' : value'[c].version = version'
    <3>1. \A c \in Questions : I!Scoring(c) => asked[c] # "reading"
      BY <1>2, <2>2 DEF I!Scoring
    <3> QED
      BY <2>1, <3>1 DEF ScoresAreLast
  <2> QED
    BY <2>1, <2>2
<1> QED
  BY <1>1, <1>2 DEF ScoresAreLast

-----------------------------------------------------------------------------

\* The entries are as they were.
LEMMA EntriesKept ==
  ASSUME I!InsightsAssumption, InsightInv, kept' = kept
  PROVE  /\ kept' \in [I!Keys -> Entries \cup {Absent}]
         /\ \A j \in I!Keys : kept'[j] # Absent => EntryFits(j, kept'[j])
  BY InsightTyped

\* The invariant after a step, from its parts.
LEMMA InsightParts ==
  ASSUME I!InsightsAssumption, InsightInv,
         op' \in Mixes, asked' \in [Questions -> I!Stages \cup I!Done],
         spent' \in [Questions -> 0..Patience], value' \in [Questions -> I!Value],
         \A d \in Questions : CallFits(op'[d], asked'[d], spent'[d], value'[d]),
         kept' \in [I!Keys -> Entries \cup {Absent}],
         \A j \in I!Keys : kept'[j] # Absent => EntryFits(j, kept'[j]),
         recorded' \in BOOLEAN, version' \in 0..MaxVersion, score' \in 0..MaxVersion,
         writes' \subseteq Questions, overlapped' \in BOOLEAN, ScoresAreLast'
  PROVE  InsightInv'
<1>1. I!TypeOK'
  BY DEF I!TypeOK, Entries
<1> QED
  BY <1>1 DEF InsightInv

\* A call that is answered from the cache gets what fits it.
LEMMA CachedFits ==
  ASSUME I!InsightsAssumption, NEW o \in I!Operations \ I!Uncached, NEW e \in Entries,
         EntryFits(I!KeyOf(o), e)
  PROVE  CallFits(o, "answered", 0, [e.value EXCEPT !.found = FALSE])
<1> DEFINE v == [e.value EXCEPT !.found = FALSE]
           k == I!KeyOf(o)
<1>1. e.value \in I!Value /\ e.left \in Nat /\ e.left > 0
  BY DEF Entries
<1>2. v.age = e.value.age /\ v.by = e.value.by /\ e.value.age \in Nat
  BY <1>1, Shown DEF I!Value
<1>3. k \in I!Keys /\ (k = "rag" <=> o = "rag")
  BY KeyFacts
<1>4. /\ e.value.age + e.left <=
           Patience + Life[k] + (IF k = "rag" THEN Patience + Life["search"] - 1 ELSE 0)
      /\ e.value.by \in I!Operations /\ I!KeyOf(e.value.by) = k
  BY DEF EntryFits
<1>5. InKind(v.by, o)
  BY <1>2, <1>4, KeysInKind
<1>6. v.age <= I!Bound(o)
  <2>1. CASE o = "rag"
    <3>1. I!Bound(o) = 2 * Patience + Life["search"] + Life["rag"] - 2
      BY <2>1, BoundFacts
    <3>2. e.value.age + e.left <= Patience + Life["rag"] + (Patience + Life["search"] - 1)
      BY <1>3, <1>4, <2>1
    <3>3. Patience \in Nat /\ Life["rag"] \in Nat /\ Life["search"] \in Nat
      BY BoundFacts, TwoKeys
    <3> QED
      BY <1>1, <1>2, <3>1, <3>2, <3>3
  <2>2. CASE o # "rag"
    <3>1. I!Bound(o) = Patience + Life[k] - 1
      BY <2>2, BoundFacts
    <3>2. e.value.age + e.left <= Patience + Life[k] + 0
      BY <1>3, <1>4, <2>2
    <3>3. Patience \in Nat /\ Life[k] \in Nat
      BY <1>3, BoundFacts
    <3> QED
      BY <1>1, <1>2, <3>1, <3>2, <3>3
  <2> QED
    BY <2>1, <2>2
<1> HIDE DEF v
<1>7. CallFits(o, "answered", 0, v)
  BY <1>5, <1>6 DEF CallFits, I!Stages
<1> QED
  BY <1>7 DEF v

\* Lookups: answers from the caches, and what follows a miss.
LEMMA LookupStep ==
  ASSUME I!InsightsAssumption, InsightInv, NEW c \in Questions, I!Lookup(c)
  PROVE  InsightInv'
<1> DEFINE k == I!KeyOf(op[c])
           v == [kept[k].value EXCEPT !.found = FALSE]
<1>1. op[c] \in I!Operations /\ k \in I!Keys /\ kept[k] # Absent /\ asked[c] = "new"
  BY InsightTyped DEF I!Lookup, I!Live
<1>2. op[c] \notin I!Uncached /\ kept[k] \in Entries /\ EntryFits(k, kept[k])
  BY <1>1, KeyFacts, InsightTyped
<1>3. kept[k].value \in I!Value
  BY <1>2 DEF Entries
<1>4. v \in I!Value
  BY <1>3, Shown
<1>5. CallFits(op[c], "answered", 0, v)
  BY <1>1, <1>2, CachedFits
<1>6. CallMoves(c, "answered", 0, v) /\ UNCHANGED <<kept, recorded, version, score, writes, overlapped>>
  BY DEF I!Lookup, I!Answer, CallMoves
<1>7. 0 \in 0..Patience /\ "answered" \in I!Stages \cup I!Done
  BY BoundFacts DEF I!Done
<1> HIDE DEF v, k
<1>8. /\ op' \in Mixes /\ asked' \in [Questions -> I!Stages \cup I!Done]
      /\ spent' \in [Questions -> 0..Patience] /\ value' \in [Questions -> I!Value]
      /\ asked'[c] = "answered" /\ \A d \in Questions \ {c} : asked'[d] = asked[d] /\ value'[d] = value[d]
      /\ \A d \in Questions : CallFits(op'[d], asked'[d], spent'[d], value'[d])
  BY <1>4, <1>5, <1>6, <1>7, CallMoved
<1>9. ScoresAreLast'
  <2>1. c \notin writes /\ writes \subseteq Questions /\ overlapped \in BOOLEAN /\ ScoresAreLast
    BY <1>1 DEF InsightInv, ScoresAreLast, I!TypeOK
  <2>2. \A d \in writes : asked[d] \in {"storing", "answered", "failed"}
    BY <2>1 DEF ScoresAreLast
  <2> QED
    BY <1>1, <1>6, <1>8, <2>1, <2>2, ScoresKept DEF CallMoves
<1> QED
  BY <1>6, <1>8, <1>9, EntriesKept, InsightParts DEF InsightInv, I!TypeOK

LEMMA MissStep ==
  ASSUME I!InsightsAssumption, InsightInv, NEW c \in Questions, I!Miss(c)
  PROVE  InsightInv'
<1> DEFINE s == I!MethodOf[op[c]].first
<1>1. op[c] \in I!Operations /\ asked[c] = "new" /\ value[c] \in I!Value /\ spent[c] \in 0..Patience
  BY InsightTyped DEF I!Miss
<1>2. s \in {"reading", "embedding", "searching"} /\ (s = "searching" => op[c] = "rag")
  BY <1>1, MethodFacts
<1>3. asked' = [asked EXCEPT ![c] = s]
      /\ UNCHANGED <<op, spent, value, kept, recorded, version, score, writes, overlapped>>
  BY DEF I!Miss, I!Goes
<1> HIDE DEF s
<1>4. CallMoves(c, s, spent[c], value[c])
  BY <1>3, InsightTyped DEF CallMoves
<1>5. value[c].age = 0 /\ spent[c] \in Nat /\ Extra(op[c], s) = 0
  BY <1>1, <1>2, InsightTyped, BoundFacts DEF CallFits, I!Nothing, Extra
<1>6. CallFits(op[c], s, spent[c], value[c])
  BY <1>2, <1>5 DEF CallFits
<1>7. s \in I!Stages \cup I!Done
  BY <1>2 DEF I!Stages
<1>8. /\ op' \in Mixes /\ asked' \in [Questions -> I!Stages \cup I!Done]
      /\ spent' \in [Questions -> 0..Patience] /\ value' \in [Questions -> I!Value]
      /\ asked'[c] = s /\ \A d \in Questions \ {c} : asked'[d] = asked[d] /\ value'[d] = value[d]
      /\ \A d \in Questions : CallFits(op'[d], asked'[d], spent'[d], value'[d])
  BY <1>1, <1>4, <1>6, <1>7, CallMoved
<1>9. ScoresAreLast'
  <2>1. c \notin writes /\ writes \subseteq Questions /\ overlapped \in BOOLEAN /\ ScoresAreLast
    BY <1>1 DEF InsightInv, ScoresAreLast, I!TypeOK
  <2>2. \A d \in writes : asked[d] \in {"storing", "answered", "failed"}
    BY <2>1 DEF ScoresAreLast
  <2> QED
    BY <1>1, <1>3, <1>8, <2>1, <2>2, ScoresKept
<1> QED
  BY <1>3, <1>8, <1>9, EntriesKept, InsightParts DEF InsightInv, I!TypeOK

-----------------------------------------------------------------------------

\* The search's cache, for a RAG answer, and the embedding.
LEMMA SearchStep ==
  ASSUME I!InsightsAssumption, InsightInv, NEW c \in Questions, I!SearchCached(c) \/ I!Embed(c)
  PROVE  InsightInv'
<1>0. /\ op[c] \in I!Operations /\ value[c] \in I!Value /\ spent[c] \in 0..Patience
      /\ asked[c] \in {"searching", "embedding"} /\ (asked[c] = "searching" => op[c] = "rag")
      /\ CallFits(op[c], asked[c], spent[c], value[c])
  BY InsightTyped DEF I!SearchCached, I!Embed, CallFits
<1>a. Patience \in Nat /\ Life["search"] \in Nat
  BY BoundFacts, TwoKeys
<1>b. UNCHANGED <<kept, recorded, version, score, writes, overlapped>>
  BY DEF I!SearchCached, I!Embed
<1>1. \E s \in {"completing", "embedding", "reading"}, v \in I!Value :
        CallMoves(c, s, spent[c], v) /\ CallFits(op[c], s, spent[c], v)
  <2>1. CASE I!SearchCached(c) /\ I!Live("search")
    <3> DEFINE v == kept["search"].value
    <3>1. kept["search"] \in Entries /\ EntryFits("search", kept["search"])
      BY <2>1, InsightTyped, TwoKeys DEF I!Live
    <3>2. v \in I!Value /\ kept["search"].left \in Nat /\ kept["search"].left > 0 /\ v.age \in Nat
      BY <3>1 DEF Entries, I!Value
    <3>3. v.age + kept["search"].left <= Patience + Life["search"] + 0
      BY <3>1 DEF EntryFits
    <3>4. op[c] = "rag"
      BY <1>0, <2>1 DEF I!SearchCached
    <3> HIDE DEF v
    <3>5. Extra(op[c], "completing") = Patience + Life["search"] - 1
      BY <3>4 DEF Extra
    <3>6. v.age <= spent[c] + Extra(op[c], "completing")
      BY <1>0, <1>a, <3>2, <3>3, <3>5
    <3>7. CallFits(op[c], "completing", spent[c], v)
      BY <3>6 DEF CallFits
    <3>8. CallMoves(c, "completing", spent[c], v)
      BY <2>1, InsightTyped DEF I!SearchCached, I!Goes, I!Holds, CallMoves, v
    <3> QED
      BY <3>2, <3>7, <3>8
  <2>2. CASE ~(I!SearchCached(c) /\ I!Live("search"))
    <3>1. PICK s \in {"embedding", "reading"} : asked' = [asked EXCEPT ![c] = s]
      BY <2>2 DEF I!SearchCached, I!Embed, I!Goes
    <3>2. CallMoves(c, s, spent[c], value[c])
      BY <2>2, <3>1, InsightTyped DEF I!SearchCached, I!Embed, I!Goes, CallMoves
    <3>3. Extra(op[c], s) = 0 /\ Extra(op[c], asked[c]) = 0
      BY <1>0 DEF Extra
    <3>4. value[c].age <= spent[c] + 0
      BY <1>0, <3>3 DEF CallFits, I!Stages
    <3>5. CallFits(op[c], s, spent[c], value[c])
      BY <3>3, <3>4 DEF CallFits
    <3> QED
      BY <1>0, <3>2, <3>5
  <2> QED
    BY <2>1, <2>2
<1>2. PICK s \in {"completing", "embedding", "reading"}, v \in I!Value :
        CallMoves(c, s, spent[c], v) /\ CallFits(op[c], s, spent[c], v)
  BY <1>1
<1>3. s \in I!Stages \cup I!Done
  BY DEF I!Stages
<1>4. /\ op' \in Mixes /\ asked' \in [Questions -> I!Stages \cup I!Done]
      /\ spent' \in [Questions -> 0..Patience] /\ value' \in [Questions -> I!Value]
      /\ \A d \in Questions \ {c} : asked'[d] = asked[d] /\ value'[d] = value[d]
      /\ \A d \in Questions : CallFits(op'[d], asked'[d], spent'[d], value'[d])
  BY <1>0, <1>2, <1>3, CallMoved
<1>5. ScoresAreLast'
  <2>1. writes \subseteq Questions /\ overlapped \in BOOLEAN /\ ScoresAreLast /\ op' = op
    BY <1>2 DEF InsightInv, I!TypeOK, CallMoves
  <2>2. c \notin writes /\ \A d \in writes : asked[d] \in {"storing", "answered", "failed"}
    BY <1>0, <2>1 DEF ScoresAreLast
  <2> QED
    BY <1>0, <1>b, <1>4, <2>1, <2>2, ScoresKept
<1> QED
  BY <1>b, <1>4, <1>5, EntriesKept, InsightParts DEF InsightInv, I!TypeOK

\* What a call that has the records holds: something read at this moment.
LEMMA ReadFits ==
  ASSUME I!InsightsAssumption, InsightInv, NEW c \in Questions, I!Read(c)
  PROVE  \E s \in {"answered", "completing", "keeping", "storing"}, t \in 0..Patience, v \in I!Value :
           /\ CallMoves(c, s, t, v) /\ CallFits(op[c], s, t, v)
           /\ I!Scoring(c) => s = "storing" /\ v.version = version
<1> DEFINE o == op[c]
           next == I!MethodOf[o].next
           v == [by |-> IF o = "rag" THEN "search" ELSE o, age |-> 0,
                 version |-> IF I!Scoring(c) THEN version ELSE 0,
                 found |-> next = "keeping" /\ recorded]
           w == [v EXCEPT !.found = FALSE]
<1>0. /\ o \in I!Operations /\ asked[c] = "reading" /\ spent[c] \in 0..Patience
      /\ spent[c] \in Nat /\ 0 \in 0..Patience
  BY InsightTyped, BoundFacts DEF I!Read
<1>1. recorded \in BOOLEAN /\ version \in 0..MaxVersion /\ 0 \in 0..MaxAge /\ 0 \in 0..MaxVersion
  BY BoundFacts DEF InsightInv, I!TypeOK
<1>2. v \in I!Value /\ v.age = 0 /\ v.by = (IF o = "rag" THEN "search" ELSE o)
      /\ (I!Scoring(c) => v.version = version)
  BY <1>0, <1>1, TwoKeys DEF I!Value
<1>3. /\ next \in {"answering", "completing", "keeping", "storing"}
      /\ next = "keeping" <=> o \in {"search", "rag"}
      /\ next = "storing" => o \notin I!Uncached
      /\ o = "rag" => ~I!MethodOf[o].gives_up
      /\ I!Scoring(c) => next = "storing" /\ ~I!MethodOf[o].gives_up
  BY <1>0, MethodFacts DEF I!Scoring, I!Uncached
<1>4. IF next = "answering" \/ (I!MethodOf[o].gives_up /\ ~recorded)
      THEN I!Answer(c, v) ELSE I!Holds(c, v) /\ I!Goes(c, next)
  BY DEF I!Read
<1>5. op' = op
  BY DEF I!Read
<1>6. w \in I!Value /\ w.by = v.by /\ w.age = v.age
  BY <1>2, Shown
<1> HIDE DEF v
<1>7. CASE next = "answering" \/ (I!MethodOf[o].gives_up /\ ~recorded)
  <2>1. o # "rag" /\ ~I!Scoring(c)
    BY <1>3, <1>7
  <2>2. CallMoves(c, "answered", 0, w)
    BY <1>4, <1>5, <1>7 DEF I!Answer, CallMoves
  <2>3. w.age = 0 /\ w.by = o /\ 0 <= I!Bound(o)
    BY <1>0, <1>2, <1>6, <2>1, BoundFacts
  <2> HIDE DEF w, o
  <2>4. CallFits(o, "answered", 0, w)
    BY <2>3 DEF CallFits, InKind, I!Stages
  <2> QED
    BY <1>0, <1>6, <2>1, <2>2, <2>4 DEF o
<1>8. CASE ~(next = "answering" \/ (I!MethodOf[o].gives_up /\ ~recorded))
  <2>1. CallMoves(c, next, spent[c], v)
    BY <1>4, <1>5, <1>8, InsightTyped DEF I!Holds, I!Goes, CallMoves
  <2>2. next \in {"completing", "keeping", "storing"} /\ (next = "storing" => v.by = o)
        /\ (next = "keeping" => v.by = "search")
    BY <1>2, <1>3, <1>8
  <2>3. Extra(o, next) >= 0 /\ Extra(o, next) \in Int
    BY BoundFacts, TwoKeys DEF Extra
  <2> HIDE DEF next, o
  <2>4. v.age <= spent[c] + Extra(o, next)
    BY <1>0, <1>2, <2>3
  <2>5. CallFits(o, next, spent[c], v)
    BY <1>3, <2>2, <2>4 DEF CallFits
  <2> QED
    BY <1>0, <1>2, <1>3, <2>1, <2>2, <2>5 DEF o
<1> QED
  BY <1>7, <1>8

LEMMA ReadStep ==
  ASSUME I!InsightsAssumption, InsightInv, NEW c \in Questions, I!Read(c)
  PROVE  InsightInv'
<1>1. PICK s \in {"answered", "completing", "keeping", "storing"}, t \in 0..Patience, v \in I!Value :
        /\ CallMoves(c, s, t, v) /\ CallFits(op[c], s, t, v)
        /\ I!Scoring(c) => s = "storing" /\ v.version = version
  BY ReadFits
<1>2. s \in I!Stages \cup I!Done
  BY DEF I!Stages, I!Done
<1>3. /\ op' \in Mixes /\ asked' \in [Questions -> I!Stages \cup I!Done]
      /\ spent' \in [Questions -> 0..Patience] /\ value' \in [Questions -> I!Value]
      /\ asked'[c] = s /\ value'[c] = v
      /\ \A d \in Questions \ {c} : asked'[d] = asked[d] /\ value'[d] = value[d]
      /\ \A d \in Questions : CallFits(op'[d], asked'[d], spent'[d], value'[d])
  BY <1>1, <1>2, CallMoved
<1>4. /\ asked[c] = "reading" /\ op' = op /\ UNCHANGED <<kept, recorded, version, score>>
      /\ IF I!Scoring(c)
         THEN /\ writes' = writes \cup {c}
              /\ overlapped' = (overlapped \/ writes # {} \/
                                \E d \in Questions \ {c} : I!Scoring(d) /\ I!UnderWay(d))
         ELSE UNCHANGED <<writes, overlapped>>
  BY DEF I!Read
<1>5. writes \subseteq Questions /\ overlapped \in BOOLEAN /\ ScoresAreLast
  BY DEF InsightInv, I!TypeOK
<1>6. c \notin writes /\ \A d \in writes : asked[d] \in {"storing", "answered", "failed"}
  BY <1>4, <1>5 DEF ScoresAreLast
<1>7. writes' \subseteq Questions /\ overlapped' \in BOOLEAN
  BY <1>4, <1>5
<1>8. CASE ~I!Scoring(c)
  <2>1. ScoresAreLast'
    BY <1>3, <1>4, <1>5, <1>6, <1>8, ScoresKept
  <2> QED
    BY <1>3, <1>4, <1>7, <2>1, EntriesKept, InsightParts DEF InsightInv, I!TypeOK
<1>9. CASE I!Scoring(c)
  <2>1. s = "storing" /\ v.version = version /\ writes' = writes \cup {c}
    BY <1>1, <1>4, <1>9
  <2>2. \A d \in writes' : op'[d] \in I!Scorings /\ asked'[d] \in {"storing", "answered", "failed"}
    BY <1>3, <1>4, <1>5, <1>6, <1>9, <2>1 DEF ScoresAreLast, I!Scoring
  <2>3. ~overlapped' => writes' = {c} /\ value'[c].version = version'
    BY <1>3, <1>4, <1>9, <2>1
  <2>4. ScoresAreLast'
    BY <2>2, <2>3 DEF ScoresAreLast
  <2> QED
    BY <1>3, <1>4, <1>7, <2>4, EntriesKept, InsightParts DEF InsightInv, I!TypeOK
<1> QED
  BY <1>8, <1>9

-----------------------------------------------------------------------------

\* The update of the lead begins a scoring, and the score that was written before it
\* is not the last one until it has read.
LEMMA UpdateStep ==
  ASSUME I!InsightsAssumption, InsightInv, NEW c \in Questions, I!UpdateLead(c)
  PROVE  InsightInv'
<1>1. /\ op[c] \in I!Operations /\ asked[c] = "waiting" /\ value[c] \in I!Value
      /\ spent[c] \in 0..Patience /\ version < MaxVersion
      /\ CallFits(op[c], asked[c], spent[c], value[c])
  BY InsightTyped DEF I!UpdateLead
<1>2. op[c] = "recompute" /\ value[c].age = 0
  BY <1>1 DEF CallFits, I!Nothing
<1>3. /\ asked' = [asked EXCEPT ![c] = "reading"] /\ version' = version + 1
      /\ UNCHANGED <<op, spent, value, kept, recorded, score, writes, overlapped>>
  BY DEF I!UpdateLead, I!Goes
<1>4. CallMoves(c, "reading", spent[c], value[c])
  BY <1>3, InsightTyped DEF CallMoves
<1>5. CallFits(op[c], "reading", spent[c], value[c])
  BY <1>1, <1>2, BoundFacts DEF CallFits, Extra
<1>6. "reading" \in I!Stages \cup I!Done
  BY DEF I!Stages
<1>7. /\ op' \in Mixes /\ asked' \in [Questions -> I!Stages \cup I!Done]
      /\ spent' \in [Questions -> 0..Patience] /\ value' \in [Questions -> I!Value]
      /\ asked'[c] = "reading" /\ \A d \in Questions \ {c} : asked'[d] = asked[d]
      /\ \A d \in Questions : CallFits(op'[d], asked'[d], spent'[d], value'[d])
  BY <1>1, <1>4, <1>5, <1>6, CallMoved
<1>8. version' \in 0..MaxVersion
  BY <1>1, <1>3, InsightTyped, BoundFacts
<1>9. ScoresAreLast'
  <2>1. writes \subseteq Questions /\ ScoresAreLast
    BY DEF InsightInv, I!TypeOK
  <2>2. c \notin writes /\ I!Scoring(c)'
    BY <1>1, <1>2, <1>3, <2>1 DEF ScoresAreLast, I!Scoring, I!Scorings
  <2>3. \A d \in writes' : op'[d] \in I!Scorings /\ asked'[d] \in {"storing", "answered", "failed"}
    BY <1>3, <1>7, <2>1, <2>2 DEF ScoresAreLast
  <2>4. ~overlapped' => \A d, e \in writes' : d = e
    BY <1>3, <2>1 DEF ScoresAreLast
  <2> QED
    BY <1>7, <2>2, <2>3, <2>4 DEF ScoresAreLast
<1> QED
  BY <1>3, <1>7, <1>8, <1>9, EntriesKept, InsightParts DEF InsightInv, I!TypeOK

\* A step of one call that neither reads nor touches the lead.
LEMMA QuietMove ==
  ASSUME I!InsightsAssumption, InsightInv, NEW c \in Questions, NEW s \in I!Stages \cup I!Done,
         NEW t \in 0..Patience, NEW v \in I!Value, CallMoves(c, s, t, v), CallFits(op[c], s, t, v),
         UNCHANGED <<recorded, version, score, writes>>,
         kept' \in [I!Keys -> Entries \cup {Absent}],
         \A j \in I!Keys : kept'[j] # Absent => EntryFits(j, kept'[j]),
         overlapped' \in BOOLEAN, overlapped => overlapped',
         c \in writes => s \in {"storing", "answered", "failed"} /\ v.version = value[c].version,
         ~overlapped' => (I!Scoring(c) => asked[c] # "reading")
  PROVE  InsightInv'
<1>1. /\ op' \in Mixes /\ asked' \in [Questions -> I!Stages \cup I!Done]
      /\ spent' \in [Questions -> 0..Patience] /\ value' \in [Questions -> I!Value]
      /\ asked'[c] = s /\ value'[c] = v
      /\ \A d \in Questions \ {c} : asked'[d] = asked[d] /\ value'[d] = value[d]
      /\ \A d \in Questions : CallFits(op'[d], asked'[d], spent'[d], value'[d])
  BY CallMoved
<1>2. op' = op /\ writes \subseteq Questions /\ overlapped \in BOOLEAN /\ ScoresAreLast
  BY DEF CallMoves, InsightInv, I!TypeOK
<1>3. \A d \in writes : asked[d] \in {"storing", "answered", "failed"}
  BY <1>2 DEF ScoresAreLast
<1>4. \A d \in writes : /\ asked'[d] \in {"storing", "answered", "failed"}
                        /\ value'[d].version = value[d].version
  BY <1>1, <1>2, <1>3
<1>5. ~overlapped' => \A d \in Questions :
         I!Scoring(d) => (asked[d] = "reading" => asked'[d] = "reading")
  BY <1>1
<1>6. ScoresAreLast'
  BY <1>2, <1>4, <1>5, ScoresKept
<1> QED
  BY <1>1, <1>6, InsightParts DEF InsightInv, I!TypeOK

\* A value that a call has got, once its call is answered with it.
LEMMA AnswerFits ==
  ASSUME I!InsightsAssumption, NEW o \in I!Operations, NEW v \in I!Value, NEW w \in I!Value,
         w.by = v.by, w.age = v.age, v.by = o, v.age <= I!Bound(o)
  PROVE  CallFits(o, "answered", 0, w)
  BY DEF CallFits, InKind, I!Stages

\* How old what a call holds is, by what it asks: a call took at most Patience.
LEMMA HeldWithin ==
  ASSUME I!InsightsAssumption, NEW o \in I!Operations, NEW t \in 0..Patience, NEW v \in I!Value,
         NEW s \in {"keeping", "completing", "storing"}, CallFits(o, s, t, v)
  PROVE  /\ v.age \in Nat /\ v.age <= I!Bound(o)
         /\ v.age <= Patience + (IF o = "rag" /\ s # "keeping" THEN Patience + Life["search"] - 1 ELSE 0)
<1>1. v.age \in Nat /\ t \in Nat /\ t <= Patience /\ Patience \in Nat /\ I!Bound(o) \in Nat
      /\ Patience <= I!Bound(o)
  BY BoundFacts DEF I!Value
<1>2. Life["search"] \in Nat /\ Life["search"] > 0 /\ Life["rag"] \in Nat /\ Life["rag"] > 0
  BY BoundFacts, TwoKeys
<1>3. v.age <= t + Extra(o, s)
  BY DEF CallFits, I!Stages
<1>4. CASE o = "rag" /\ s # "keeping"
  <2>1. Extra(o, s) = Patience + Life["search"] - 1
    BY <1>4 DEF Extra
  <2>2. I!Bound(o) = 2 * Patience + Life["search"] + Life["rag"] - 2
    BY <1>4, BoundFacts
  <2> QED
    BY <1>1, <1>2, <1>3, <1>4, <2>1, <2>2
<1>5. CASE ~(o = "rag" /\ s # "keeping")
  <2>1. Extra(o, s) = 0
    BY <1>5 DEF Extra
  <2> QED
    BY <1>1, <1>3, <1>5, <2>1
<1> QED
  BY <1>4, <1>5

LEMMA KeepStep ==
  ASSUME I!InsightsAssumption, InsightInv, NEW c \in Questions, I!Keep(c)
  PROVE  InsightInv'
<1> DEFINE v == [value[c] EXCEPT !.found = FALSE]
<1>1. /\ op[c] \in I!Operations /\ asked[c] = "keeping" /\ value[c] \in I!Value
      /\ spent[c] \in 0..Patience /\ CallFits(op[c], "keeping", spent[c], value[c])
  BY InsightTyped DEF I!Keep
<1>2. /\ op[c] \in {"search", "rag"} /\ value[c].by = "search"
      /\ value[c].age \in Nat /\ value[c].age <= Patience /\ value[c].age <= I!Bound(op[c])
  <2>1. op[c] \in {"search", "rag"} /\ value[c].by = "search"
    BY <1>1 DEF CallFits
  <2>2. value[c].age \in Nat /\ value[c].age <= I!Bound(op[c]) /\ value[c].age <= Patience + 0
    BY <1>1, HeldWithin
  <2> QED
    BY <2>1, <2>2, BoundFacts
<1>3. EntryFits("search", [value |-> value[c], left |-> Life["search"]])
  <2>1. "search" \in {o \in I!Operations : I!KeyOf(o) = "search"}
    BY TwoKeys, KeyFacts
  <2>2. value[c].age + Life["search"] <= Patience + Life["search"] + 0
    BY <1>2, BoundFacts, TwoKeys
  <2> QED
    BY <1>2, <2>1, <2>2 DEF EntryFits
<1>4. /\ kept' \in [I!Keys -> Entries \cup {Absent}]
      /\ \A j \in I!Keys : kept'[j] # Absent => EntryFits(j, kept'[j])
  BY <1>1, <1>3, EntryPut, TwoKeys DEF I!Keep
<1>5. UNCHANGED <<op, recorded, version, score, writes, overlapped>>
  BY DEF I!Keep
<1>6. c \notin writes /\ overlapped \in BOOLEAN
  BY <1>1 DEF InsightInv, ScoresAreLast, I!TypeOK
<1>7. v \in I!Value /\ v.by = value[c].by /\ v.age = value[c].age
  BY <1>1, Shown
<1>8. CASE op[c] = "search"
  <2>1. CallMoves(c, "answered", 0, v)
    BY <1>5, <1>8 DEF I!Keep, I!Answer, CallMoves
  <2> HIDE DEF v
  <2>2. CallFits(op[c], "answered", 0, v)
    BY <1>1, <1>2, <1>7, <1>8, AnswerFits
  <2>3. "answered" \in I!Stages \cup I!Done /\ 0 \in 0..Patience
    BY BoundFacts DEF I!Done
  <2> QED
    BY <1>1, <1>4, <1>5, <1>6, <1>7, <2>1, <2>2, <2>3, QuietMove
<1>9. CASE op[c] # "search"
  <2>1. CallMoves(c, "completing", spent[c], value[c])
    BY <1>5, <1>9, InsightTyped DEF I!Keep, I!Goes, CallMoves
  <2>2. value[c].age <= spent[c] + Extra(op[c], "completing")
    <3>1. Extra(op[c], "completing") = Patience + Life["search"] - 1 /\ op[c] = "rag"
      BY <1>2, <1>9 DEF Extra
    <3>2. Life["search"] \in Nat /\ Life["search"] > 0 /\ spent[c] \in Nat /\ Patience \in Nat
      BY <1>1, BoundFacts, TwoKeys
    <3> QED
      BY <1>2, <3>1, <3>2
  <2>3. CallFits(op[c], "completing", spent[c], value[c])
    BY <2>2 DEF CallFits
  <2>4. "completing" \in I!Stages \cup I!Done
    BY DEF I!Stages
  <2> QED
    BY <1>1, <1>4, <1>5, <1>6, <2>1, <2>3, <2>4, QuietMove
<1> QED
  BY <1>8, <1>9

LEMMA CompleteStep ==
  ASSUME I!InsightsAssumption, InsightInv, NEW c \in Questions, I!Complete(c)
  PROVE  InsightInv'
<1> DEFINE v == [value[c] EXCEPT !.by = op[c]]
           w == [v EXCEPT !.found = FALSE]
<1>1. /\ op[c] \in I!Operations /\ asked[c] = "completing" /\ value[c] \in I!Value
      /\ spent[c] \in 0..Patience /\ CallFits(op[c], "completing", spent[c], value[c])
  BY InsightTyped DEF I!Complete
<1>2. v \in I!Value /\ v.by = op[c] /\ v.age = value[c].age
  BY <1>1, Made
<1>3. UNCHANGED <<op, kept, recorded, version, score, writes, overlapped>>
  BY DEF I!Complete
<1>4. /\ kept' \in [I!Keys -> Entries \cup {Absent}]
      /\ \A j \in I!Keys : kept'[j] # Absent => EntryFits(j, kept'[j])
  BY <1>3, EntriesKept
<1>5. c \notin writes /\ overlapped \in BOOLEAN
  BY <1>1 DEF InsightInv, ScoresAreLast, I!TypeOK
<1>6. IF op[c] \in I!Uncached \/ (op[c] = "rag" /\ ~value[c].found)
      THEN I!Answer(c, v) ELSE I!Goes(c, "storing") /\ I!Holds(c, v)
  BY DEF I!Complete
<1> HIDE DEF v
<1>7. w \in I!Value /\ w.by = v.by /\ w.age = v.age
  BY <1>2, Shown
<1>8. CASE op[c] \in I!Uncached \/ (op[c] = "rag" /\ ~value[c].found)
  <2>1. CallMoves(c, "answered", 0, w)
    BY <1>3, <1>6, <1>8 DEF I!Answer, CallMoves
  <2>2. v.age <= I!Bound(op[c])
    BY <1>1, <1>2, HeldWithin
  <2> HIDE DEF w
  <2>3. CallFits(op[c], "answered", 0, w)
    BY <1>1, <1>2, <1>7, <2>2, AnswerFits
  <2>4. "answered" \in I!Stages \cup I!Done /\ 0 \in 0..Patience
    BY BoundFacts DEF I!Done
  <2> QED
    BY <1>1, <1>3, <1>4, <1>5, <1>7, <2>1, <2>3, <2>4, QuietMove
<1>9. CASE ~(op[c] \in I!Uncached \/ (op[c] = "rag" /\ ~value[c].found))
  <2>1. CallMoves(c, "storing", spent[c], v)
    BY <1>3, <1>6, <1>9, InsightTyped DEF I!Goes, I!Holds, CallMoves
  <2>2. Extra(op[c], "storing") = Extra(op[c], "completing")
    BY DEF Extra
  <2>3. v.age <= spent[c] + Extra(op[c], "storing")
    BY <1>1, <1>2, <2>2 DEF CallFits, I!Stages
  <2>4. CallFits(op[c], "storing", spent[c], v)
    BY <1>2, <1>9, <2>3 DEF CallFits
  <2>5. "storing" \in I!Stages \cup I!Done
    BY DEF I!Stages
  <2> QED
    BY <1>1, <1>2, <1>3, <1>4, <1>5, <2>1, <2>4, <2>5, QuietMove
<1> QED
  BY <1>8, <1>9

LEMMA StoreStep ==
  ASSUME I!InsightsAssumption, InsightInv, NEW c \in Questions, I!Store(c)
  PROVE  InsightInv'
<1> DEFINE v == [value[c] EXCEPT !.found = FALSE]
           k == I!KeyOf(op[c])
<1>1. /\ op[c] \in I!Operations /\ asked[c] = "storing" /\ value[c] \in I!Value
      /\ spent[c] \in 0..Patience /\ CallFits(op[c], "storing", spent[c], value[c])
  BY InsightTyped DEF I!Store
<1>2. op[c] \notin I!Uncached /\ value[c].by = op[c]
  BY <1>1 DEF CallFits
<1>3. k \in I!Keys /\ (k = "rag" <=> op[c] = "rag")
  BY <1>1, <1>2, KeyFacts
<1>4. /\ value[c].age \in Nat /\ value[c].age <= I!Bound(op[c])
      /\ value[c].age <= Patience + (IF op[c] = "rag" THEN Patience + Life["search"] - 1 ELSE 0)
  BY <1>1, HeldWithin
<1>5. EntryFits(k, [value |-> value[c], left |-> Life[k]])
  <2>1. Life[k] \in Nat /\ Life["search"] \in Nat /\ Patience \in Nat
    BY <1>3, BoundFacts, TwoKeys
  <2>2. value[c].age + Life[k] <=
          Patience + Life[k] + (IF k = "rag" THEN Patience + Life["search"] - 1 ELSE 0)
    BY <1>3, <1>4, <2>1
  <2> QED
    BY <1>1, <1>2, <2>2 DEF EntryFits
<1>6. I!Put(k, value[c]) /\ UNCHANGED <<op, recorded, version, score, writes, overlapped>>
  BY DEF I!Store
<1> HIDE DEF k
<1>7. /\ kept' \in [I!Keys -> Entries \cup {Absent}]
      /\ \A j \in I!Keys : kept'[j] # Absent => EntryFits(j, kept'[j])
  BY <1>1, <1>3, <1>5, <1>6, EntryPut
<1>8. v \in I!Value /\ v.by = value[c].by /\ v.age = value[c].age /\ v.version = value[c].version
  BY <1>1, Shown
<1>9. CallMoves(c, "answered", 0, v)
  BY <1>6 DEF I!Store, I!Answer, CallMoves
<1>10. CallFits(op[c], "answered", 0, v)
  BY <1>1, <1>2, <1>4, <1>8, AnswerFits
<1>11. "answered" \in I!Stages \cup I!Done /\ 0 \in 0..Patience /\ overlapped \in BOOLEAN
  BY BoundFacts DEF I!Done, InsightInv, I!TypeOK
<1> HIDE DEF v
<1> QED
  BY <1>1, <1>6, <1>7, <1>8, <1>9, <1>10, <1>11, QuietMove

LEMMA FailStep ==
  ASSUME I!InsightsAssumption, InsightInv, NEW c \in Questions, I!Fail(c)
  PROVE  InsightInv'
<1>1. value[c] \in I!Value /\ overlapped \in BOOLEAN
  BY InsightTyped DEF InsightInv, I!TypeOK
<1>2. /\ overlapped' = (overlapped \/ I!Scoring(c))
      /\ UNCHANGED <<op, value, kept, recorded, version, score, writes>>
  BY DEF I!Fail
<1>3. CallMoves(c, "failed", 0, value[c])
  BY <1>2, InsightTyped DEF I!Fail, CallMoves
<1>4. CallFits(op[c], "failed", 0, value[c])
  BY DEF CallFits, I!Stages
<1>5. "failed" \in I!Stages \cup I!Done /\ 0 \in 0..Patience
  BY BoundFacts DEF I!Done
<1>6. /\ kept' \in [I!Keys -> Entries \cup {Absent}]
      /\ \A j \in I!Keys : kept'[j] # Absent => EntryFits(j, kept'[j])
  BY <1>2, EntriesKept
<1>7. overlapped' \in BOOLEAN /\ (overlapped => overlapped') /\ (~overlapped' => ~I!Scoring(c))
  BY <1>1, <1>2
<1> QED
  BY <1>1, <1>2, <1>3, <1>4, <1>5, <1>6, <1>7, QuietMove

-----------------------------------------------------------------------------

\* A score is written, or lost.
LEMMA PersistStep ==
  ASSUME I!InsightsAssumption, InsightInv, NEW c \in Questions, I!PersistScore(c)
  PROVE  InsightInv'
<1>1. /\ c \in writes /\ writes' = writes \ {c}
      /\ UNCHANGED <<op, asked, spent, value, kept, recorded, version>>
      /\ \/ score' = value[c].version /\ UNCHANGED overlapped
         \/ overlapped' = TRUE /\ UNCHANGED score
  BY DEF I!PersistScore
<1>2. /\ value[c] \in I!Value /\ writes \subseteq Questions /\ overlapped \in BOOLEAN
      /\ ScoresAreLast /\ op \in Mixes /\ recorded \in BOOLEAN
  BY InsightTyped DEF InsightInv, I!TypeOK
<1>3. score' \in 0..MaxVersion /\ version' \in 0..MaxVersion
  BY <1>1, <1>2, InsightTyped DEF I!Value
<1>4. ScoresAreLast'
  <2>1. \A d \in writes' : op'[d] \in I!Scorings /\ asked'[d] \in {"storing", "answered", "failed"}
    BY <1>1, <1>2 DEF ScoresAreLast
  <2>2. ASSUME ~overlapped'
        PROVE  /\ writes' = {}
               /\ (\A d \in Questions : I!Scoring(d)' => asked'[d] # "reading") => score' = version'
    <3>1. ~overlapped /\ score' = value[c].version
      BY <1>1, <2>2
    <3>2. writes = {c}
      BY <1>1, <1>2, <3>1 DEF ScoresAreLast
    <3>3. (\A d \in Questions : I!Scoring(d) => asked[d] # "reading") => value[c].version = version
      BY <1>2, <3>1, <3>2 DEF ScoresAreLast
    <3> QED
      BY <1>1, <3>1, <3>2, <3>3 DEF I!Scoring
  <2> QED
    BY <2>1, <2>2 DEF ScoresAreLast
<1> QED
  BY <1>1, <1>2, <1>3, <1>4, InsightTyped, EntriesKept, InsightParts

\* Time passes: what a call holds is a tick older, and so is the call.
LEMMA CallTicks ==
  ASSUME I!InsightsAssumption, InsightInv, I!Tick, NEW c \in Questions
  PROVE  /\ spent'[c] \in 0..Patience /\ value'[c] \in I!Value
         /\ value'[c].version = value[c].version
         /\ CallFits(op[c], asked[c], spent'[c], value'[c])
<1>1. /\ op[c] \in I!Operations /\ spent[c] \in 0..Patience /\ value[c] \in I!Value
      /\ CallFits(op[c], asked[c], spent[c], value[c])
  BY InsightTyped
<1>2. /\ I!UnderWay(c) => spent[c] < Patience
      /\ spent'[c] = IF I!UnderWay(c) THEN spent[c] + 1 ELSE spent[c]
      /\ value'[c] = IF I!UnderWay(c) /\ value[c] # I!Nothing THEN I!Older(value[c]) ELSE value[c]
  BY DEF I!Tick
<1>3. Patience \in Nat /\ MaxAge \in Nat /\ value[c].age \in Nat /\ spent[c] \in Nat
  BY <1>1, BoundFacts DEF I!Value
<1>4. CASE ~I!UnderWay(c)
  BY <1>1, <1>2, <1>4
<1>5. CASE I!UnderWay(c)
  <2>1. spent'[c] = spent[c] + 1 /\ spent'[c] \in 0..Patience /\ spent[c] < Patience
    BY <1>2, <1>3, <1>5
  <2>2. /\ value[c].age <= spent[c] + Extra(op[c], asked[c]) /\ asked[c] \notin {"new", "waiting", "answered"}
    BY <1>1, <1>5 DEF CallFits, I!UnderWay, I!Stages
  <2>3. Extra(op[c], asked[c]) \in Nat /\ Patience + Extra(op[c], asked[c]) <= MaxAge
    <3>1. CASE op[c] = "rag" /\ asked[c] \in {"completing", "storing"}
      <4>1. Extra(op[c], asked[c]) = Patience + Life["search"] - 1
        BY <3>1 DEF Extra
      <4>2. /\ I!Bound("rag") = 2 * Patience + Life["search"] + Life["rag"] - 2
            /\ I!Bound("rag") <= MaxAge
        BY BoundFacts, TwoKeys
      <4>3. Life["search"] \in Nat /\ Life["search"] > 0 /\ Life["rag"] \in Nat /\ Life["rag"] > 0
        BY BoundFacts, TwoKeys
      <4> QED
        BY <1>3, <4>1, <4>2, <4>3
    <3>2. CASE ~(op[c] = "rag" /\ asked[c] \in {"completing", "storing"})
      <4>1. Extra(op[c], asked[c]) = 0
        BY <3>2 DEF Extra
      <4>2. Patience <= I!Bound(op[c]) /\ I!Bound(op[c]) <= MaxAge /\ I!Bound(op[c]) \in Nat
        BY <1>1, BoundFacts
      <4> QED
        BY <1>3, <4>1, <4>2
    <3> QED
      BY <3>1, <3>2
  <2>4. value[c].age + 1 <= MaxAge /\ value[c].age + 1 <= spent'[c] + Extra(op[c], asked[c])
    BY <1>3, <2>1, <2>2, <2>3
  <2>5. /\ value'[c] \in I!Value /\ value'[c].by = value[c].by
        /\ value'[c].version = value[c].version
        /\ value'[c].age <= spent'[c] + Extra(op[c], asked[c])
    <3>1. CASE value[c] # I!Nothing
      <4>1. value'[c] = I!Older(value[c])
        BY <1>2, <1>5, <3>1
      <4> QED
        BY <1>1, <1>3, <2>4, <4>1, Aged
    <3>2. CASE value[c] = I!Nothing
      BY <1>1, <1>2, <1>3, <2>1, <2>2, <2>3, <3>2
    <3> QED
      BY <3>1, <3>2
  <2>6. CallFits(op[c], asked[c], spent'[c], value'[c])
    BY <1>1, <2>2, <2>5 DEF CallFits
  <2> QED
    BY <2>1, <2>5, <2>6
<1> QED
  BY <1>4, <1>5

\* And so is an entry, whose life is a tick shorter.
LEMMA EntryTicks ==
  ASSUME I!InsightsAssumption, InsightInv, I!Tick, NEW k \in I!Keys, kept'[k] # Absent
  PROVE  kept'[k] \in Entries /\ EntryFits(k, kept'[k])
<1> DEFINE e == kept[k]
<1>1. /\ e # Absent /\ e.left > 1 /\ kept'[k] = [value |-> I!Older(e.value), left |-> e.left - 1]
  BY DEF I!Tick, I!Live
<1>2. e \in Entries /\ EntryFits(k, e)
  BY <1>1, InsightTyped
<1> HIDE DEF e
<1>3. e.value \in I!Value /\ e.left \in Nat /\ e.value.age \in Nat
  BY <1>2 DEF Entries, I!Value
<1>4. /\ e.value.age + e.left <=
           Patience + Life[k] + (IF k = "rag" THEN Patience + Life["search"] - 1 ELSE 0)
      /\ e.value.by \in I!Operations /\ I!KeyOf(e.value.by) = k
  BY <1>2 DEF EntryFits
<1>5. Patience \in Nat /\ MaxAge \in Nat /\ Life[k] \in Nat /\ Life["search"] \in Nat
      /\ Life["rag"] \in Nat
  BY BoundFacts, TwoKeys
<1>6. e.value.age + 1 <= MaxAge
  <2> DEFINE o == e.value.by
  <2>1. o \notin I!Uncached /\ (k = "rag" <=> o = "rag")
    BY <1>4, KeyFacts
  <2>2. I!Bound(o) \in Nat /\ I!Bound(o) <= MaxAge
    BY <1>4, BoundFacts
  <2>3. CASE o = "rag"
    <3>1. I!Bound(o) = 2 * Patience + Life["search"] + Life["rag"] - 2
      BY <2>3, BoundFacts
    <3>2. e.value.age + e.left <= Patience + Life["rag"] + (Patience + Life["search"] - 1)
      BY <1>4, <2>1, <2>3
    <3> QED
      BY <1>1, <1>3, <1>5, <2>2, <3>1, <3>2
  <2>4. CASE o # "rag"
    <3>1. I!Bound(o) = Patience + Life[k] - 1
      BY <1>4, <2>1, <2>4, BoundFacts
    <3>2. e.value.age + e.left <= Patience + Life[k] + 0
      BY <1>4, <2>1, <2>4
    <3> QED
      BY <1>1, <1>3, <1>5, <2>2, <3>1, <3>2
  <2> QED
    BY <2>3, <2>4
<1>7. I!Older(e.value) \in I!Value /\ I!Older(e.value).by = e.value.by
      /\ I!Older(e.value).age = e.value.age + 1
  BY <1>3, <1>5, <1>6, Aged
<1> DEFINE w == I!Older(e.value)
<1> HIDE DEF w
<1>8. e.left - 1 \in Nat \ {0} /\ w.age + (e.left - 1) = e.value.age + e.left
  BY <1>1, <1>3, <1>7 DEF w
<1>9. [value |-> w, left |-> e.left - 1] \in Entries
  BY <1>7, <1>8 DEF Entries, w
<1>10. EntryFits(k, [value |-> w, left |-> e.left - 1])
  BY <1>4, <1>7, <1>8 DEF EntryFits, w
<1> QED
  BY <1>1, <1>9, <1>10 DEF w, e

LEMMA TickStep ==
  ASSUME I!InsightsAssumption, InsightInv, I!Tick
  PROVE  InsightInv'
<1>1. UNCHANGED <<op, asked, recorded, version, score, writes, overlapped>>
  BY DEF I!Tick
<1>2. /\ spent' = [c \in Questions |-> spent'[c]] /\ value' = [c \in Questions |-> value'[c]]
      /\ kept' = [k \in I!Keys |-> kept'[k]]
  BY DEF I!Tick
<1>3. spent' \in [Questions -> 0..Patience] /\ value' \in [Questions -> I!Value]
  BY <1>2, CallTicks
<1>4. \A c \in Questions : CallFits(op'[c], asked'[c], spent'[c], value'[c])
  BY <1>1, CallTicks
<1>5. kept' \in [I!Keys -> Entries \cup {Absent}]
  <2>1. \A k \in I!Keys : kept'[k] \in Entries \cup {Absent}
    BY EntryTicks
  <2> QED
    BY <1>2, <2>1
<1>6. \A k \in I!Keys : kept'[k] # Absent => EntryFits(k, kept'[k])
  BY EntryTicks
<1>7. writes \subseteq Questions /\ overlapped \in BOOLEAN /\ ScoresAreLast
  BY DEF InsightInv, I!TypeOK
<1>8. ScoresAreLast'
  <2>1. \A c \in writes : /\ asked'[c] \in {"storing", "answered", "failed"}
                          /\ value'[c].version = value[c].version
    BY <1>1, <1>7, CallTicks DEF ScoresAreLast
  <2> QED
    BY <1>1, <1>7, <2>1, ScoresKept
<1>9. asked' \in [Questions -> I!Stages \cup I!Done]
  BY <1>1, InsightTyped
<1> QED
  BY <1>1, <1>3, <1>4, <1>5, <1>6, <1>8, <1>9, InsightParts DEF InsightInv, I!TypeOK

LEMMA InsightsRest ==
  ASSUME I!InsightsAssumption, InsightInv, I!Record \/ UNCHANGED I!vars
  PROVE  InsightInv'
<1>1. UNCHANGED <<op, asked, spent, value, kept, version, score, writes, overlapped>>
      /\ recorded' \in BOOLEAN
  BY DEF I!Record, I!vars, InsightInv, I!TypeOK
<1>2. ScoresAreLast'
  BY <1>1 DEF InsightInv, ScoresAreLast, I!Scoring
<1> QED
  BY <1>1, <1>2 DEF InsightInv, I!TypeOK

LEMMA InsightInvInit ==
  ASSUME I!InsightsAssumption, I!Init
  PROVE  InsightInv
<1>1. /\ op \in Mixes /\ op \in [Questions -> I!Operations]
      /\ asked = [c \in Questions |-> IF op[c] = "recompute" THEN "waiting" ELSE "new"]
      /\ spent = [c \in Questions |-> 0] /\ value = [c \in Questions |-> I!Nothing]
      /\ kept = [k \in I!Keys |-> Absent]
      /\ recorded = FALSE /\ version = 0 /\ score = 0 /\ writes = {} /\ overlapped = FALSE
  BY DEF I!Init, I!InsightsAssumption
<1>2. Patience \in Nat /\ MaxAge \in Nat /\ MaxVersion \in Nat
  BY BoundFacts
<1>3. I!Nothing \in I!Value
  BY <1>2 DEF I!Nothing, I!Value
<1>4. I!TypeOK
  <2>1. asked \in [Questions -> I!Stages \cup I!Done]
    BY <1>1 DEF I!Stages
  <2>2. spent \in [Questions -> 0..Patience] /\ value \in [Questions -> I!Value]
    BY <1>1, <1>2, <1>3
  <2>3. kept \in [I!Keys -> [value : I!Value, left : Nat \ {0}] \cup {Absent}]
    BY <1>1
  <2>4. version \in 0..MaxVersion /\ score \in 0..MaxVersion
    BY <1>1, <1>2
  <2>5. recorded \in BOOLEAN /\ overlapped \in BOOLEAN /\ writes \subseteq Questions
    BY <1>1
  <2> QED
    BY <1>1, <2>1, <2>2, <2>3, <2>4, <2>5 DEF I!TypeOK
<1>5. ASSUME NEW c \in Questions PROVE CallFits(op[c], asked[c], spent[c], value[c])
  <2>1. /\ asked[c] \in {"waiting", "new"} /\ (asked[c] = "waiting" => op[c] = "recompute")
        /\ value[c] = I!Nothing
    BY <1>1
  <2> QED
    BY <2>1 DEF CallFits
<1>6. ScoresAreLast
  BY <1>1 DEF ScoresAreLast
<1>7. \A k \in I!Keys : kept[k] = Absent
  BY <1>1
<1> QED
  BY <1>4, <1>5, <1>6, <1>7 DEF InsightInv

LEMMA InsightInvNext ==
  ASSUME I!InsightsAssumption, InsightInv, [I!Next]_I!vars
  PROVE  InsightInv'
<1>1. CASE UNCHANGED I!vars \/ I!Record
  BY <1>1, InsightsRest
<1>2. CASE I!Tick
  BY <1>2, TickStep
<1>3. ASSUME NEW c \in Questions,
             \/ I!UpdateLead(c) \/ I!Lookup(c) \/ I!Miss(c) \/ I!SearchCached(c) \/ I!Embed(c)
             \/ I!Read(c) \/ I!Keep(c) \/ I!Complete(c) \/ I!Store(c) \/ I!Fail(c)
             \/ I!PersistScore(c)
      PROVE  InsightInv'
  BY <1>3, UpdateStep, LookupStep, MissStep, SearchStep, ReadStep, KeepStep, CompleteStep,
     StoreStep, FailStep, PersistStep
<1> QED
  BY <1>1, <1>2, <1>3 DEF I!Next

\* The types of Insights; what a call holds is as old as its ticks and the caches it went
\* through explain; an entry's age and what is left of its life add up; and a score to be
\* written is the last one, unless scorings overlapped.
THEOREM InsightInvariant == I!Spec => []InsightInv
<1>1. I!Init => InsightInv
  BY InsightInvInit, DeskAssumption
<1>2. InsightInv /\ [I!Next]_I!vars => InsightInv'
  BY InsightInvNext, DeskAssumption
<1> QED
  BY <1>1, <1>2, PTL DEF I!Spec

LEMMA InsightFacts ==
  ASSUME InsightInv
  PROVE  I!TypeOK /\ I!RecentEnough /\ I!AnswersInKind /\ I!ScoreFollowsUpdates
<1>1. I!TypeOK /\ ScoresAreLast
  BY DEF InsightInv
<1>2. I!RecentEnough /\ I!AnswersInKind
  BY DEF InsightInv, CallFits, InKind, I!RecentEnough, I!AnswersInKind
<1>3. I!ScoreFollowsUpdates
  <2>1. SUFFICES ASSUME writes = {}, ~overlapped,
                        \A c \in Questions : I!Scoring(c) => ~I!UnderWay(c)
                 PROVE  score = version
    BY DEF I!ScoreFollowsUpdates
  <2>2. \A c \in Questions : I!Scoring(c) => asked[c] # "reading"
    BY <2>1 DEF I!UnderWay, I!Stages
  <2> QED
    BY <1>1, <2>1, <2>2 DEF ScoresAreLast
<1> QED
  BY <1>1, <1>2, <1>3

\* No answer of the AI services or the dashboard is from data older than the lives of the
\* cache entries and the lengths of the calls that it went through add up to.
THEOREM AnswersAreRecent == I!Spec => []I!RecentEnough
<1>1. InsightInv => I!RecentEnough
  BY InsightFacts
<1> QED
  BY <1>1, InsightInvariant, PTL

\* An answer out of a shared cache has the shape the caller expects, but for the two
\* summaries of a contact and the two scorings, which do for each other.
THEOREM AnswersFitTheirCalls == I!Spec => []I!AnswersInKind
<1>1. InsightInv => I!AnswersInKind
  BY InsightFacts
<1> QED
  BY <1>1, InsightInvariant, PTL

\* Once every scoring is over and every write is through, the score of a lead is the one
\* of its last update, unless scorings overlapped or one was lost.
THEOREM ScoresFollow == I!Spec => []I!ScoreFollowsUpdates
<1>1. InsightInv => I!ScoreFollowsUpdates
  BY InsightFacts
<1> QED
  BY <1>1, InsightInvariant, PTL

-----------------------------------------------------------------------------

FewDefaults == \A p, q \in default : p = q

\* What excuses a tenant without a default pipeline: a call that failed, or an update
\* that took the flag away.
Excused == \E c \in P!FlagCalls : step[c] = "failed" \/ (c \in Plain /\ step[c] = "done")

OldUnset == \A c \in P!FlagCalls : step[c] \in {"none", "look"} => old[c] = {}

\* What a call that is alone has found, at each of its steps.
AloneStep(c) ==
  /\ step[c] # "cleared" \/ c \in Plain => (default = {} => Excused)
  /\ step[c] = "found" /\ c \in Setters =>
       c \notin Plain /\ old[c] = default /\ ~P!Gone(PipeOf[c])
  /\ step[c] = "found" /\ c \in Deleters => DeletedBy[c] \in pipes \ default
  /\ step[c] = "cleared" =>
       c \in Setters /\ ~P!Gone(PipeOf[c]) /\ (c \notin Plain => default = {})
Alone ==
  ~raced =>
    /\ FewDefaults
    /\ \A c, d \in P!Busy : c = d
    /\ P!Busy = {} => (default = {} => Excused)
    /\ \A c \in P!Busy : AloneStep(c)

FlagSteps == {"none", "look", "found", "cleared", "done", "refused", "failed"}
Ended == {"done", "refused", "failed"}

FlagTypes ==
  /\ default \subseteq pipes /\ pipes \subseteq Pipes
  /\ step \in [P!FlagCalls -> FlagSteps]
  /\ old \in [P!FlagCalls -> SUBSET Pipes] /\ raced \in BOOLEAN

RowTypes ==
  /\ standing \in [PipelineStages -> {"planned", "there", "deleted"}]
  /\ position \in [PipelineStages -> Nat] /\ placedBy \in [PipelineStages -> Reorders \cup {Unlocked}]
  /\ written \in [Reorders -> Nat] /\ \A r \in Reorders : written[r] <= Len(ListOf[r])
  /\ draft \in [Reorders -> [PipelineStages -> Nat]]
  /\ lock \in [PipelineStages -> Reorders \cup {Unlocked}]
  /\ order \in [Reorders -> {"none", "open", "committed", "aborted"}]

\* What a transaction has written so far: the last place so far of each stage.
DraftsFollow ==
  \A r \in Reorders : \A i \in 1 .. written[r] :
    LET s == ListOf[r][i]
    IN /\ draft[r][s] + 1 \in 1 .. written[r] /\ ListOf[r][draft[r][s] + 1] = s
       /\ i <= draft[r][s] + 1

RowInv == RowTypes /\ DraftsFollow /\ P!OrderIsOneCalls

PipelineInv == FlagTypes /\ OldUnset /\ Alone /\ RowInv

-----------------------------------------------------------------------------

\* Pipelines counts its default pipelines, and measures its lists, as this module does.
LEMMA SameCount == \A rows : P!Cardinality(rows) = Cardinality(rows)
  BY DEF P!Cardinality, Cardinality

\* A list of stages, place by place.
LEMMA ListsAre ==
  ASSUME P!PipelinesAssumption, NEW r \in Reorders
  PROVE  /\ Len(ListOf[r]) \in Nat /\ DOMAIN ListOf[r] = 1 .. Len(ListOf[r])
         /\ \A i \in 1 .. Len(ListOf[r]) : ListOf[r][i] \in PipelineStages
         /\ P!Listed(r) = {ListOf[r][i] : i \in 1 .. Len(ListOf[r])}
<1>1. ListOf[r] \in Seq(PipelineStages)
  BY DEF P!PipelinesAssumption
<1> QED
  BY <1>1 DEF P!Listed

\* A call that takes a step is under way until it ends, and excuses no less than before.
LEMMA StepTaken ==
  ASSUME FlagTypes, NEW c \in P!FlagCalls, NEW s \in FlagSteps \ {"none"}, P!Steps(c, s),
         step[c] \notin Ended
  PROVE  /\ step' \in [P!FlagCalls -> FlagSteps]
         /\ step'[c] = s /\ \A d \in P!FlagCalls \ {c} : step'[d] = step[d]
         /\ P!Busy' = IF s \in Ended THEN P!Busy \ {c} ELSE P!Busy \cup {c}
         /\ Excused => Excused'
<1>1. /\ step' \in [P!FlagCalls -> FlagSteps]
      /\ step'[c] = s /\ \A d \in P!FlagCalls \ {c} : step'[d] = step[d]
  BY DEF FlagTypes, P!Steps
<1>2. P!Busy' = {d \in P!FlagCalls : step'[d] \in {"look", "found", "cleared"}}
  BY DEF P!Busy
<1>3. P!Busy' = IF s \in Ended THEN P!Busy \ {c} ELSE P!Busy \cup {c}
  BY <1>1, <1>2 DEF P!Busy, FlagSteps, Ended
<1>4. Excused => Excused'
  BY <1>1 DEF Excused, Ended
<1> QED
  BY <1>1, <1>3, <1>4

\* What is left to show when a call under way takes a step.
LEMMA AloneAfter ==
  ASSUME FlagTypes, Alone, NEW c \in P!Busy, NEW s \in FlagSteps \ {"none"},
         P!Steps(c, s), raced' = raced,
         ~raced => /\ FewDefaults'
                   /\ IF s \in Ended THEN default' = {} => Excused' ELSE AloneStep(c)'
  PROVE  Alone'
<1>1. SUFFICES ASSUME ~raced'
               PROVE  /\ FewDefaults' /\ \A d, e \in P!Busy' : d = e
                      /\ P!Busy' = {} => (default' = {} => Excused')
                      /\ \A d \in P!Busy' : AloneStep(d)'
  BY DEF Alone
<1>2. ~raced /\ P!Busy = {c} /\ c \in P!FlagCalls /\ step[c] \notin Ended
  BY <1>1 DEF Alone, P!Busy, Ended
<1>3. P!Busy' = IF s \in Ended THEN P!Busy \ {c} ELSE P!Busy \cup {c}
  BY <1>2, StepTaken
<1> QED
  BY <1>2, <1>3

\* What one call of its own finds and leaves.
LEMMA FlagStep ==
  ASSUME P!PipelinesAssumption, FlagTypes, OldUnset, Alone, NEW c \in P!FlagCalls,
         \/ P!Begin(c) \/ P!LeaveDefault(c) \/ P!FindDefault(c) \/ P!ClearFlag(c) \/ P!SetFlag(c)
         \/ P!LookBeforeDelete(c) \/ P!DeletePipeline(c) \/ P!FlagCallFails(c)
  PROVE  FlagTypes' /\ OldUnset' /\ Alone'
<1>a. ASSUME step[c] \in {"look", "found", "cleared"} PROVE c \in P!Busy /\ step[c] \notin Ended
  BY <1>a DEF P!Busy, Ended
<1>b. ASSUME c \in P!Busy, ~raced PROVE AloneStep(c) /\ P!Busy = {c} /\ FewDefaults
  BY <1>b DEF Alone
<1>c. Setters \cap Deleters = {} /\ P!FlagCalls = Setters \cup Deleters /\ Plain \subseteq Setters
  BY DEF P!PipelinesAssumption, P!FlagCalls
<1>1. CASE P!Begin(c)
  <2>1. /\ P!Steps(c, "look") /\ raced' = (raced \/ P!Busy # {}) /\ step[c] = "none"
        /\ UNCHANGED <<pipes, default, old>>
    BY <1>1 DEF P!Begin
  <2>2. /\ step' \in [P!FlagCalls -> FlagSteps]
        /\ step'[c] = "look" /\ \A d \in P!FlagCalls \ {c} : step'[d] = step[d]
        /\ P!Busy' = P!Busy \cup {c} /\ (Excused => Excused')
    BY <2>1, StepTaken DEF FlagSteps, Ended
  <2>3. FlagTypes' /\ OldUnset'
    BY <2>1, <2>2 DEF FlagTypes, OldUnset
  <2>4. ASSUME ~raced' PROVE P!Busy' = {c} /\ AloneStep(c)' /\ FewDefaults'
    <3>1. P!Busy = {} /\ (default = {} => Excused) /\ FewDefaults
      BY <2>1, <2>4 DEF Alone, FlagTypes
    <3> QED
      BY <2>1, <2>2, <3>1 DEF AloneStep, FewDefaults
  <2>5. Alone'
    BY <2>4 DEF Alone
  <2> QED
    BY <2>3, <2>5
<1>8. CASE P!LeaveDefault(c)
  <2> DEFINE s == IF P!Gone(PipeOf[c]) THEN "refused" ELSE "cleared"
  <2>1. /\ c \in Plain /\ step[c] = "look" /\ P!Steps(c, s)
        /\ UNCHANGED <<pipes, default, old, raced>>
    BY <1>8 DEF P!LeaveDefault
  <2>2. /\ step' \in [P!FlagCalls -> FlagSteps]
        /\ step'[c] = s /\ \A d \in P!FlagCalls \ {c} : step'[d] = step[d]
        /\ (Excused => Excused')
    BY <1>a, <2>1, StepTaken DEF FlagSteps
  <2>3. FlagTypes' /\ OldUnset'
    BY <2>1, <2>2 DEF FlagTypes, OldUnset
  <2>4. ASSUME ~raced PROVE FewDefaults' /\ (default' = {} => Excused')
    BY <1>a, <1>b, <2>1, <2>2, <2>4 DEF AloneStep, FewDefaults
  <2>5. ASSUME ~raced, s = "cleared" PROVE AloneStep(c)'
    <3>1. ~P!Gone(PipeOf[c])'
      BY <1>c, <2>1, <2>2, <2>5 DEF P!Gone
    <3> QED
      BY <1>c, <2>1, <2>2, <2>4, <2>5, <3>1 DEF AloneStep
  <2>6. Alone'
    BY <1>a, <2>1, <2>4, <2>5, AloneAfter DEF Ended, FlagSteps
  <2> QED
    BY <2>3, <2>6
<1>2. CASE P!FindDefault(c)
  <2> DEFINE s == IF P!Gone(PipeOf[c]) THEN "refused" ELSE "found"
  <2>1. /\ c \in Setters \ Plain /\ step[c] = "look" /\ P!Steps(c, s)
        /\ IF default = {} THEN UNCHANGED old
           ELSE \E p \in default : old' = [old EXCEPT ![c] = {p}]
        /\ UNCHANGED <<pipes, default, raced>>
    BY <1>2 DEF P!FindDefault
  <2>2. /\ step' \in [P!FlagCalls -> FlagSteps]
        /\ step'[c] = s /\ \A d \in P!FlagCalls \ {c} : step'[d] = step[d]
        /\ (Excused => Excused')
    BY <1>a, <2>1, StepTaken DEF FlagSteps
  <2>3. old' \in [P!FlagCalls -> SUBSET Pipes] /\ \A d \in P!FlagCalls \ {c} : old'[d] = old[d]
    BY <2>1 DEF FlagTypes
  <2>4. FlagTypes' /\ OldUnset'
    BY <2>1, <2>2, <2>3 DEF FlagTypes, OldUnset
  <2>5. ASSUME ~raced PROVE FewDefaults /\ FewDefaults' /\ (default' = {} => Excused')
    BY <1>a, <1>b, <2>1, <2>2, <2>5 DEF AloneStep, FewDefaults
  <2>6. ASSUME ~raced, s = "found" PROVE AloneStep(c)'
    <3>1. old'[c] = default'
      <4>1. CASE default = {}
        BY <2>1, <4>1 DEF OldUnset
      <4>2. CASE default # {}
        <5>1. PICK p \in default : old' = [old EXCEPT ![c] = {p}]
          BY <2>1, <4>2
        <5>2. default = {p}
          BY <2>5, <2>6 DEF FewDefaults
        <5> QED
          BY <2>1, <5>1, <5>2 DEF FlagTypes
      <4> QED
        BY <4>1, <4>2
    <3>2. ~P!Gone(PipeOf[c])'
      BY <1>c, <2>1, <2>2, <2>6 DEF P!Gone
    <3> QED
      BY <1>c, <2>1, <2>2, <2>5, <2>6, <3>1, <3>2 DEF AloneStep
  <2>7. Alone'
    BY <1>a, <2>1, <2>5, <2>6, AloneAfter DEF Ended, FlagSteps
  <2> QED
    BY <2>4, <2>7
<1>3. CASE P!ClearFlag(c)
  <2> DEFINE s == IF old[c] \subseteq pipes THEN "cleared" ELSE "refused"
  <2>1. /\ c \in Setters /\ step[c] = "found" /\ P!Steps(c, s)
        /\ default' = IF old[c] \subseteq pipes THEN default \ old[c] ELSE default
        /\ UNCHANGED <<pipes, old, raced>>
    BY <1>3 DEF P!ClearFlag
  <2>2. /\ step' \in [P!FlagCalls -> FlagSteps]
        /\ step'[c] = s /\ \A d \in P!FlagCalls \ {c} : step'[d] = step[d]
        /\ (Excused => Excused')
    BY <1>a, <2>1, StepTaken DEF FlagSteps
  <2>3. FlagTypes' /\ OldUnset'
    BY <2>1, <2>2 DEF FlagTypes, OldUnset
  <2>4. ASSUME ~raced PROVE s = "cleared" /\ AloneStep(c)' /\ FewDefaults'
    <3>1. old[c] = default /\ ~P!Gone(PipeOf[c]) /\ (default = {} => Excused)
      BY <1>a, <1>b, <2>1, <2>4 DEF AloneStep
    <3>2. s = "cleared" /\ default' = {}
      BY <2>1, <3>1 DEF FlagTypes
    <3>3. ~P!Gone(PipeOf[c])'
      BY <1>c, <2>1, <2>2, <3>1 DEF P!Gone
    <3>4. c \notin Plain
      BY <1>a, <1>b, <2>1, <2>4 DEF AloneStep
    <3> QED
      BY <2>1, <2>2, <3>2, <3>3, <3>4 DEF AloneStep, FewDefaults
  <2>5. Alone'
    BY <1>a, <2>1, <2>4, AloneAfter DEF Ended, FlagSteps
  <2> QED
    BY <2>3, <2>5
<1>4. CASE P!SetFlag(c)
  <2> DEFINE s == IF P!Gone(PipeOf[c]) THEN "refused" ELSE "done"
  <2>1. /\ c \in Setters /\ step[c] = "cleared" /\ P!Steps(c, s)
        /\ IF P!Gone(PipeOf[c]) THEN UNCHANGED <<pipes, default>>
           ELSE /\ pipes' = pipes \cup {PipeOf[c]}
                /\ default' = IF c \in Plain THEN default \ {PipeOf[c]} ELSE default \cup {PipeOf[c]}
        /\ UNCHANGED <<old, raced>>
    BY <1>4 DEF P!SetFlag
  <2>2. /\ step' \in [P!FlagCalls -> FlagSteps]
        /\ step'[c] = s /\ \A d \in P!FlagCalls \ {c} : step'[d] = step[d]
    BY <1>a, <2>1, StepTaken DEF FlagSteps
  <2>3. PipeOf[c] \in Pipes
    BY <2>1 DEF P!PipelinesAssumption
  <2>4. FlagTypes' /\ OldUnset'
    BY <2>1, <2>2, <2>3 DEF FlagTypes, OldUnset
  <2>5. ASSUME ~raced PROVE FewDefaults' /\ (default' = {} => Excused')
    <3>1. ~P!Gone(PipeOf[c]) /\ (c \notin Plain => default = {}) /\ FewDefaults
      BY <1>a, <1>b, <2>1, <2>5 DEF AloneStep
    <3>2. CASE c \in Plain
      BY <2>1, <2>2, <3>1, <3>2 DEF FewDefaults, Excused
    <3>3. CASE c \notin Plain
      BY <2>1, <3>1, <3>3 DEF FewDefaults
    <3> QED
      BY <3>2, <3>3
  <2>6. Alone'
    BY <1>a, <2>1, <2>5, AloneAfter DEF Ended, FlagSteps
  <2> QED
    BY <2>4, <2>6
<1>5. CASE P!LookBeforeDelete(c)
  <2> DEFINE s == IF DeletedBy[c] \in pipes \ default THEN "found" ELSE "refused"
  <2>1. /\ c \in Deleters /\ step[c] = "look" /\ P!Steps(c, s)
        /\ UNCHANGED <<pipes, default, old, raced>>
    BY <1>5 DEF P!LookBeforeDelete
  <2>2. /\ step' \in [P!FlagCalls -> FlagSteps]
        /\ step'[c] = s /\ \A d \in P!FlagCalls \ {c} : step'[d] = step[d]
        /\ (Excused => Excused')
    BY <1>a, <2>1, StepTaken DEF FlagSteps
  <2>3. FlagTypes' /\ OldUnset'
    BY <2>1, <2>2 DEF FlagTypes, OldUnset
  <2>4. ASSUME ~raced PROVE FewDefaults' /\ (default' = {} => Excused')
    BY <1>a, <1>b, <2>1, <2>2, <2>4 DEF AloneStep, FewDefaults
  <2>5. ASSUME ~raced, s = "found" PROVE AloneStep(c)'
    BY <1>c, <2>1, <2>2, <2>4, <2>5 DEF AloneStep
  <2>6. Alone'
    BY <1>a, <2>1, <2>4, <2>5, AloneAfter DEF Ended, FlagSteps
  <2> QED
    BY <2>3, <2>6
<1>6. CASE P!DeletePipeline(c)
  <2>1. /\ c \in Deleters /\ step[c] = "found" /\ P!Steps(c, "done")
        /\ pipes' = pipes \ {DeletedBy[c]} /\ default' = default \ {DeletedBy[c]}
        /\ UNCHANGED <<old, raced>>
    BY <1>6 DEF P!DeletePipeline
  <2>2. /\ step' \in [P!FlagCalls -> FlagSteps]
        /\ step'[c] = "done" /\ \A d \in P!FlagCalls \ {c} : step'[d] = step[d]
        /\ (Excused => Excused')
    BY <1>a, <2>1, StepTaken DEF FlagSteps
  <2>3. FlagTypes' /\ OldUnset'
    BY <2>1, <2>2 DEF FlagTypes, OldUnset
  <2>4. ASSUME ~raced PROVE FewDefaults' /\ (default' = {} => Excused')
    <3>1. FewDefaults /\ DeletedBy[c] \notin default /\ (default = {} => Excused)
      BY <1>a, <1>b, <2>1, <2>4 DEF AloneStep
    <3> QED
      BY <2>1, <2>2, <3>1 DEF FewDefaults
  <2>5. Alone'
    BY <1>a, <2>1, <2>4, AloneAfter DEF Ended, FlagSteps
  <2> QED
    BY <2>3, <2>5
<1>7. CASE P!FlagCallFails(c)
  <2>1. /\ c \in P!Busy /\ P!Steps(c, "failed") /\ UNCHANGED <<pipes, default, old, raced>>
    BY <1>7 DEF P!FlagCallFails
  <2>2. /\ step' \in [P!FlagCalls -> FlagSteps]
        /\ step'[c] = "failed" /\ \A d \in P!FlagCalls \ {c} : step'[d] = step[d]
    BY <2>1, StepTaken DEF FlagSteps, P!Busy, Ended
  <2>3. FlagTypes' /\ OldUnset'
    BY <2>1, <2>2 DEF FlagTypes, OldUnset
  <2>4. ASSUME ~raced PROVE FewDefaults' /\ Excused'
    BY <1>b, <2>1, <2>2, <2>4 DEF FewDefaults, Excused
  <2>5. Alone'
    BY <2>1, <2>4, AloneAfter DEF Ended, FlagSteps
  <2> QED
    BY <2>3, <2>5
<1> QED
  BY <1>1, <1>2, <1>3, <1>4, <1>5, <1>6, <1>7, <1>8

\* Calls of createStage, updateStage and deleteStage.
LEMMA StageStep ==
  ASSUME P!PipelinesAssumption, RowInv, NEW s \in PipelineStages,
         P!DeleteStage(s) \/ \E i \in 0 .. MaxPlace : P!PlaceStage(s, i)
  PROVE  RowInv'
<1>1. PICK i \in Nat, to \in {"there", "deleted"} :
        /\ standing' = [standing EXCEPT ![s] = to] /\ position' = [position EXCEPT ![s] = i]
        /\ placedBy' = [placedBy EXCEPT ![s] = Unlocked] /\ UNCHANGED <<written, draft, lock, order>>
  BY DEF P!DeleteStage, P!PlaceStage, P!PipelinesAssumption
<1>2. RowTypes'
  BY <1>1 DEF RowInv, RowTypes
<1>3. DraftsFollow'
  BY <1>1 DEF RowInv, DraftsFollow
<1>4. \A t \in PipelineStages, r \in Reorders :
        placedBy'[t] = r => placedBy[t] = r /\ position'[t] = position[t]
  BY <1>1 DEF RowInv, RowTypes, P!PipelinesAssumption
<1>5. P!OrderIsOneCalls'
  BY <1>1, <1>4, ListsAre DEF RowInv, P!OrderIsOneCalls, P!IsPlaceIn
<1> QED
  BY <1>2, <1>3, <1>5 DEF RowInv

\* The transactions on the rows of the stages.
LEMMA RowStep ==
  ASSUME P!PipelinesAssumption, RowInv, NEW r \in Reorders,
         P!Open(r) \/ P!UpdateRow(r) \/ P!CommitOrder(r) \/ P!Abort(r)
  PROVE  RowInv'
<1>0. /\ RowTypes /\ DraftsFollow /\ P!OrderIsOneCalls
      /\ Len(ListOf[r]) \in Nat /\ DOMAIN ListOf[r] = 1 .. Len(ListOf[r])
      /\ \A i \in 1 .. Len(ListOf[r]) : ListOf[r][i] \in PipelineStages
      /\ P!Listed(r) = {ListOf[r][i] : i \in 1 .. Len(ListOf[r])}
  BY ListsAre DEF RowInv
<1>1. CASE P!Open(r)
  <2>1. /\ order[r] = "none" /\ UNCHANGED <<standing, position, placedBy, written, draft, lock>>
        /\ order' \in [Reorders -> {"none", "open", "committed", "aborted"}]
        /\ \A q \in Reorders \ {r} : order'[q] = order[q]
    BY <1>0, <1>1 DEF P!Open, RowTypes
  <2> QED
    BY <1>0, <2>1 DEF RowInv, RowTypes, DraftsFollow, P!OrderIsOneCalls, P!IsPlaceIn
<1>2. CASE P!UpdateRow(r)
  <2> DEFINE n == written[r]
             next == ListOf[r][n + 1]
  <2>1. n \in Nat /\ n < Len(ListOf[r]) /\ n + 1 \in 1 .. Len(ListOf[r])
    BY <1>0, <1>2 DEF P!UpdateRow, RowTypes
  <2>2. next \in PipelineStages
    BY <1>0, <2>1
  <2>3. /\ written' = [written EXCEPT ![r] = n + 1] /\ draft' = [draft EXCEPT ![r][next] = n]
        /\ lock' = [lock EXCEPT ![next] = r] /\ UNCHANGED <<standing, position, placedBy, order>>
    BY <1>2 DEF P!UpdateRow, P!NextRow
  <2>4. /\ draft' \in [Reorders -> [PipelineStages -> Nat]] /\ draft'[r][next] = n
        /\ \A s \in PipelineStages : s # next => draft'[r][s] = draft[r][s]
        /\ \A q \in Reorders \ {r} : draft'[q] = draft[q]
    BY <1>0, <2>1, <2>2, <2>3 DEF RowTypes
  <2>5. /\ written' \in [Reorders -> Nat] /\ written'[r] = n + 1
        /\ \A q \in Reorders \ {r} : written'[q] = written[q]
    BY <1>0, <2>1, <2>3 DEF RowTypes
  <2>6. RowTypes'
    BY <1>0, <2>1, <2>2, <2>3, <2>4, <2>5 DEF RowTypes
  <2>7. DraftsFollow'
    <3> SUFFICES ASSUME NEW q \in Reorders, NEW i \in 1 .. written'[q]
                 PROVE  /\ draft'[q][ListOf[q][i]] + 1 \in 1 .. written'[q]
                        /\ ListOf[q][draft'[q][ListOf[q][i]] + 1] = ListOf[q][i]
                        /\ i <= draft'[q][ListOf[q][i]] + 1
      BY DEF DraftsFollow
    <3>1. CASE q # r
      <4>1. draft'[q] = draft[q] /\ written'[q] = written[q]
        BY <2>4, <2>5, <3>1
      <4> QED
        BY <1>0, <4>1 DEF DraftsFollow
    <3>2. CASE q = r /\ ListOf[r][i] = next
      BY <2>1, <2>4, <2>5, <3>2
    <3>3. CASE q = r /\ ListOf[r][i] # next
      <4>1. i \in 1 .. n /\ ListOf[r][i] \in PipelineStages
        BY <1>0, <2>1, <2>5, <3>3
      <4>2. /\ draft[r][ListOf[r][i]] + 1 \in 1 .. n
            /\ ListOf[r][draft[r][ListOf[r][i]] + 1] = ListOf[r][i] /\ i <= draft[r][ListOf[r][i]] + 1
        BY <1>0, <4>1 DEF DraftsFollow
      <4>3. draft'[r][ListOf[r][i]] = draft[r][ListOf[r][i]]
        BY <2>4, <3>3, <4>1
      <4> HIDE DEF next
      <4> QED
        BY <2>1, <2>5, <3>3, <4>2, <4>3
    <3> QED
      BY <3>1, <3>2, <3>3
  <2>8. P!OrderIsOneCalls'
    BY <1>0, <2>3 DEF P!OrderIsOneCalls, P!IsPlaceIn
  <2> QED
    BY <2>6, <2>7, <2>8 DEF RowInv
<1>3. CASE P!CommitOrder(r)
  <2>1. /\ written[r] = Len(ListOf[r]) /\ order[r] = "open" /\ P!Ends(r, "committed")
        /\ position' = [s \in PipelineStages |-> IF s \in P!Listed(r) THEN draft[r][s] ELSE position[s]]
        /\ placedBy' = [s \in PipelineStages |-> IF s \in P!Listed(r) THEN r ELSE placedBy[s]]
        /\ UNCHANGED <<standing, written, draft>>
    BY <1>3 DEF P!CommitOrder
  <2>2. /\ order' \in [Reorders -> {"none", "open", "committed", "aborted"}] /\ order'[r] = "committed"
        /\ \A q \in Reorders \ {r} : order'[q] = order[q]
        /\ lock' \in [PipelineStages -> Reorders \cup {Unlocked}]
    BY <1>0, <2>1 DEF P!Ends, RowTypes
  <2>3. RowTypes'
    BY <1>0, <2>1, <2>2 DEF RowTypes
  <2>4. DraftsFollow'
    BY <1>0, <2>1 DEF DraftsFollow
  <2>5. ASSUME NEW s \in P!Listed(r) PROVE P!IsPlaceIn(r, s, draft[r][s])
    <3>1. PICK i \in 1 .. written[r] : ListOf[r][i] = s
      BY <1>0, <2>1, <2>5
    <3>2. /\ draft[r][s] + 1 \in 1 .. written[r] /\ ListOf[r][draft[r][s] + 1] = s
          /\ \A j \in 1 .. written[r] : ListOf[r][j] = s => j <= draft[r][s] + 1
      BY <1>0, <3>1 DEF DraftsFollow
    <3> QED
      BY <1>0, <2>1, <3>2 DEF P!IsPlaceIn
  <2>6. ASSUME NEW s \in PipelineStages, NEW q \in Reorders, placedBy'[s] = q
        PROVE  order'[q] = "committed" /\ P!IsPlaceIn(q, s, position'[s])
    <3>1. CASE s \in P!Listed(r)
      BY <2>1, <2>2, <2>5, <2>6, <3>1
    <3>2. CASE s \notin P!Listed(r)
      BY <1>0, <2>1, <2>2, <2>6, <3>2 DEF P!OrderIsOneCalls
    <3> QED
      BY <3>1, <3>2
  <2>7. ASSUME NEW p \in Reorders, NEW q \in Reorders,
               NEW s \in P!Listed(p) \cap P!Listed(q), NEW t \in P!Listed(p) \cap P!Listed(q),
               placedBy'[s] = p, placedBy'[t] = q
        PROVE  p = q
    <3>1. s \in PipelineStages /\ t \in PipelineStages
      BY ListsAre
    <3>2. CASE p = r \/ q = r
      BY <2>1, <2>7, <3>1, <3>2
    <3>3. CASE p # r /\ q # r
      BY <1>0, <2>1, <2>7, <3>1, <3>3 DEF P!OrderIsOneCalls
    <3> QED
      BY <3>2, <3>3
  <2>8. P!OrderIsOneCalls'
    BY <2>6, <2>7 DEF P!OrderIsOneCalls, P!IsPlaceIn, P!Listed
  <2> QED
    BY <2>3, <2>4, <2>8 DEF RowInv
<1>4. CASE P!Abort(r)
  <2>1. /\ order[r] = "open" /\ UNCHANGED <<standing, position, placedBy, written, draft>>
        /\ P!Ends(r, "aborted")
    BY <1>4 DEF P!Abort
  <2>2. /\ order' \in [Reorders -> {"none", "open", "committed", "aborted"}]
        /\ \A q \in Reorders \ {r} : order'[q] = order[q]
        /\ lock' \in [PipelineStages -> Reorders \cup {Unlocked}]
    BY <1>0, <2>1 DEF P!Ends, RowTypes
  <2> QED
    BY <1>0, <2>1, <2>2 DEF RowInv, RowTypes, DraftsFollow, P!OrderIsOneCalls, P!IsPlaceIn
<1> QED
  BY <1>1, <1>2, <1>3, <1>4

\* The flags are no business of the rows, nor the rows of the flags.
LEMMA FlagsKept ==
  ASSUME FlagTypes, OldUnset, Alone, UNCHANGED P!flags
  PROVE  FlagTypes' /\ OldUnset' /\ Alone'
  BY DEF P!flags, FlagTypes, OldUnset, Alone, AloneStep, FewDefaults, Excused, P!Busy, P!Gone

LEMMA RowsKept ==
  ASSUME RowInv, UNCHANGED P!rows
  PROVE  RowInv'
  BY DEF P!rows, RowInv, RowTypes, DraftsFollow, P!OrderIsOneCalls, P!IsPlaceIn, P!Listed

LEMMA PipelineInvInit ==
  ASSUME P!PipelinesAssumption, P!Init
  PROVE  PipelineInv
<1>1. RowTypes
  BY ListsAre DEF P!Init, RowTypes
<1>2. RowInv
  BY <1>1 DEF P!Init, P!PipelinesAssumption, RowInv, RowTypes, DraftsFollow, P!OrderIsOneCalls, P!Listed
<1>3. FlagTypes /\ OldUnset
  BY DEF P!Init, FlagTypes, OldUnset, FlagSteps
<1>4. Alone
  BY DEF P!Init, Alone, P!Busy, FewDefaults
<1> QED
  BY <1>2, <1>3, <1>4 DEF PipelineInv

\* Every step of a call, or of a transaction, and none.
LEMMA PipelineInvNext ==
  ASSUME P!PipelinesAssumption, PipelineInv, [P!Next]_P!vars
  PROVE  PipelineInv'
<1>0. FlagTypes /\ OldUnset /\ Alone /\ RowInv
  BY DEF PipelineInv
<1>1. CASE UNCHANGED P!vars
  BY <1>0, <1>1, FlagsKept, RowsKept DEF P!vars, P!flags, P!rows, PipelineInv
<1>2. CASE P!FlagNext
  <2>1. PICK c \in P!FlagCalls :
          \/ P!Begin(c) \/ P!LeaveDefault(c) \/ P!FindDefault(c) \/ P!ClearFlag(c) \/ P!SetFlag(c)
          \/ P!LookBeforeDelete(c) \/ P!DeletePipeline(c) \/ P!FlagCallFails(c)
    BY <1>2 DEF P!FlagNext
  <2>2. UNCHANGED P!rows
    BY <2>1 DEF P!Begin, P!LeaveDefault, P!FindDefault, P!ClearFlag, P!SetFlag, P!LookBeforeDelete,
                P!DeletePipeline, P!FlagCallFails
  <2> QED
    BY <1>0, <2>1, <2>2, FlagStep, RowsKept DEF PipelineInv
<1>3. CASE P!RowNext
  <2>1. UNCHANGED P!flags
    BY <1>3 DEF P!RowNext, P!DeleteStage, P!PlaceStage, P!Open, P!UpdateRow, P!CommitOrder, P!Abort
  <2>2. RowInv'
    BY <1>0, <1>3, StageStep, RowStep DEF P!RowNext
  <2> QED
    BY <1>0, <2>1, <2>2, FlagsKept DEF PipelineInv
<1> QED
  BY <1>1, <1>2, <1>3 DEF P!Next

\* The types of Pipelines; a call that does not overlap another finds and leaves what it
\* should at each of its steps; and a transaction's positions are those of its list.
THEOREM PipelineInvariant == P!Spec => []PipelineInv
<1>1. P!Init => PipelineInv
  BY PipelineInvInit, DeskAssumption
<1>2. PipelineInv /\ [P!Next]_P!vars => PipelineInv'
  BY PipelineInvNext, DeskAssumption
<1> QED
  BY <1>1, <1>2, PTL DEF P!Spec

LEMMA PipelineFacts ==
  ASSUME P!PipelinesAssumption, PipelineInv
  PROVE  P!TypeOK /\ P!AloneKeepsOneDefault /\ P!OrderIsOneCalls
<1>1. FlagTypes /\ Alone /\ RowInv
  BY DEF PipelineInv
<1>2. ASSUME FewDefaults PROVE P!Cardinality(default) <= 1
  <2>1. CASE default = {}
    BY <2>1, SameCount, FS_EmptySet
  <2>2. ASSUME NEW p \in default PROVE P!Cardinality(default) = 1
    <3>1. default = {p}
      BY <1>2 DEF FewDefaults
    <3> QED
      BY <3>1, SameCount, FS_Singleton
  <2> QED
    BY <2>1, <2>2
<1>3. P!AloneKeepsOneDefault
  BY <1>1, <1>2 DEF Alone, Excused, P!AloneKeepsOneDefault
<1>4. P!TypeOK
  BY <1>1 DEF P!TypeOK, FlagTypes, FlagSteps, RowInv, RowTypes
<1> QED
  BY <1>1, <1>3, <1>4 DEF RowInv

\* Calls of create, update and delete that do not overlap never leave a tenant two default
\* pipelines, and none only if one of them failed or took the flag away.
THEOREM OneDefaultIsKept == P!Spec => []P!AloneKeepsOneDefault
<1>1. PipelineInv => P!AloneKeepsOneDefault
  BY PipelineFacts, DeskAssumption
<1> QED
  BY <1>1, PipelineInvariant, PTL

\* Whatever reorderings run at once and abort, and whatever stages are created, moved and
\* deleted meanwhile, what two reorderings both list is not in a mixture of the two.
THEOREM OrdersAreWhole == P!Spec => []P!OrderIsOneCalls
<1>1. PipelineInv => P!OrderIsOneCalls
  BY PipelineFacts, DeskAssumption
<1> QED
  BY <1>1, PipelineInvariant, PTL

-----------------------------------------------------------------------------

(* Desk.                                                                   *)

\* The parts of Desk that are not at work stutter.
LEMMA DeskPartsInit ==
  DeskInit => /\ S!Init /\ B!Init /\ W!Init /\ L!Init /\ P!Init /\ I!Init /\ T!Init /\ G!Init
  BY DEF DeskInit

LEMMA VarsKept ==
  /\ UNCHANGED sessionVars => UNCHANGED S!vars
  /\ UNCHANGED billingVars => UNCHANGED B!vars
  /\ UNCHANGED walletVars => UNCHANGED W!vars
  /\ UNCHANGED leadVars => UNCHANGED L!vars
  /\ UNCHANGED pipelineVars => UNCHANGED P!vars
  /\ UNCHANGED insightVars => UNCHANGED I!vars
  /\ UNCHANGED teamVars => UNCHANGED T!vars
  /\ UNCHANGED pageVars => UNCHANGED G!vars
  BY DEF sessionVars, billingVars, walletVars, leadVars, pipelineVars, insightVars, teamVars, pageVars,
    S!vars, S!users, S!request, S!ghosts, B!vars, B!outside, B!table, B!history, W!vars, L!vars,
    P!vars, I!vars, T!vars, G!vars

LEMMA DeskPartsStep ==
  [DeskNext]_deskVars =>
    /\ [S!Next]_(S!vars) /\ [B!Next]_(B!vars) /\ [W!Next]_(W!vars) /\ [L!Next]_(L!vars)
    /\ [P!Next]_(P!vars) /\ [I!Next]_(I!vars) /\ [T!Next]_(T!vars) /\ [G!Next]_(G!vars)
<1> SUFFICES ASSUME [DeskNext]_deskVars
    PROVE  /\ [S!Next]_(S!vars) /\ [B!Next]_(B!vars) /\ [W!Next]_(W!vars) /\ [L!Next]_(L!vars)
    /\ [P!Next]_(P!vars) /\ [I!Next]_(I!vars) /\ [T!Next]_(T!vars) /\ [G!Next]_(G!vars)
  OBVIOUS
<1>1. CASE Only("sessions") /\ S!Next
  BY <1>1, VarsKept DEF Only
<1>2. CASE Only("billing") /\ B!Next
  BY <1>2, VarsKept DEF Only
<1>3. CASE Only("wallets") /\ W!Next
  BY <1>3, VarsKept DEF Only
<1>4. CASE Only("leads") /\ L!Next
  BY <1>4, VarsKept DEF Only
<1>5. CASE (Only("pipelines") /\ P!FlagNext) \/ (Only("stages") /\ P!RowNext)
  BY <1>5, VarsKept DEF Only, P!Next
<1>6. CASE Only("insights") /\ I!Next
  BY <1>6, VarsKept DEF Only
<1>7. CASE Only("team") /\ T!Next
  BY <1>7, VarsKept DEF Only
<1>8. CASE Only("pages") /\ G!Next
  BY <1>8, VarsKept DEF Only
<1>9. CASE UNCHANGED deskVars
  BY <1>9, VarsKept DEF deskVars
<1> QED
  BY <1>1, <1>2, <1>3, <1>4, <1>5, <1>6, <1>7, <1>8, <1>9 DEF DeskNext

\* A behaviour of Desk is one of each of its parts.
THEOREM DeskParts ==
  DeskSpec => /\ S!Spec /\ B!Spec /\ W!Spec /\ L!Spec /\ P!Spec /\ I!Spec /\ T!Spec /\ G!Spec
  BY DeskPartsInit, DeskPartsStep, PTL
  DEF DeskSpec, S!Spec, B!Spec, W!Spec, L!Spec, P!Spec, I!Spec, T!Spec, G!Spec

\* What the parts assume of their constants is what Desk assumes.
LEMMA DeskAssumes ==
  /\ S!SessionAssumption /\ W!WalletAssumption /\ L!LeadsAssumption /\ P!PipelinesAssumption
  /\ T!TeamAssumption /\ G!PagesAssumption
  BY DeskAssumption

\* The parts keep their types, for any requests, events, calls and pages.
THEOREM DeskTypeCorrect == DeskSpec => []DeskTypeOK
<1>1. /\ SessionInv /\ BillingInv /\ WalletInv /\ LeadInv /\ PipelineInv /\ InsightInv /\ TeamInv /\ PageInv
      => DeskTypeOK
  BY DeskAssumes, BillingFacts, PipelineFacts, InsightFacts
  DEF SessionInv, WalletInv, LeadInv, TeamInv, PageInv, DeskTypeOK, At
<1> QED
  BY <1>1, DeskParts, DeskAssumes, SessionInvariant, BillingInvariant, WalletInvariant, LeadInvariant,
    PipelineInvariant, InsightInvariant, TeamInvariant, PageInvariant, PTL

\* A login has at most one session that goes back to it, a revoked token whose entry
\* Redis took is not accepted again, and no session outlives a reset.
THEOREM DeskLoggedOutStaysOut == DeskSpec => []LoggedOutStaysOut
<1>1. S!OneLinePerLogin /\ S!RevokedStaysOut /\ S!ResetEndsSessions => LoggedOutStaysOut
  BY DEF LoggedOutStaysOut, At
<1> QED
  BY <1>1, DeskParts, DeskAssumes, OneSuccessor, RevokedForGood, ResetEnds, PTL

\* A login whose sessions are gone gets none again: Desk implements SessionLines.
THEOREM DeskEndedStaysEnded == DeskSpec => EndedStaysEnded
  BY DeskParts, DeskAssumes, EndedStay DEF EndedStaysEnded

\* The plan of a tenant was bought or confirmed, or is Pro for a price of no plan, or is
\* FREE, as it is once the end of its subscriptions is handled.
THEOREM DeskPlanIsPaidFor == DeskSpec => []PlanIsPaidFor
<1>1. B!PlanWasBought /\ B!EndedIsFree => PlanIsPaidFor
  BY DEF PlanIsPaidFor, At
<1> QED
  BY <1>1, DeskParts, DeskAssumes, PlansAreBought, EndsAreFree, PTL

\* A withdrawal is paid once for its key as it was asked, and an answered
\* provisioning has the accounts of its wallet.
THEOREM DeskPaysOnceAsAsked == DeskSpec => []PaidOnceAsAsked
<1>1. W!PaidOnceAsAsked /\ W!SubmittedIsPaid /\ W!UnbookedIsUnfinished => PaidOnceAsAsked
  BY DEF PaidOnceAsAsked, At
<1> QED
  BY <1>1, DeskParts, DeskAssumes, KeysPayOnce, SubmittedArePaid, UnbookedAreUnfinished, PTL

\* A converted lead has its contact, one for each address it was converted with, and its
\* deal; an answered assignment was told, and the status of an answered update announced.
THEOREM DeskConvertsWhole == DeskSpec => []LeadsConvertWhole
<1>1. LeadInv => LeadsConvertWhole
  BY ContactsCount, DeskAssumes DEF LeadInv, LeadsConvertWhole, At
<1> QED
  BY <1>1, DeskParts, DeskAssumes, LeadInvariant, PTL

\* Calls that do not overlap never leave two default pipelines, and none only if one
\* asked for it or failed; stages are never in a mixture of two reorderings.
THEOREM DeskPipelinesInOrder == DeskSpec => []PipelinesInOrder
<1>1. P!AloneKeepsOneDefault /\ P!OrderIsOneCalls => PipelinesInOrder
  BY DEF PipelinesInOrder, At
<1> QED
  BY <1>1, DeskParts, DeskAssumes, OneDefaultIsKept, OrdersAreWhole, PTL

\* Answers are recent and in kind, and the score of a lead follows its updates.
THEOREM DeskInsightsAreRight == DeskSpec => []InsightsAreRight
<1>1. I!RecentEnough /\ I!AnswersInKind /\ I!ScoreFollowsUpdates => InsightsAreRight
  BY DEF InsightsAreRight, At
<1> QED
  BY <1>1, DeskParts, DeskAssumes, AnswersAreRecent, AnswersFitTheirCalls, ScoresFollow, PTL

\* A role that was taken ends one life of a token after the logins and refreshes that
\* had read it, the guards keep what the permission map promises, and who is invited waits.
THEOREM DeskTeamsKeepRank == DeskSpec => []TeamsKeepRank
<1>1. T!StaleRoleEnds /\ T!PromisesAreGranted /\ T!InvitedWait => TeamsKeepRank
  BY DEF TeamsKeepRank, At
<1> QED
  BY <1>1, DeskParts, DeskAssumes, StaleRolesEnd, GuardsKeepPromises, InvitedStayOut, PTL

\* Once a call of a page was answered, the query it touches has seen it, or is loaded
\* again: for any pages whose calls tell of what they touch, but for the forgetful.
THEOREM DeskPagesKeepUp == ASSUME ToldOrForgetful PROVE DeskSpec => []PagesKeepUp
<1>1. PageInv => PagesKeepUp
  BY DEF PageInv, ToldOrForgetful, CacheIsDue, G!KeepsUp, PagesKeepUp, At
<1> QED
  BY <1>1, DeskParts, DeskAssumes, PageInvariant, PTL
=============================================================================
