------------------------------- MODULE Access -------------------------------
(***************************************************************************)
(* Which roles the guards let through to which routes, and what the        *)
(* permission map of RbacService promises to each role.  A controller is   *)
(* the set of its routes; what a handler does beyond its service call is   *)
(* nothing.                                                                *)
(***************************************************************************)
EXTENDS Naturals

Roles == {"SUPER_ADMIN", "ADMIN", "SALES_MANAGER", "SALES_REP", "SUPPORT_AGENT", "VIEWER"}

\* ROLE_LEVELS; UsersService orders the roles the same way.
Level == [r \in Roles |->
  CASE r = "SUPER_ADMIN" -> 100 [] r = "ADMIN" -> 80 [] r = "SALES_MANAGER" -> 60
    [] r = "SALES_REP" -> 40 [] r = "SUPPORT_AGENT" -> 30 [] r = "VIEWER" -> 10]

All == {"create", "read", "update", "delete"}
May(resources, actions) == resources \X actions

CrmRecords == {"leads", "contacts", "deals", "companies"}

\* ROLE_PERMISSIONS: pairs of a resource and an action.
Permissions == [r \in Roles |->
  CASE r = "SUPER_ADMIN" ->
         May(CrmRecords \cup {"users", "billing", "integrations", "webhooks", "tenant", "tickets",
                "tasks", "activities", "analytics", "automation", "pipelines", "rbac"}, All)
    [] r = "ADMIN" ->
         May(CrmRecords \cup {"users", "integrations", "webhooks", "tickets", "tasks",
                "activities", "analytics", "automation", "pipelines"}, All)
           \cup May({"billing", "rbac"}, {"read"}) \cup May({"tenant"}, {"read", "update"})
    [] r = "SALES_MANAGER" ->
         May(CrmRecords \cup {"tasks", "activities"}, All)
           \cup May({"tickets", "analytics", "automation"}, {"read"})
           \cup May({"users", "pipelines"}, {"read", "update"})
    [] r = "SALES_REP" ->
         May({"leads", "contacts", "deals", "tasks"}, All)
           \cup May({"companies", "activities"}, {"create", "read", "update"})
           \cup May({"tickets", "analytics", "pipelines"}, {"read"})
    [] r = "SUPPORT_AGENT" ->
         May({"tickets"}, All) \cup May({"contacts"}, {"read", "update"})
           \cup May({"activities"}, {"create", "read"}) \cup May({"tasks"}, {"create", "read", "update"})
           \cup May({"leads", "deals", "companies"}, {"read"})
    [] r = "VIEWER" ->
         May(CrmRecords \cup {"tickets", "tasks", "activities", "analytics", "pipelines"}, {"read"})]

\* hasPermission.
HasPermission(role, resource, action) == <<resource, action>> \in Permissions[role]

-----------------------------------------------------------------------------
Admins == {"ADMIN", "SUPER_ADMIN"}
Managers == {"ADMIN", "SALES_MANAGER"}

\* The routes "names" of a controller: what they do to its resource, for which roles.
Routes(resource, does, names, roles) ==
  {[of |-> resource, does |-> does, at |-> n, roles |-> roles] : n \in names}

\* A controller without @Roles: whoever is logged in.
Open(resource, reads, creates, updates, deletes) ==
  Routes(resource, "read", reads, Roles) \cup Routes(resource, "create", creates, Roles)
    \cup Routes(resource, "update", updates, Roles) \cup Routes(resource, "delete", deletes, Roles)

LeadsController ==
  Open("leads", {"all", "kanban", "one"}, {"new", "convert"}, {"one", "assign"}, {})
    \cup Routes("leads", "delete", {"one"}, Managers)
ContactsController ==
  Open("contacts", {"all", "one"}, {"new"}, {"one"}, {})
    \cup Routes("contacts", "delete", {"one"}, Managers)
CompaniesController ==
  Open("companies", {"all", "one"}, {"new"}, {"one"}, {})
    \cup Routes("companies", "delete", {"one"}, Managers)
DealsController ==
  Open("deals", {"all", "kanban", "forecast", "one"}, {"new"}, {"one", "stage"}, {"one"})
ActivitiesController ==
  Open("activities", {"all", "timeline", "one"}, {"new"}, {"one"}, {})
    \cup Routes("activities", "delete", {"one"}, Managers)
TasksController ==
  Open("tasks", {"all", "mine", "one"}, {"new"}, {"one", "complete"}, {"one"})
TicketsController ==
  Open("tickets", {"all", "one"}, {"new", "reply"}, {"one", "assign", "reply"}, {"one", "reply"})
AnalyticsController ==
  Open("analytics", {"dashboard", "revenue", "performance", "sources", "funnel", "score"}, {}, {}, {})
AutomationController ==
  Open("automation", {"all", "one"}, {"new"}, {"one", "toggle"}, {"one"})

\* Injected fault: the stages are left to the administrators.
PipelinesAdminsOnly ==
  Open("pipelines", {"all", "default", "one"}, {}, {}, {})
    \cup Routes("pipelines", "create", {"new", "stage"}, {"ADMIN"})
    \cup Routes("pipelines", "update", {"one", "order", "stage"}, {"ADMIN"})
    \cup Routes("pipelines", "delete", {"one", "stage"}, {"ADMIN"})
PipelinesController ==
  Open("pipelines", {"all", "default", "one"}, {}, {}, {})
    \cup Routes("pipelines", "create", {"new", "stage"}, Managers)
    \cup Routes("pipelines", "update", {"one", "order", "stage"}, Managers)
    \cup Routes("pipelines", "delete", {"one"}, {"ADMIN"})
    \cup Routes("pipelines", "delete", {"stage"}, Managers)
UsersController ==
  Routes("users", "read", {"all", "one"}, Admins \cup {"SALES_MANAGER"})
    \cup Routes("users", "read", {"me"}, Roles) \cup Routes("users", "update", {"me", "password"}, Roles)
    \cup Routes("users", "create", {"invite"}, Admins)
    \cup Routes("users", "update", {"role", "deactivate", "activate"}, Admins)
RbacController ==
  Routes("rbac", "read", {"roles"}, Admins) \cup Routes("rbac", "read", {"mine"}, Roles)
TenantController ==
  Routes("tenant", "read", {"current"}, Roles) \cup Routes("tenant", "read", {"stats"}, Admins)
    \cup Routes("tenant", "update", {"current", "settings"}, Admins)
IntegrationsController ==
  Routes("integrations", "read", {"all", "catalog", "one"}, Roles)
    \cup Routes("integrations", "create", {"connect"}, Admins)
    \cup Routes("integrations", "delete", {"disconnect"}, Admins)
    \cup Routes("integrations", "update", {"one"}, Admins)
WebhooksController ==
  Routes("webhooks", "read", {"all", "one", "deliveries"}, Roles)
    \cup Routes("webhooks", "create", {"new", "test", "retry"}, Admins)
    \cup Routes("webhooks", "update", {"one"}, Admins) \cup Routes("webhooks", "delete", {"one"}, Admins)
\* Without the two public webhooks of the providers.
BillingController ==
  Routes("billing", "read", {"plans"}, Roles)
    \cup Routes("billing", "read", {"subscription", "invoices", "crypto"}, Admins)
    \cup Routes("billing", "create", {"checkout", "refund", "subscribe", "activate", "intent"}, Admins)
    \cup Routes("billing", "update", {"upgrade"}, Admins)
    \cup Routes("billing", "create", {"confirm"}, {"SUPER_ADMIN"})
    \cup Routes("billing", "delete", {"cancel", "paypal"}, Admins)
\* Resources the permission map does not have.
AiController ==
  Routes("ai", "read", {"search", "contact", "reply", "follow_up", "activity", "query", "verify"},
         {"SALES_REP", "SALES_MANAGER"} \cup Admins)
BlockchainController ==
  Routes("blockchain", "read", {"verify", "record"}, {"SALES_MANAGER"} \cup Admins)
CommunicationsController ==
  Open("communications", {"all", "contact", "one"}, {"email", "sms"}, {}, {"one"})
EmailTemplatesController ==
  Open("templates", {"all", "one", "preview"}, {"new", "duplicate"}, {"one"}, {"one"})
NotificationsController ==
  Open("notifications", {"all", "unread"}, {}, {"one", "all"}, {"one"})
WalletsController ==
  Open("wallets", {"all", "one", "balance"}, {"provision", "withdraw"}, {}, {})
PaymentsController ==
  Open("payments", {"all", "one", "ledger", "accounts", "balance"}, {"new", "refund"}, {}, {})

Api ==
  UNION {LeadsController, ContactsController, CompaniesController, DealsController,
    ActivitiesController, TasksController, TicketsController, AnalyticsController,
    AutomationController, PipelinesController, UsersController, RbacController,
    TenantController, IntegrationsController, WebhooksController, BillingController,
    AiController, BlockchainController, CommunicationsController, EmailTemplatesController,
    NotificationsController, WalletsController, PaymentsController}

\* RolesGuard: SUPER_ADMIN passes every check.
CanActivate(role, route) == role = "SUPER_ADMIN" \/ role \in route.roles

\* The routes that are open to each role, by resource and name.
OpenTo == [r \in Roles |-> {<<e.of, e.at>> : e \in {d \in Api : CanActivate(r, d)}}]
=============================================================================
