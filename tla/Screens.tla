------------------------------ MODULE Screens ------------------------------
(***************************************************************************)
(* The pages of the frontend as tables: which queries a page observes,     *)
(* which calls can be made from it, and which queries a call tells to load *)
(* again.  A query is named by its key without record and filter: the      *)
(* pages are about one record of each kind.  What is only shown, a file's  *)
(* forms, columns and styles, is left out; so are the rows of other        *)
(* records that an answer embeds (the deals of a contact), which no page   *)
(* follows, the plans and invoices of a provider, the admin page, whose    *)
(* queries no controller answers, and what workers write later.            *)
(***************************************************************************)
EXTENDS Naturals, Sequences, TLC

\* query-keys.ts, workflows and the admin pages having keys of their own.
Leads == <<"leads">>
LeadsList == <<"leads", "list">>
LeadsDetail == <<"leads", "detail">>
ContactsList == <<"contacts", "list">>
ContactsDetail == <<"contacts", "detail">>
CompaniesList == <<"companies", "list">>
CompaniesDetail == <<"companies", "detail">>
DealsList == <<"deals", "list">>
DealsDetail == <<"deals", "detail">>
DealsKanban == <<"deals", "kanban">>
Pipelines == <<"pipelines">>
TasksList == <<"tasks", "list">>
TasksOfLead == <<"tasks", "list", "lead">>
TasksDetail == <<"tasks", "detail">>
MyTasks == <<"tasks", "my">>
ActivitiesList == <<"activities", "list">>
Timeline == <<"activities", "timeline">>
CommunicationsList == <<"communications", "list">>
TicketsList == <<"tickets", "list">>
TicketsDetail == <<"tickets", "detail">>
NotificationsList == <<"notifications", "list">>
UnreadCount == <<"notifications", "unread-count">>
UsersList == <<"users", "list">>
Workflows == <<"workflows">>
WorkflowsDetail == <<"workflows", "detail">>
BillingInfo == <<"billing", "info">>
Revenue == <<"analytics", "revenue">>
LeadSources == <<"analytics", "lead-sources">>
SalesPerformance == <<"analytics", "sales-performance">>
PipelineFunnel == <<"analytics", "pipeline-funnel">>

\* invalidateQueries: every query whose key starts with the given one.
Matches(prefix, key) ==
  Len(prefix) <= Len(key) /\ SubSeq(key, 1, Len(prefix)) = prefix

-----------------------------------------------------------------------------
\* What the server answers a query from: pairs of a key and a table.
Serves(keys, table) == keys \X {table}

LeadsRepository == Serves({LeadsList, LeadsDetail}, "lead")
ContactsRepository == Serves({ContactsList, ContactsDetail}, "contact")
CompaniesRepository == Serves({CompaniesList, CompaniesDetail}, "company")
DealsRepository == Serves({DealsList, DealsDetail}, "deal")
GetKanbanBoard == Serves({DealsKanban}, "deal")
PipelinesRepository == Serves({Pipelines}, "pipeline")
TasksRepository == Serves({TasksList, TasksOfLead, TasksDetail, MyTasks}, "task")
ActivitiesRepository == Serves({ActivitiesList, Timeline}, "activity")
CommunicationsRepository == Serves({CommunicationsList}, "message")
TicketsRepository == Serves({TicketsList}, "ticket")
TicketFindById == Serves({TicketsDetail}, "ticket") \cup Serves({TicketsDetail}, "reply")
NotificationsRepository == Serves({NotificationsList, UnreadCount}, "notification")
UsersRepository == Serves({UsersList}, "user") \cup Serves({UsersList}, "profile")
AutomationFinds == Serves({Workflows, WorkflowsDetail}, "workflow")
BillingRepository == Serves({BillingInfo}, "subscription")
\* The charts. The revenue may come from a cache of the server as well (Insights).
AnalyticsService ==
  Serves({Revenue, SalesPerformance, PipelineFunnel}, "deal") \cup Serves({LeadSources}, "lead")
    \cup Serves({SalesPerformance}, "profile") \cup Serves({PipelineFunnel}, "pipeline")

Answers ==
  UNION {LeadsRepository, ContactsRepository, CompaniesRepository, DealsRepository,
    GetKanbanBoard, PipelinesRepository, TasksRepository, ActivitiesRepository,
    CommunicationsRepository, TicketsRepository, TicketFindById, NotificationsRepository,
    UsersRepository, AutomationFinds, BillingRepository, AnalyticsService}
Keys == {a[1] : a \in Answers}

-----------------------------------------------------------------------------
(* A call: what it asks of the server (its name), the tables the server writes, the *)
(* keys that are told when it has succeeded, whether its button is disabled while   *)
(* it is under way, and the page it leads to.                                       *)
Call(name, writes, tells) ==
  [name |-> name, writes |-> writes, tells |-> tells, once |-> FALSE, then |-> "here"]
Once(c) == [c EXCEPT !.once = TRUE]
Leading(c, page) == [c EXCEPT !.then = page]

\* The services that only write the record.
CompaniesService == [n \in {"create company", "update company", "delete company"} |-> {"company"}]
ContactsService == [n \in {"create contact", "update contact", "delete contact"} |-> {"contact"}]
ToggleAndDelete == [n \in {"toggle workflow", "delete workflow"} |-> {"workflow"}]
UpdateMe == [n \in {"update profile"} |-> {"profile"}]

\* Injected fault: the hooks tell the list of the leads and not their details.
LeadHooksOfLists ==
  {Call(n, {"lead"}, {LeadsList}) : n \in {"create lead", "update lead", "delete lead"}}

\* The hooks that are in use.
LeadHooks ==
  {Call(n, {"lead"}, {Leads}) : n \in {"create lead", "update lead", "delete lead"}}

\* The form of a lead.
LeadModal == {c \in LeadHooks : c.name \in {"create lead", "update lead"}}

\* The forms with a submit of their own.
ContactModal ==
  {Call(n, ContactsService[n], {<<"contacts">>}) : n \in {"create contact", "update contact"}}
CompanyModal ==
  {Call(n, CompaniesService[n], {<<"companies">>}) : n \in {"create company", "update company"}}
DealModal == {Call("create deal", {"deal"}, {<<"deals">>})}
EditTask == {Call("update task", {"task"}, {TasksDetail, <<"tasks">>})}
InviteModal == {Call("invite", {"user"}, {<<"users">>})}
EmailModal == {Call("send email", {"message"}, {<<"communications">>})}
SmsModal == {Call("send sms", {"message"}, {<<"communications">>})}

\* The profile goes into the store of the session, and no query is told.
ProfileTab == {Call("update profile", UpdateMe["update profile"], {})}

\* A card is moved: the board is told, and not the other deals.
KanbanBoard == {Call("move deal", {"deal"}, {DealsKanban})}

-----------------------------------------------------------------------------
Page(reads, calls) == [reads |-> reads, calls |-> calls]

LeadsPage == Page({LeadsList}, LeadModal \cup {c \in LeadHooks : c.name = "delete lead"})
\* Only the detail is told; a contact and a deal may be there now.
LeadDetailPage ==
  Page({LeadsDetail, Timeline, TasksOfLead},
       {Once(Call("convert lead", {"lead", "contact", "deal"}, {LeadsDetail}))})
ContactsPage ==
  Page({ContactsList},
       ContactModal \cup {Call("delete contact", ContactsService["delete contact"], {<<"contacts">>})})
ContactDetailPage == Page({ContactsDetail, Timeline}, {})
CompaniesPage ==
  Page({CompaniesList},
       CompanyModal \cup {Call("delete company", CompaniesService["delete company"], {<<"companies">>})})
CompanyDetailPage == Page({CompaniesDetail, Timeline}, {})
\* The page in its two views: the list is loaded in the first only.
DealsPage ==
  [view \in {"list", "kanban"} |->
     Page({Pipelines, IF view = "list" THEN DealsList ELSE DealsKanban},
          DealModal \cup IF view = "list" THEN {Call("delete deal", {"deal"}, {<<"deals">>})}
                                          ELSE KanbanBoard)]
DealDetailPage == Page({DealsDetail, Timeline}, {})
PipelinePage == Page({Pipelines, DealsKanban}, KanbanBoard)

\* Its two tabs, each with a query of its own.
TasksPage ==
  [tab \in {"my", "all"} |->
     Page({IF tab = "my" THEN MyTasks ELSE TasksList},
          {Call(n, {"task"}, {<<"tasks">>}) : n \in {"complete task", "delete task"}})]
\* Injected fault: the completion tells the page it is on.
TaskDetailAlone ==
  Page({TasksDetail},
       EditTask \cup {Once(Call("complete task", {"task"}, {TasksDetail})),
                      Once(Leading(Call("delete task", {"task"}, {}), "my tasks"))})

\* The deletion leads to the tasks and tells none of them.
TaskDetailPage ==
  Page({TasksDetail},
       EditTask \cup {Once(Call("complete task", {"task"}, {TasksDetail, <<"tasks">>})),
                      Once(Leading(Call("delete task", {"task"}, {}), "my tasks"))})

TicketsPage == Page({TicketsList}, {})
TicketDetailPage == Page({TicketsDetail}, {Once(Call("reply", {"reply"}, {TicketsDetail}))})
NotificationsPage ==
  Page({NotificationsList},
       {Call(n, {"notification"}, {<<"notifications">>}) : n \in {"mark read", "delete notification"}}
         \cup {Once(Call("mark all read", {"notification"}, {<<"notifications">>}))})
AutomationPage ==
  Page({Workflows}, {Call("toggle workflow", ToggleAndDelete["toggle workflow"], {Workflows})})
WorkflowDetailPage ==
  Page({WorkflowsDetail},
       {Once(Call("toggle workflow", ToggleAndDelete["toggle workflow"], {WorkflowsDetail, Workflows})),
        Once(Leading(Call("delete workflow", ToggleAndDelete["delete workflow"], {}), "automation"))})
TeamPage ==
  Page({UsersList},
       InviteModal \cup {Call(n, {"user"}, {<<"users">>}) : n \in {"change role", "toggle user"}})
SettingsPage == Page({}, ProfileTab)
CommunicationsPage == Page({CommunicationsList}, EmailModal \cup SmsModal)
ActivitiesPage == Page({ActivitiesList}, {})
BillingPage ==
  Page({BillingInfo}, {Once(Call("cancel subscription", {"subscription"}, {BillingInfo}))})
AnalyticsPage == Page({Revenue, LeadSources, PipelineFunnel, SalesPerformance}, {})
UpgradeBanner == {BillingInfo}
DashboardCharts == {Revenue, PipelineFunnel}
DashboardPage == Page(UpgradeBanner \cup DashboardCharts, {})

Menu ==
  [leads |-> LeadsPage, lead |-> LeadDetailPage, contacts |-> ContactsPage,
   contact |-> ContactDetailPage, companies |-> CompaniesPage, company |-> CompanyDetailPage,
   deals |-> DealsPage["list"], board |-> DealsPage["kanban"], deal |-> DealDetailPage,
   pipeline |-> PipelinePage, tickets |-> TicketsPage, ticket |-> TicketDetailPage,
   notifications |-> NotificationsPage, automation |-> AutomationPage,
   workflow |-> WorkflowDetailPage, team |-> TeamPage, settings |-> SettingsPage,
   communications |-> CommunicationsPage, activities |-> ActivitiesPage,
   billing |-> BillingPage, analytics |-> AnalyticsPage, dashboard |-> DashboardPage,
   task |-> TaskDetailPage]
Site == Menu @@ ("my tasks" :> TasksPage["my"]) @@ ("all tasks" :> TasksPage["all"])

\* The header, with its count, is on every page.
Observed(p) == Site[p].reads \cup {UnreadCount}

\* Calls after which own queries are not told: the lists after a conversion, the other
\* deals after a move, everything after a deletion on a detail page, the team after a
\* change of one's profile.
ForgetfulCalls ==
  {<<"lead", "convert lead">>, <<"board", "move deal">>, <<"pipeline", "move deal">>,
   <<"task", "delete task">>, <<"workflow", "delete workflow">>, <<"settings", "update profile">>}

\* No call tells a chart: not the creation, update, deletion or conversion of a lead, nor
\* the creation, move or deletion of a deal, nor the change of one's name.
Charts == AnalyticsPage.reads \cup DashboardCharts
Forgetful(s) == <<s.from, s.call.name>> \in ForgetfulCalls \/ s.key \in Charts

\* A call, the page it is made from, another page, and a query of them that it touches.
Touches(c, k) == \E t \in c.writes : <<k, t>> \in Answers
Told(c, k) == \E p \in c.tells : Matches(p, k)
Journeys ==
  UNION {[from : {p}, call : Site[p].calls, other : {q}, key : Observed(p) \cup Observed(q)] :
    p \in DOMAIN Site, q \in DOMAIN Site}
Stories ==
  {s \in Journeys :
     s.other # s.from /\ Touches(s.call, s.key) /\ s.call.then \in {"here", s.other}}

\* What a story comes to: where the query is observed, whether it is told and loaded by
\* the clock, and what the call's button and its success do.
Story(s) ==
  [from |-> s.from, other |-> s.other, on |-> {p \in {s.from, s.other} : s.key \in Observed(p)},
   told |-> Told(s.call, s.key), polled |-> s.key = UnreadCount, once |-> s.call.once,
   then |-> s.call.then, forgetful |-> Forgetful(s)]

\* Of the stories that differ in their names only, one.
Shape(s) ==
  <<s.key \in Observed(s.from), s.key \in Observed(s.other), s.key = UnreadCount, s.call.once,
    s.call.then = "here", Told(s.call, s.key), Forgetful(s)>>
Chosen == {Story(CHOOSE s \in Stories : Shape(s) = x) : x \in {Shape(s) : s \in Stories}}
=============================================================================
