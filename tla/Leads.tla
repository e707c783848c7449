-------------------------------- MODULE Leads --------------------------------
(***************************************************************************)
(* LeadsService on one lead: update, assign and convert read the lead in   *)
(* one query and write it in another, so calls overlap and write on a      *)
(* stale status or address; convert writes contact, lead and deal in one   *)
(* transaction. Workflows write the lead's row too.                        *)
(***************************************************************************)
EXTENDS FiniteSets, Naturals

CONSTANTS
  Updates, Assigns, Converts,   \* calls of update, assign and convert
  ChangeOf,      \* [Updates -> Changes], the fields each update brings
  AssigneeOf,    \* [Assigns -> Users]
  Users, Nobody,
  WithDeal,      \* the conversions that create a deal
  Emails,
  FirstEmail,    \* the address the lead comes with, if any
  RuleStatuses,  \* a bound: the statuses that workflows set
  None

LeadStatus == {"NEW", "CONTACTED", "QUALIFIED", "UNQUALIFIED", "NURTURING"}
Statuses == LeadStatus \cup {"CONVERTED", "LOST"}

\* UpdateLeadSchema: every field may be left out, and none can be emptied.
Changes == [status : LeadStatus \cup {None}, assignee : Users \cup {None}, email : Emails \cup {None}]

LeadsAssumption ==
  /\ ChangeOf \in [Updates -> Changes] /\ FirstEmail \in Emails \cup {None}
  /\ RuleStatuses \subseteq Statuses /\ None \notin LeadStatus \cup Users \cup Emails
  /\ AssigneeOf \in [Assigns -> Users] /\ Nobody \notin Users
  /\ WithDeal \subseteq Converts /\ None \notin Converts
  /\ Updates \cap Assigns = {} /\ Updates \cap Converts = {} /\ Assigns \cap Converts = {}

Calls == Updates \cup Assigns \cup Converts

VARIABLES
  lead,       \* status, assignee, email and convertedToId of the row
  at,         \* how far each call is
  seen,       \* what it has read and will use: an assignment the status, a conversion
              \* the address
  contacts,   \* contacts created from the lead, by their conversions, with the
              \* addresses these had read
  deals,      \* deals created with them
  changes,    \* LEAD_STATUS_CHANGED events on the automation queue, by update
  notices     \* "lead_assigned" notifications, by assignment

vars == <<lead, at, seen, contacts, deals, changes, notices>>

TypeOK ==
  /\ lead \in [status : Statuses, assignee : Users \cup {Nobody}, email : Emails \cup {None},
               convertedTo : Converts \cup {None}]
  /\ at \in [Calls -> {"none", "read", "written", "answered", "failed", "untold"}]
  /\ seen \in [Calls -> Statuses \cup Emails \cup {None}]
  /\ contacts \subseteq Converts /\ deals \subseteq Converts
  /\ changes \subseteq Updates /\ notices \subseteq Assigns

Init ==
  /\ lead = [status |-> "NEW", assignee |-> Nobody, email |-> FirstEmail, convertedTo |-> None]
  /\ at = [c \in Calls |-> "none"]
  /\ seen = [c \in Calls |-> None]
  /\ contacts = {} /\ deals = {} /\ changes = {} /\ notices = {}

Gets(c, next) == at' = [at EXCEPT ![c] = next]

Used(c) == IF c \in Assigns THEN lead.status ELSE IF c \in Converts THEN lead.email ELSE None

\* findById; a conversion of a converted lead is refused.
Read(c) ==
  /\ at[c] = "none"
  /\ Gets(c, IF c \in Converts /\ lead.status = "CONVERTED" THEN "failed" ELSE "read")
  /\ seen' = [seen EXCEPT ![c] = Used(c)]
  /\ UNCHANGED <<lead, contacts, deals, changes, notices>>

Or(new, now) == IF new = None THEN now ELSE new

\* Whoever an update assigns the lead to is told nothing.
WriteUpdate(c) ==
  /\ c \in Updates /\ at[c] = "read" /\ Gets(c, "written")
  /\ lead' = [lead EXCEPT !.status = Or(ChangeOf[c].status, @),
                          !.assignee = Or(ChangeOf[c].assignee, @),
                          !.email = Or(ChangeOf[c].email, @)]
  /\ UNCHANGED <<seen, contacts, deals, changes, notices>>

QueueChange(c) ==
  /\ c \in Updates /\ at[c] = "written" /\ Gets(c, "answered")
  /\ changes' = IF ChangeOf[c].status = None THEN changes ELSE changes \cup {c}
  /\ UNCHANGED <<lead, seen, contacts, deals, notices>>

\* Injected fault: a status that leads do not have.
WriteAssigned(c) ==
  /\ c \in Assigns /\ at[c] = "read" /\ Gets(c, "written")
  /\ lead' = [lead EXCEPT !.assignee = AssigneeOf[c], !.status = "ASSIGNED"]
  /\ UNCHANGED <<seen, contacts, deals, changes, notices>>

\* The status that was read, or CONTACTED, and not the one the row has now.
WriteAssignee(c) ==
  /\ c \in Assigns /\ at[c] = "read" /\ Gets(c, "written")
  /\ lead' = [lead EXCEPT !.assignee = AssigneeOf[c],
                          !.status = IF seen[c] = "NEW" THEN "CONTACTED" ELSE seen[c]]
  /\ UNCHANGED <<seen, contacts, deals, changes, notices>>

\* Injected fault: only an unassigned lead's assignee is told.
NotifyFirst(c) ==
  /\ c \in Assigns /\ at[c] = "written" /\ Gets(c, "answered")
  /\ notices' = IF notices = {} THEN {c} ELSE notices
  /\ UNCHANGED <<lead, seen, contacts, deals, changes>>

Notify(c) ==
  /\ c \in Assigns /\ at[c] = "written" /\ Gets(c, "answered")
  /\ notices' = notices \cup {c}
  /\ UNCHANGED <<lead, seen, contacts, deals, changes>>

Taken(email) == email # None /\ \E d \in contacts : seen[d] = email

\* Injected faults: the three writes without a transaction, and without the index.
ConvertInParts(c) ==
  /\ c \in Converts /\ at[c] = "read" /\ ~Taken(seen[c])
  /\ contacts' = contacts \cup {c}
  /\ \/ Gets(c, "failed") /\ UNCHANGED <<lead, deals>>
     \/ /\ Gets(c, "answered")
        /\ lead' = [lead EXCEPT !.status = "CONVERTED", !.convertedTo = c]
        /\ deals' = deals \cup ({c} \cap WithDeal)
  /\ UNCHANGED <<seen, changes, notices>>
ConvertAgain(c) ==
  /\ c \in Converts /\ at[c] = "read" /\ Gets(c, "answered")
  /\ contacts' = contacts \cup {c}
  /\ lead' = [lead EXCEPT !.status = "CONVERTED", !.convertedTo = c]
  /\ deals' = deals \cup ({c} \cap WithDeal)
  /\ UNCHANGED <<seen, changes, notices>>

\* The transaction. The e-mail address of a contact is unique in its tenant.
Convert(c) ==
  /\ c \in Converts /\ at[c] = "read"
  /\ IF Taken(seen[c])
     THEN Gets(c, "failed") /\ UNCHANGED <<lead, contacts, deals>>
     ELSE /\ Gets(c, "answered")
          /\ contacts' = contacts \cup {c}
          /\ lead' = [lead EXCEPT !.status = "CONVERTED", !.convertedTo = c]
          /\ deals' = deals \cup ({c} \cap WithDeal)
  /\ UNCHANGED <<seen, changes, notices>>

\* A query fails, for a contact that has the address already or any other reason; or,
\* with the lead written, the queue does.
CallFails(c) ==
  /\ \/ at[c] = "read" /\ Gets(c, "failed")
     \/ at[c] = "written" /\ Gets(c, "untold")
  /\ UNCHANGED <<lead, seen, contacts, deals, changes, notices>>

\* A workflow's UPDATE_FIELD writes the row, and no more.
RunRule ==
  /\ \/ \E s \in RuleStatuses : lead' = [lead EXCEPT !.status = s]
     \/ \E u \in Users : lead' = [lead EXCEPT !.assignee = u]
  /\ UNCHANGED <<at, seen, contacts, deals, changes, notices>>

Next ==
  \/ \E c \in Calls : \/ Read(c) \/ WriteUpdate(c) \/ QueueChange(c) \/ WriteAssignee(c)
                       \/ Notify(c) \/ Convert(c) \/ CallFails(c)
  \/ RunRule

Spec == Init /\ [][Next]_vars
-----------------------------------------------------------------------------
\* Conversion is all or nothing: a contact made from the lead goes with the lead's
\* reference to one, and with the deal that was asked for.
ConversionIsWhole ==
  /\ lead.convertedTo = None <=> contacts = {}
  /\ lead.convertedTo # None => lead.convertedTo \in contacts
  /\ deals = contacts \cap WithDeal

\* An update has given the lead an address.
Readdressed ==
  \E u \in Updates : ChangeOf[u].email # None /\ at[u] \in {"written", "answered", "untold"}

\* However calls overlap, and although an assignment, an update or a workflow takes a
\* converted lead back, a lead becomes one contact for each address it was converted
\* with: one in all, if it came with an address and no update brought another.
OneContactPerEmail ==
  /\ \A c, d \in contacts : c = d \/ seen[c] = None \/ seen[c] # seen[d]
  /\ FirstEmail # None /\ ~Readdressed => Cardinality(contacts) <= 1

\* Whoever an answered assignment gave the lead to has been told, and the statuses that
\* are announced are those of the answered updates that brought one.
AnsweredIsTold ==
  /\ \A c \in Assigns : at[c] = "answered" => c \in notices
  /\ changes = {c \in Updates : at[c] = "answered" /\ ChangeOf[c].status # None}
=============================================================================
