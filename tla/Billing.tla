-------------------------------- MODULE Billing --------------------------------
(***************************************************************************)
(* BillingService: the one billing row of a tenant, written by API calls   *)
(* and by the events of Stripe and PayPal, and the crypto payments an      *)
(* administrator confirms.                                                 *)
(*                                                                         *)
(* A call reads the row, asks the provider, and writes the row; calls and  *)
(* events interleave. Events of one provider arrive at least once, in      *)
(* order or not. Abstracted: amounts, periods, dates, addresses;           *)
(* a signature that does not verify is an event that is not sent.          *)
(***************************************************************************)
EXTENDS Naturals, Sequences, SequencesExt

CONSTANTS
  StripeSubs, PayPalSubs,  \* the subscriptions a tenant may take out
  Tagged,      \* those of Stripe whose own metadata names the tenant
  Plans,       \* the paid plans
  Pro,         \* one of them
  OtherPrice,  \* a price, or a plan of PayPal, that no plan has in the environment
  PriceOf,     \* [StripeSubs \cup PayPalSubs -> Prices], what is first subscribed to
  Calls,       \* concurrent API calls
  MaxEvents,   \* bound of the events the providers send, with the payments below
  MaxIntents,  \* bound of the crypto payments asked for
  None

Subs == StripeSubs \cup PayPalSubs

\* What a provider charges for: the price of a plan, FREE's own among them, or another.
Prices == Plans \cup {"FREE", OtherPrice}

BillingAssumption ==
  /\ Tagged \subseteq StripeSubs /\ StripeSubs \cap PayPalSubs = {}
  /\ PriceOf \in [Subs -> Prices] /\ \A s \in PayPalSubs : PriceOf[s] # "FREE"
  /\ Pro \in Plans /\ OtherPrice \notin Plans \cup {"FREE"}
  /\ "FREE" \notin Plans /\ None \notin Subs
  /\ MaxEvents \in Nat /\ MaxIntents \in Nat

VARIABLES
  ordered,    \* do the events of a provider arrive in order? (fixed at the start)
  provider,   \* the subscriptions as the providers see them
  events,     \* [provider -> the events it has still to deliver]
  sent,       \* how many events were sent
  exists,     \* is there a row?
  row,        \* the row of billing_info
  call,       \* what each call does, and what it has read
  intents,    \* the crypto payments that have been asked for
  expired,    \* the crypto payments whose day is over
  bought,     \* the prices somebody has agreed to, and the plans an administrator confirmed
  confirmed,  \* has a crypto payment been confirmed?
  late        \* did a call write what the provider had ended meanwhile?

outside == <<ordered, provider, events, sent, expired>>
table == <<exists, row>>
history == <<bought, confirmed, late>>
vars == <<outside, table, call, intents, history>>

Names == {"stripe", "paypal"}
\* Stripe's statuses (ended is canceled) as the code writes them, in capitals; of
\* them PayPal has active, past_due and ended. Trialing and paused go the way of
\* incomplete and unpaid.
StripeStates == {"active", "past_due", "incomplete", "incomplete_expired", "unpaid", "ended"}
Capitals(state) ==
  CASE state = "active" -> "ACTIVE" [] state = "past_due" -> "PAST_DUE"
    [] state = "incomplete" -> "INCOMPLETE" [] state = "incomplete_expired" -> "INCOMPLETE_EXPIRED"
    [] state = "unpaid" -> "UNPAID" [] OTHER -> "CANCELED"
Subscription == [state : StripeStates \cup {"none", "pending", "approved"}, price : Prices]
EventKinds == {"updated", "deleted", "paid", "unpaid", "refunded", "plan"}
Event == [kind : EventKinds, sub : Subs, price : Prices, status : StripeStates]
Intent == [id : 1 .. MaxIntents, plan : Plans]
RowStates == {"ACTIVE", "PAST_DUE", "INCOMPLETE", "INCOMPLETE_EXPIRED", "UNPAID", "CANCELED",
              "CANCELLED", "TRIALING"}
Row == [plan : Plans \cup {"FREE"}, status : RowStates,
        customer : BOOLEAN, stripe : StripeSubs \cup {None}, paypal : PayPalSubs \cup {None},
        intent : Intent \cup {None}]
Ops == {"idle", "activate", "upgrade", "cancel", "ask", "clean", "confirm", "refund"}

TypeOK ==
  /\ ordered \in BOOLEAN
  /\ provider \in [Subs -> Subscription]
  /\ events \in [Names -> Seq(Event)]
  /\ sent \in 0 .. MaxEvents
  /\ exists \in BOOLEAN /\ row \in Row
  /\ call \in [Calls -> [op : Ops, sub : Subs \cup {None}, plan : Plans \cup {"FREE", None},
                         intent : Intent \cup {None}]]
  /\ intents \in 0 .. MaxIntents /\ expired \subseteq 1 .. MaxIntents
  /\ bought \subseteq Prices
  /\ confirmed \in BOOLEAN /\ late \in BOOLEAN

Idle == [op |-> "idle", sub |-> None, plan |-> None, intent |-> None]

Init ==
  /\ ordered \in BOOLEAN
  /\ provider = [s \in Subs |-> [state |-> "none", price |-> PriceOf[s]]]
  /\ events = [n \in Names |-> <<>>]
  /\ sent = 0
  /\ exists = FALSE
  /\ row = [plan |-> "FREE", status |-> "ACTIVE", customer |-> FALSE,
            stripe |-> None, paypal |-> None, intent |-> None]
  /\ call = [c \in Calls |-> Idle]
  /\ intents = 0 /\ expired = {}
  /\ bought = {} /\ confirmed = FALSE /\ late = FALSE
-----------------------------------------------------------------------------
\* The providers (external). A provider changes a subscription and queues the
\* events that tell of it.
EventOf(s, kind) ==
  [kind |-> kind, sub |-> s, price |-> provider'[s].price, status |-> provider'[s].state]
Tells(s, news) ==
  LET n == IF s \in StripeSubs THEN "stripe" ELSE "paypal" IN
  /\ sent + Len(news) <= MaxEvents - intents
  /\ sent' = sent + Len(news)
  /\ events' = [events EXCEPT ![n] = @ \o news]
Becomes(s, state) == provider' = [provider EXCEPT ![s].state = state]
Buys(p) == bought' = bought \cup {p}

\* A tenant takes what a checkout offered; a tagged subscription is one that was
\* made in Stripe's dashboard, of any price. Its first payment is made, or does not
\* go through.
SubscribeStripe(s) ==
  /\ s \in StripeSubs /\ provider[s].state = "none" /\ (s \in Tagged \/ row.customer)
  /\ Buys(provider[s].price)
  /\ \/ Becomes(s, "active") /\ Tells(s, <<EventOf(s, "updated"), EventOf(s, "paid")>>)
     \/ Becomes(s, "incomplete") /\ Tells(s, <<EventOf(s, "updated")>>)
  /\ UNCHANGED <<ordered, expired, table, call, intents, confirmed, late>>

\* Stripe moves a subscription on by itself, as payments are made late or given up,
\* and tells of it in an update. One that is incomplete for a day expires so: its
\* deletion is not told.
Onward(state) ==
  CASE state = "incomplete" -> {"active", "incomplete_expired"}
    [] state = "past_due" -> {"active", "unpaid"}
    [] state = "unpaid" -> {"active"}
    [] OTHER -> {}
MoveOn(s) ==
  /\ s \in StripeSubs
  /\ \E state \in Onward(provider[s].state) : Becomes(s, state)
  /\ Tells(s, <<EventOf(s, "updated")>>)
  /\ UNCHANGED <<ordered, expired, table, call, intents, history>>

ApprovePayPal(s) ==
  /\ s \in PayPalSubs /\ provider[s].state = "pending"
  /\ Becomes(s, "approved") /\ Buys(provider[s].price)
  /\ UNCHANGED <<ordered, events, sent, expired, table, call, intents, confirmed, late>>
StartPayPal(s) ==
  /\ s \in PayPalSubs /\ provider[s].state = "approved"
  /\ Becomes(s, "active") /\ Tells(s, <<EventOf(s, "updated")>>)
  /\ UNCHANGED <<ordered, expired, table, call, intents, history>>

Charge(s) ==
  /\ provider[s].state \in {"active", "past_due"}
  /\ \/ Becomes(s, "active") /\ Tells(s, <<EventOf(s, "paid")>>)
     \/ Becomes(s, "past_due") /\ Tells(s, <<EventOf(s, "unpaid")>>)
  /\ UNCHANGED <<ordered, expired, table, call, intents, history>>
EndAtProvider(s) ==
  /\ provider[s].state \in {"active", "past_due", "unpaid"}
  /\ Becomes(s, "ended") /\ Tells(s, <<EventOf(s, "deleted")>>)
  /\ UNCHANGED <<ordered, expired, table, call, intents, history>>
DayPasses(i) ==
  /\ i \in (1 .. intents) \ expired /\ expired' = expired \cup {i}
  /\ UNCHANGED <<ordered, provider, events, sent, table, call, intents, history>>
-----------------------------------------------------------------------------
\* The writes of the repository: update needs a row, upsert makes one.
Update(new) == exists /\ row' = new /\ UNCHANGED exists
Upsert(new) == exists' = TRUE /\ row' = new

Ended(r) == [r EXCEPT !.plan = "FREE", !.status = "CANCELLED"]

\* getPlanFromSubscription and getPlanFromPayPalSubscription: a price that is no
\* plan's is taken for Pro's.
PlanFound(price) == IF price = OtherPrice THEN Pro ELSE price

\* handleSubscriptionUpdated and handleSubscriptionDeleted: without a tenant in
\* the subscription's metadata nothing is written. An update sets the plan whatever
\* the status it tells of.
StripeSubscription(e) ==
  IF e.sub \notin Tagged THEN UNCHANGED table
  ELSE Upsert(IF e.kind = "updated"
              THEN [row EXCEPT !.stripe = e.sub, !.customer = TRUE,
                               !.plan = PlanFound(e.price), !.status = Capitals(e.status)]
              ELSE [Ended(row) EXCEPT !.stripe = None])

InvoiceStatus(e) == IF e.kind = "paid" THEN "ACTIVE" ELSE "PAST_DUE"

\* handleInvoicePaymentSucceeded and -Failed find the tenant by the customer.
StripeInvoice(e) ==
  IF exists THEN Update([row EXCEPT !.status = InvoiceStatus(e)]) ELSE UNCHANGED table

StripeEvent(e) ==
  \/ e.kind \in {"updated", "deleted"} /\ StripeSubscription(e)
  \/ e.kind \in {"paid", "unpaid"} /\ StripeInvoice(e)
  \/ e.kind = "refunded" /\ Update(Ended(row))

\* Injected fault: the end of a subscription leaves the plan.
PayPalEventKeepingPlan(e) ==
  \/ e.kind = "updated"
     /\ Upsert([row EXCEPT !.paypal = e.sub, !.plan = PlanFound(e.price), !.status = "ACTIVE"])
  \/ e.kind \in {"paid", "unpaid"} /\ Update([row EXCEPT !.status = InvoiceStatus(e)])
  \/ e.kind = "deleted" /\ Update([row EXCEPT !.paypal = None, !.status = "CANCELLED"])
  \/ e.kind = "plan" /\ Update([row EXCEPT !.plan = PlanFound(e.price)])

\* handlePayPalWebhook, by the type of the event.
PayPalEvent(e) ==
  \/ e.kind = "updated"
     /\ Upsert([row EXCEPT !.paypal = e.sub, !.plan = PlanFound(e.price), !.status = "ACTIVE"])
  \/ e.kind \in {"paid", "unpaid"} /\ Update([row EXCEPT !.status = InvoiceStatus(e)])
  \/ e.kind = "deleted" /\ Update([Ended(row) EXCEPT !.paypal = None])
  \/ e.kind = "plan" /\ Update([row EXCEPT !.plan = PlanFound(e.price)])

\* An event is handled, and delivered again if the answer is lost. An update
\* without a row throws, and the provider tries again: the event stays.
HandleEvent(n) ==
  /\ \E i \in DOMAIN events[n] :
       /\ ordered => i = 1
       /\ IF n = "stripe" THEN StripeEvent(events[n][i]) ELSE PayPalEvent(events[n][i])
       /\ \/ events' = [events EXCEPT ![n] = RemoveAt(@, i)]
          \/ UNCHANGED events
  /\ UNCHANGED <<ordered, provider, sent, expired, call, intents, history>>
-----------------------------------------------------------------------------
Starts(c, new) == call[c] = Idle /\ call' = [call EXCEPT ![c] = new]
Finishes(c) == call' = [call EXCEPT ![c] = Idle]
Did(op, s, p, i) == [op |-> op, sub |-> s, plan |-> p, intent |-> i]
IsLate(s) == late' = (late \/ provider[s].state = "ended")

\* createCheckoutSession: the row is made when it is missing, and so is the
\* customer; of two that race to make the row one throws.
CreateCheckout ==
  /\ exists' = TRUE /\ row' = [row EXCEPT !.customer = TRUE]
  /\ UNCHANGED <<outside, call, intents, history>>

\* cancelSubscription asks Stripe to end the subscription with its period, which
\* Stripe confirms with an update; the flag it stores is shown and decides nothing.
CancelStripe ==
  /\ row.stripe # None
  /\ provider[row.stripe].state \in {"active", "past_due", "unpaid"}
  /\ UNCHANGED provider
  /\ Tells(row.stripe, <<EventOf(row.stripe, "updated")>>)
  /\ UNCHANGED <<ordered, expired, table, call, intents, history>>

\* refundLatestStripeInvoice: in full, of a tenant that Stripe knows; Stripe tells
\* of it too, and the subscription goes on.
RefundAtStripe(c, s) ==
  /\ s \in StripeSubs /\ row.customer /\ provider[s].state \in {"active", "past_due", "unpaid", "ended"}
  /\ Starts(c, Did("refund", s, None, None))
  /\ UNCHANGED provider /\ Tells(s, <<EventOf(s, "refunded")>>)
  /\ UNCHANGED <<ordered, expired, table, intents, history>>
WriteRefund(c) ==
  /\ call[c].op = "refund" /\ Finishes(c)
  /\ Update([row EXCEPT !.status = "CANCELLED"])
  /\ UNCHANGED <<outside, intents, history>>

\* createPayPalSubscription writes nothing of ours.
CreatePayPal(s) ==
  /\ s \in PayPalSubs /\ provider[s].state = "none" /\ Becomes(s, "pending")
  /\ UNCHANGED <<ordered, events, sent, expired, table, call, intents, history>>

\* Injected fault: the status of the subscription is not looked at.
FetchPayPalAny(c, s) ==
  /\ s \in PayPalSubs /\ provider[s].state # "none"
  /\ Starts(c, Did("activate", s, PlanFound(provider[s].price), None))
  /\ UNCHANGED <<outside, table, intents, history>>

\* activatePayPalSubscription: what PayPal answers, then the write.
FetchPayPal(c, s) ==
  /\ s \in PayPalSubs /\ provider[s].state \in {"approved", "active"}
  /\ Starts(c, Did("activate", s, PlanFound(provider[s].price), None))
  /\ UNCHANGED <<outside, table, intents, history>>
\* Injected fault: PayPal's own status is stored.
WriteActivationRaw(c) ==
  /\ call[c].op = "activate" /\ Finishes(c) /\ IsLate(call[c].sub)
  /\ Upsert([row EXCEPT !.paypal = call[c].sub, !.plan = call[c].plan,
                        !.status = provider[call[c].sub].state])
  /\ UNCHANGED <<outside, intents, bought, confirmed>>
WriteActivation(c) ==
  /\ call[c].op = "activate" /\ Finishes(c) /\ IsLate(call[c].sub)
  /\ \E status \in {"ACTIVE", "TRIALING"} :
       Upsert([row EXCEPT !.paypal = call[c].sub, !.plan = call[c].plan, !.status = status])
  /\ UNCHANGED <<outside, intents, bought, confirmed>>

\* upgradePayPalPlan: PayPal changes the plan at once, or asks for an approval,
\* which its event tells of.
RevisePayPal(c, p) ==
  /\ row.paypal # None /\ provider[row.paypal].state = "active" /\ p # provider[row.paypal].price
  /\ provider' = [provider EXCEPT ![row.paypal].price = p] /\ Buys(p)
  /\ \/ Starts(c, Did("upgrade", row.paypal, p, None)) /\ UNCHANGED <<events, sent>>
     \/ UNCHANGED call /\ Tells(row.paypal, <<EventOf(row.paypal, "plan")>>)
  /\ UNCHANGED <<ordered, expired, table, intents, confirmed, late>>
WriteUpgrade(c) ==
  /\ call[c].op = "upgrade" /\ Finishes(c) /\ IsLate(call[c].sub)
  /\ Update([row EXCEPT !.plan = call[c].plan])
  /\ UNCHANGED <<outside, intents, bought, confirmed>>

\* cancelPayPalSubscription.
CancelPayPal(c) ==
  /\ row.paypal # None /\ provider[row.paypal].state \in {"active", "past_due"}
  /\ Becomes(row.paypal, "ended") /\ Tells(row.paypal, <<EventOf(row.paypal, "deleted")>>)
  /\ Starts(c, Did("cancel", row.paypal, None, None))
  /\ UNCHANGED <<ordered, expired, table, intents, history>>
WriteCancel(c) ==
  /\ call[c].op = "cancel" /\ Finishes(c)
  /\ Update([Ended(row) EXCEPT !.paypal = None])
  /\ UNCHANGED <<outside, intents, history>>
-----------------------------------------------------------------------------
\* createCryptoPayment: the metadata is read, then written back with the intent.
AskCrypto(c, p) ==
  /\ intents < MaxIntents /\ sent + intents < MaxEvents /\ intents' = intents + 1
  /\ Starts(c, Did("ask", None, None, [id |-> intents', plan |-> p]))
  /\ exists' = TRUE
  /\ UNCHANGED <<outside, row, history>>
WriteIntent(c) ==
  /\ call[c].op = "ask" /\ Finishes(c)
  /\ Update([row EXCEPT !.intent = call[c].intent])
  /\ UNCHANGED <<outside, intents, history>>

\* getCryptoPaymentStatus: an expired intent is cleaned up by whoever looks.
FindExpired(c) ==
  /\ row.intent # None /\ row.intent.id \in expired
  /\ Starts(c, Did("clean", None, None, row.intent))
  /\ UNCHANGED <<outside, table, intents, history>>
CleanExpired(c) ==
  /\ call[c].op = "clean" /\ Finishes(c)
  /\ Update([row EXCEPT !.intent = None])
  /\ UNCHANGED <<outside, intents, history>>

\* adminConfirmCryptoPayment: the intent that is pending, expired or not.
FindIntent(c) ==
  /\ row.intent # None
  /\ Starts(c, Did("confirm", None, None, row.intent))
  /\ UNCHANGED <<outside, table, intents, history>>
ConfirmCrypto(c) ==
  /\ call[c].op = "confirm" /\ Finishes(c) /\ Buys(call[c].intent.plan) /\ confirmed' = TRUE
  /\ Update([row EXCEPT !.plan = call[c].intent.plan, !.status = "ACTIVE", !.intent = None])
  /\ UNCHANGED <<outside, intents, late>>

Provider ==
  \/ \E s \in Subs : \/ SubscribeStripe(s) \/ MoveOn(s) \/ ApprovePayPal(s) \/ StartPayPal(s)
                     \/ Charge(s) \/ EndAtProvider(s)
  \/ \E i \in 1 .. MaxIntents : DayPasses(i)

Call(c) ==
  \/ \E s \in Subs : RefundAtStripe(c, s) \/ FetchPayPal(c, s)
  \/ \E p \in Plans : RevisePayPal(c, p) \/ AskCrypto(c, p)
  \/ CancelPayPal(c) \/ FindExpired(c) \/ FindIntent(c)
  \/ WriteRefund(c) \/ WriteActivation(c) \/ WriteUpgrade(c) \/ WriteCancel(c)
  \/ WriteIntent(c) \/ CleanExpired(c) \/ ConfirmCrypto(c)

Next ==
  \/ Provider \/ CreateCheckout \/ CancelStripe
  \/ \E s \in Subs : CreatePayPal(s)
  \/ \E n \in Names : HandleEvent(n)
  \/ \E c \in Calls : Call(c)

Spec == Init /\ [][Next]_vars
-----------------------------------------------------------------------------
\* Whatever the order in which events and calls write the row, its plan is free,
\* one the tenant has agreed to pay or an administrator has confirmed, or Pro if
\* what was agreed to is the price of no plan.
PlanWasBought ==
  exists => \/ row.plan \in bought \cup {"FREE"}
            \/ row.plan = Pro /\ OtherPrice \in bought

Quiet == (\A n \in Names : events[n] = <<>>) /\ (\A c \in Calls : call[c] = Idle)

\* A tenant whose subscriptions have all been ended is on the free plan once every
\* event is handled in order, unless an activation or a change of plan that was
\* under way wrote after the end. One that expired incomplete, or is unpaid, has not
\* been ended so: it keeps its plan.
EndedIsFree ==
  /\ ordered /\ Quiet /\ ~ late /\ ~ confirmed
  /\ \A s \in Subs : provider[s].state \in {"none", "pending", "ended"}
  => row.plan = "FREE"
=============================================================================
