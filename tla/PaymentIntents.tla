---------------------------- MODULE PaymentIntents ----------------------------
(***************************************************************************)
(* PaymentsService.createPaymentIntent: a payment is created at most once  *)
(* for an idempotency key, by an API call or by a create_intent job of the *)
(* payment-processing queue, whichever of several concurrent callers with  *)
(* that key is first. The check of the key, the lookup of the wallet and   *)
(* the insert are three queries, without a transaction around them.        *)
(***************************************************************************)
EXTENDS Naturals

CONSTANTS
  Keys, Tenants, Wallets, Callers,
  OwnerOf,   \* [Wallets -> Tenants]
  KeyOf,     \* [Callers -> Keys], the caller's idempotency key
  TenantOf,  \* [Callers -> Tenants]
  WalletOf,  \* [Callers -> Wallets], the wallet the caller names
  Jobs,      \* the callers that are jobs, and so are retried
  MaxTries,  \* attempts of a job (8 in the source)
  NoPayment

IntentAssumption ==
  /\ OwnerOf \in [Wallets -> Tenants]
  /\ KeyOf \in [Callers -> Keys]
  /\ TenantOf \in [Callers -> Tenants]
  /\ WalletOf \in [Callers -> Wallets]
  /\ Jobs \subseteq Callers
  /\ MaxTries \in Nat /\ MaxTries > 0
  /\ NoPayment \notin [key : Keys, tenant : Tenants, wallet : Wallets, by : Callers]

VARIABLES
  payments,  \* the payments table
  stage,     \* how far each caller is
  answer,    \* the payment each caller was given
  tries,     \* failed attempts of each caller
  lost       \* how often the unique index refused each caller's insert

vars == <<payments, stage, answer, tries, lost>>

Payment == [key : Keys, tenant : Tenants, wallet : Wallets, by : Callers]

Ended == {"answered", "conflict", "not_found", "duplicate", "failed"}

TypeOK ==
  /\ payments \subseteq Payment
  /\ stage \in [Callers -> {"idle", "called", "checked", "ready", "created"} \cup Ended]
  /\ answer \in [Callers -> Payment \cup {NoPayment}]
  /\ tries \in [Callers -> 0 .. MaxTries]
  /\ lost \in [Callers -> Nat]

Init ==
  /\ payments = {}
  /\ stage = [c \in Callers |-> "idle"]
  /\ answer = [c \in Callers |-> NoPayment]
  /\ tries = [c \in Callers |-> 0]
  /\ lost = [c \in Callers |-> 0]

Goes(c, next) ==
  /\ stage' = [stage EXCEPT ![c] = next]
  /\ UNCHANGED tries

\* Injected faults: one attempt too many, and attempts that are not counted.
ThrowsOnceMore(c, error) ==
  /\ tries' = [tries EXCEPT ![c] = @ + 1]
  /\ stage' = [stage EXCEPT ![c] =
                 IF c \in Jobs /\ tries[c] < MaxTries THEN "called" ELSE error]
ThrowsUncounted(c, error) ==
  /\ stage' = [stage EXCEPT ![c] = IF c \in Jobs THEN "called" ELSE error]
  /\ UNCHANGED tries

\* The call throws: the answer of an API call, another attempt of a job.
Throws(c, error) ==
  /\ tries' = [tries EXCEPT ![c] = @ + 1]
  /\ stage' = [stage EXCEPT ![c] =
                 IF c \in Jobs /\ tries[c] + 1 < MaxTries THEN "called" ELSE error]

Call(c) ==
  /\ stage[c] = "idle"
  /\ Goes(c, "called")
  /\ UNCHANGED <<payments, answer, lost>>

Gives(c, p) == answer' = [answer EXCEPT ![c] = p]

\* Injected fault: the tenant of the existing payment is not compared.
CheckKeyOnly(c) ==
  LET existing == {p \in payments : p.key = KeyOf[c]} IN
  /\ stage[c] = "called"
  /\ \/ /\ existing = {} /\ Goes(c, "checked") /\ UNCHANGED answer
     \/ \E p \in existing : Goes(c, "answered") /\ Gives(c, p)
  /\ UNCHANGED <<payments, lost>>

\* Injected fault: the check of the key finds nothing.
CheckKeyBlind(c) ==
  /\ stage[c] = "called"
  /\ Goes(c, "checked")
  /\ UNCHANGED <<payments, answer, lost>>

\* findByIdempotencyKey, over all tenants: a findUnique is not scoped.
CheckKey(c) ==
  LET existing == {p \in payments : p.key = KeyOf[c]} IN
  /\ stage[c] = "called"
  /\ \/ /\ existing = {} /\ Goes(c, "checked") /\ UNCHANGED answer
     \/ \E p \in existing :
          IF p.tenant = TenantOf[c]
          THEN Goes(c, "answered") /\ Gives(c, p)
          ELSE Throws(c, "conflict") /\ UNCHANGED answer
  /\ UNCHANGED <<payments, lost>>

FindWallet(c) ==
  /\ stage[c] = "checked"
  /\ IF OwnerOf[WalletOf[c]] = TenantOf[c] THEN Goes(c, "ready") ELSE Throws(c, "not_found")
  /\ UNCHANGED <<payments, answer, lost>>

\* Injected fault: no unique index on the key.
CreateAnyway(c) ==
  /\ stage[c] = "ready"
  /\ payments' = payments \cup {[key |-> KeyOf[c], tenant |-> TenantOf[c],
                                 wallet |-> WalletOf[c], by |-> c]}
  /\ Goes(c, "created")
  /\ UNCHANGED <<answer, lost>>

\* The insert; payments.idempotencyKey is unique.
Create(c) ==
  /\ stage[c] = "ready"
  /\ \/ /\ \A p \in payments : p.key # KeyOf[c]
        /\ payments' = payments \cup {[key |-> KeyOf[c], tenant |-> TenantOf[c],
                                       wallet |-> WalletOf[c], by |-> c]}
        /\ Goes(c, "created")
        /\ UNCHANGED lost
     \/ /\ \E p \in payments : p.key = KeyOf[c]
        /\ Throws(c, "duplicate")
        /\ lost' = [lost EXCEPT ![c] = @ + 1]
        /\ UNCHANGED payments
  /\ UNCHANGED answer

Return(c) ==
  /\ stage[c] = "created"
  /\ \E p \in payments : p.key = KeyOf[c] /\ Gives(c, p)
  /\ Goes(c, "answered")
  /\ UNCHANGED <<payments, lost>>

\* A query fails, or the process dies, at any point of the call.
Fault(c) ==
  /\ stage[c] \in {"called", "checked", "ready", "created"}
  /\ Throws(c, "failed")
  /\ UNCHANGED <<payments, answer, lost>>

Step(c) == CheckKey(c) \/ FindWallet(c) \/ Create(c) \/ Return(c)

Next == \E c \in Callers : Call(c) \/ Step(c) \/ Fault(c)

Spec == Init /\ [][Next]_vars

\* The server finishes what it has begun; nothing obliges anyone to call.
FairSpec == Spec /\ WF_vars(\E c \in Callers : Step(c))
-----------------------------------------------------------------------------
\* A key has one payment, however many callers pass the check before the first
\* insert, and however often a job repeats a call whose insert succeeded.
OnePerKey == \A p, q \in payments : p.key = q.key => p = q

\* Every caller is given a payment of its own tenant and its own key, which
\* collects into a wallet of that tenant.
AnsweredWithOwn ==
  \A c \in Callers : answer[c] # NoPayment =>
    /\ answer[c] \in payments
    /\ answer[c].key = KeyOf[c] /\ answer[c].tenant = TenantOf[c]
    /\ OwnerOf[answer[c].wallet] = TenantOf[c]

\* Whoever loses the race for a key once finds the winner's payment when it
\* tries again.
LosesOnce == \A c \in Callers : lost[c] <= 1

\* Again and again no call is under way: every call ends, also those whose key or
\* wallet is another tenant's.
CallsEnd == []<>(\A c \in Callers : stage[c] \in {"idle"} \cup Ended)
=============================================================================
